---------------------- MODULE MultiValueAnalysis_proofs ----------------------
(***************************************************************************)
(* Proofs about MultiValueAnalysis, for every program, every condition and *)
(* every content of the uninitialized local.                               *)
(***************************************************************************)
EXTENDS MultiValueAnalysis, TLAPS

-----------------------------------------------------------------------------
(* Programs.                                                               *)

(* The operations of a program are numbered from 1, and their positions    *)
(* are sequences.                                                          *)
LEMMA ProgramType ==
    ASSUME NEW p, WellFormed(p)
    PROVE  /\ Len(p) \in Nat
           /\ DOMAIN p = 1 .. Len(p)
           /\ \A o \in DOMAIN p : /\ p[o] \in Operation
                                  /\ p[o].path \in Seq((Nat \ {0}) \X {1, 2})
                                  /\ Len(p[o].path) \in Nat
<1>1. p \in Seq(Operation)
  BY DEF WellFormed
<1>2. Len(p) \in Nat /\ DOMAIN p = 1 .. Len(p) /\ \A o \in DOMAIN p : p[o] \in Operation
  BY <1>1
<1>3. \A op \in Operation : op.path \in Seq((Nat \ {0}) \X {1, 2})
  BY DEF Operation
<1> QED
  BY <1>2, <1>3

(* Two programs that differ in the attributes of the analysis only.        *)
SameStructure(p, q) ==
    /\ DOMAIN q = DOMAIN p
    /\ Len(q) = Len(p)
    /\ \A o \in DOMAIN p :
         /\ q[o].kind = p[o].kind
         /\ q[o].path = p[o].path
         /\ q[o].comm = p[o].comm
         /\ q[o].bounds = p[o].bounds

(* Attributes of the analysis play no role in MLIR's structure.            *)
LEMMA StructureKept ==
    ASSUME NEW p, WellFormed(p), NEW q, q \in Seq(Operation), SameStructure(p, q)
    PROVE  /\ WellFormed(q)
           /\ \A o \in DOMAIN p : IsBranch(q, o) <=> IsBranch(p, o)
           /\ \A o \in DOMAIN p : \A r \in {1, 2} : Nested(o, r, q) = Nested(o, r, p)
           /\ BranchOps(q) = BranchOps(p)
<1>1. /\ Len(p) \in Nat
      /\ DOMAIN p = 1 .. Len(p)
      /\ \A o \in DOMAIN p : p[o].path \in Seq((Nat \ {0}) \X {1, 2}) /\ Len(p[o].path) \in Nat
  BY ProgramType
<1>2. \A o \in DOMAIN p : IsBranch(q, o) <=> IsBranch(p, o)
  BY DEF SameStructure, IsBranch
<1>3. PathsNested(q)
  <2> SUFFICES ASSUME NEW o \in OpsOf(q), NEW k \in 1 .. Len(q[o].path)
               PROVE  LET b == q[o].path[k][1] IN
                      /\ b \in 1 .. (o - 1)
                      /\ IsBranch(q, b)
                      /\ q[o].path[k][2] = 2 => q[b].kind = "if"
                      /\ q[b].path = SubSeq(q[o].path, 1, k - 1)
    BY DEF PathsNested
  <2>1. o \in DOMAIN p /\ q[o].path = p[o].path /\ k \in 1 .. Len(p[o].path)
    BY DEF OpsOf, SameStructure
  <2> DEFINE b == p[o].path[k][1]
  <2>2. /\ b \in 1 .. (o - 1)
        /\ IsBranch(p, b)
        /\ p[o].path[k][2] = 2 => p[b].kind = "if"
        /\ p[b].path = SubSeq(p[o].path, 1, k - 1)
    BY <2>1, SMTT(30) DEF WellFormed, PathsNested, OpsOf
  <2>3. b \in DOMAIN p
    BY <1>1, <2>1, <2>2, SMTT(30)
  <2>4. q[b].kind = p[b].kind /\ q[b].path = p[b].path /\ IsBranch(q, b)
    BY <1>2, <2>2, <2>3 DEF SameStructure
  <2> QED
    BY <2>1, <2>2, <2>4
<1>4. SubtreesConsecutive(q)
  <2> SUFFICES ASSUME NEW o \in OpsOf(q), NEW k \in 1 .. Len(q[o].path), NEW j \in OpsOf(q),
                      q[o].path[k][1] < j, j < o
               PROVE  /\ Len(q[j].path) >= k
                      /\ q[j].path[k][1] = q[o].path[k][1]
                      /\ q[j].path[k][2] <= q[o].path[k][2]
    BY DEF SubtreesConsecutive
  <2>1. /\ o \in DOMAIN p /\ j \in DOMAIN p
        /\ q[o].path = p[o].path /\ q[j].path = p[j].path
    BY DEF OpsOf, SameStructure
  <2>2. k \in 1 .. Len(p[o].path) /\ p[o].path[k][1] < j /\ j < o
    BY <2>1
  <2>3. /\ Len(p[j].path) >= k
        /\ p[j].path[k][1] = p[o].path[k][1]
        /\ p[j].path[k][2] <= p[o].path[k][2]
    BY <2>1, <2>2 DEF WellFormed, SubtreesConsecutive, OpsOf
  <2> QED
    BY <2>1, <2>3
<1>5. OperandsDefined(q)
  <2> SUFFICES ASSUME NEW o \in OpsOf(q)
               PROVE  /\ q[o].kind = "coll" => /\ q[o].comm \in 1 .. (o - 1)
                                              /\ q[q[o].comm].kind \in CommKinds
                      /\ Len(q[o].bounds) \in {0, 3}
                      /\ Len(q[o].bounds) = 3 => q[o].kind = "for"
    BY DEF OperandsDefined
  <2>1. o \in DOMAIN p /\ q[o].kind = p[o].kind /\ q[o].comm = p[o].comm /\ q[o].bounds = p[o].bounds
    BY DEF OpsOf, SameStructure
  <2>2. /\ p[o].kind = "coll" => p[o].comm \in 1 .. (o - 1) /\ p[p[o].comm].kind \in CommKinds
        /\ Len(p[o].bounds) \in {0, 3}
        /\ Len(p[o].bounds) = 3 => p[o].kind = "for"
    BY <2>1 DEF WellFormed, OperandsDefined, OpsOf
  <2>3. p[o].kind = "coll" => p[o].comm \in DOMAIN p
    BY <1>1, <2>1, <2>2
  <2> QED
    BY <2>1, <2>2, <2>3 DEF SameStructure
<1>6. \A o \in DOMAIN p : \A r \in {1, 2} : Nested(o, r, q) = Nested(o, r, p)
  BY DEF SameStructure, Nested, Body
<1>7. BranchOps(q) = BranchOps(p)
  BY <1>2 DEF BranchOps, SameStructure
<1> QED
  BY <1>2, <1>3, <1>4, <1>5, <1>6, <1>7 DEF WellFormed

(* What is nested in an operation comes after it, and in one of its        *)
(* regions only.                                                           *)
LEMMA NestedAfter ==
    ASSUME NEW p, WellFormed(p), NEW o \in DOMAIN p, NEW r \in {1, 2}, NEW j \in Nested(o, r, p)
    PROVE  /\ j \in DOMAIN p /\ o < j
           /\ \A s \in {1, 2} : j \in Nested(o, s, p) => s = r
<1>1. /\ Len(p[o].path) \in Nat /\ p[o].path \in Seq((Nat \ {0}) \X {1, 2})
      /\ o \in Nat
  BY ProgramType
<1>2. j \in DOMAIN p /\ j \in Nat /\ Len(p[j].path) \in Nat
  BY ProgramType DEF Nested
<1> DEFINE k == Len(p[o].path) + 1
<1>3. ASSUME NEW s \in {1, 2}, j \in Nested(o, s, p)
      PROVE  k \in 1 .. Len(p[j].path) /\ p[j].path[k] = <<o, s>>
  <2>1. /\ Len(Body(o, s, p)) = k /\ Body(o, s, p)[k] = <<o, s>>
        /\ Encloses(Body(o, s, p), p[j].path)
    BY <1>1, <1>3 DEF Body, Nested
  <2> QED
    BY <1>1, <1>2, <2>1, SMTT(30) DEF Encloses
<1>4. k \in 1 .. Len(p[j].path) /\ p[j].path[k] = <<o, r>>
  BY <1>3
<1>5. o \in 1 .. (j - 1)
  BY <1>2, <1>4 DEF WellFormed, PathsNested, OpsOf
<1> QED
  BY <1>1, <1>2, <1>3, <1>4, <1>5

-----------------------------------------------------------------------------
(* Executors and labels.                                                   *)

(* getCmpOps finds comparisons.                                            *)
LEMMA CmpOpsType ==
    ASSUME NEW c \in Condition, WellShaped(c), NEW i \in DOMAIN CmpOps(c)
    PROVE  CmpOps(c)[i] \in Comparison
<1>1. c.cmps \in Seq(Comparison)
  BY DEF Condition
<1>2. CASE c.shape = "orAnd"
  <2>1. Len(c.cmps) = 3
    BY <1>2 DEF WellShaped
  <2>2. c.cmps[1] \in Comparison /\ c.cmps[2] \in Comparison /\ c.cmps[3] \in Comparison
    BY <1>1, <2>1
  <2>3. CmpOps(c) = <<DropNE(c.cmps[1], c.cmps[2]), c.cmps[3]>>
    BY <1>2 DEF CmpOps
  <2> QED
    BY <2>2, <2>3 DEF DropNE
<1>3. CASE c.shape # "orAnd"
  BY <1>1, <1>3 DEF CmpOps
<1> QED
  BY <1>2, <1>3

(* Executors are 32-bit numbers, whatever the local held.                  *)
LEMMA ExecutorsType ==
    ASSUME NEW c \in Condition, WellShaped(c), NEW l \in ExecutorLists(c)
    PROVE  /\ \A i \in DOMAIN l : l[i] \in Int
           /\ \A i \in DOMAIN Cleared(l) : Cleared(l)[i] \in Int
<1>1. ASSUME NEW i \in DOMAIN l PROVE l[i] \in Int
  <2>1. i \in DOMAIN CmpOps(c) /\ l[i] \in ExecutorOf(CmpOps(c)[i])
    BY DEF ExecutorLists, RankCmps
  <2>2. CmpOps(c)[i] \in Comparison
    BY <2>1, CmpOpsType
  <2>3. ExecutorOf(CmpOps(c)[i]) \subseteq Int
    BY <2>2, AnalysisAssumption DEF ExecutorOf, Comparison
  <2> QED
    BY <2>1, <2>3
<1>2. ASSUME NEW i \in DOMAIN Cleared(l) PROVE Cleared(l)[i] \in Int
  BY <1>1 DEF Cleared
<1> QED
  BY <1>1, <1>2

(* A label is a label, never "All", and changes nothing else.              *)
LEMMA LabelledType ==
    ASSUME NEW op \in Operation, NEW region, NEW e, \A i \in DOMAIN e : e[i] \in Int
    PROVE  LET l == Labelled(op, region, e) IN
           /\ l \in Operation
           /\ l.kind = op.kind /\ l.path = op.path /\ l.comm = op.comm /\ l.bounds = op.bounds
           /\ l.mv = op.mv /\ l.execKind # "All"
           /\ Labelled(l, region, e) = l
<1>1. ExecutorSet(e) \subseteq Int
  BY DEF ExecutorSet
<1> HIDE DEF ExecutorSet
<1>2. CASE DOMAIN e = {}
  BY <1>2 DEF Labelled, Operation
<1>3. CASE DOMAIN e # {} /\ OneUniform(e)
  BY <1>3 DEF Labelled, Operation
<1>4. CASE DOMAIN e # {} /\ ~OneUniform(e) /\ region = 1
  BY <1>1, <1>4 DEF Labelled, Operation
<1>5. CASE DOMAIN e # {} /\ ~OneUniform(e) /\ region # 1
  BY <1>1, <1>5 DEF Labelled, Operation
<1> QED
  BY <1>2, <1>3, <1>4, <1>5

(* setMV changes neither label nor structure.                              *)
SameLabel(op, l) ==
    /\ l \in Operation
    /\ l.kind = op.kind /\ l.path = op.path /\ l.comm = op.comm /\ l.bounds = op.bounds
    /\ l.execKind = op.execKind
    /\ l.executedBy = op.executedBy /\ l.executedNotBy = op.executedNotBy

LEMMA SetMVKeepsLabel ==
    ASSUME NEW op \in Operation
    PROVE  /\ SameLabel(op, op)
           /\ SameLabel(op, [op EXCEPT !.mv = TRUE])
           /\ \A b \in BOOLEAN : SameLabel(op, [op EXCEPT !.mv = b])
BY DEF Operation, SameLabel

(* Whether a label is that of a conditional depends on the label alone.    *)
LEMMA SameLabelled ==
    ASSUME NEW op \in Operation, NEW region, NEW e, op = Labelled(op, region, e),
           NEW m, SameLabel(op, m)
    PROVE  m = Labelled(m, region, e)
<1> USE DEF Operation, SameLabel
<1>2. CASE DOMAIN e = {}
  BY <1>2 DEF Labelled
<1>3. CASE DOMAIN e # {} /\ OneUniform(e)
  BY <1>3 DEF Labelled
<1>4. CASE DOMAIN e # {} /\ ~OneUniform(e) /\ region = 1
  <2>1. op.execKind = "Static" /\ op.executedBy = ExecutorSet(e)
    BY <1>4 DEF Labelled
  <2>2. m.execKind = "Static" /\ m.executedBy = ExecutorSet(e)
    BY <2>1
  <2>3. m = [m EXCEPT !.execKind = "Static", !.executedBy = ExecutorSet(e)]
    BY <2>2
  <2> QED
    BY <1>4, <2>3 DEF Labelled
<1>5. CASE DOMAIN e # {} /\ ~OneUniform(e) /\ region # 1
  <2>1. op.execKind = "AllBut" /\ op.executedNotBy = ExecutorSet(e)
    BY <1>5 DEF Labelled
  <2>2. m.execKind = "AllBut" /\ m.executedNotBy = ExecutorSet(e)
    BY <2>1
  <2>3. m = [m EXCEPT !.execKind = "AllBut", !.executedNotBy = ExecutorSet(e)]
    BY <2>2
  <2> QED
    BY <1>5, <2>3 DEF Labelled
<1> QED
  BY <1>2, <1>3, <1>4, <1>5

(* The program q after a multi-valued scf.if o of p has been visited.      *)
Relabels(p, o, e, q) ==
    /\ q \in Seq(Operation)
    /\ SameStructure(p, q)
    /\ \A j \in DOMAIN p : \A r \in {1, 2} :
         j \in Nested(o, r, p) => q[j].execKind # "All" /\ q[j] = Labelled(q[j], r, e)
    /\ \A j \in DOMAIN p \ (Nested(o, 1, p) \union Nested(o, 2, p)) : SameLabel(p[j], q[j])

LEMMA RelabelledType ==
    ASSUME NEW p, WellFormed(p), NEW o \in DOMAIN p,
           NEW e, \A i \in DOMAIN e : e[i] \in Int
    PROVE  Relabels(p, o, e, Relabelled(p, o, e))
<1> DEFINE q == Relabelled(p, o, e)
<1>1. /\ Len(p) \in Nat /\ DOMAIN p = 1 .. Len(p)
      /\ \A j \in DOMAIN p : p[j] \in Operation
  BY ProgramType
<1>2. ASSUME NEW j \in DOMAIN p, NEW r \in {1, 2}, j \in Nested(o, r, p)
      PROVE  q[j] = Labelled(p[j], r, e)
  BY <1>2, NestedAfter DEF Relabelled
<1>3. ASSUME NEW j \in DOMAIN p, j \notin Nested(o, 1, p) \union Nested(o, 2, p)
      PROVE  SameLabel(p[j], q[j])
  <2>1. q[j] = p[j] \/ q[j] = [p[j] EXCEPT !.mv = TRUE]
    BY <1>3 DEF Relabelled
  <2> QED
    BY <1>1, <2>1, SetMVKeepsLabel
<1>4. ASSUME NEW j \in DOMAIN p, NEW r \in {1, 2}, j \in Nested(o, r, p)
      PROVE  /\ q[j] \in Operation
             /\ q[j].kind = p[j].kind /\ q[j].path = p[j].path
             /\ q[j].comm = p[j].comm /\ q[j].bounds = p[j].bounds
             /\ q[j].execKind # "All"
             /\ q[j] = Labelled(q[j], r, e)
  BY <1>1, <1>2, <1>4, LabelledType
<1>5. ASSUME NEW j \in DOMAIN p, j \notin Nested(o, 1, p) \union Nested(o, 2, p)
      PROVE  /\ q[j] \in Operation
             /\ q[j].kind = p[j].kind /\ q[j].path = p[j].path
             /\ q[j].comm = p[j].comm /\ q[j].bounds = p[j].bounds
  BY <1>3, <1>5 DEF SameLabel
<1>6. \A j \in DOMAIN p : /\ q[j] \in Operation
                          /\ q[j].kind = p[j].kind /\ q[j].path = p[j].path
                          /\ q[j].comm = p[j].comm /\ q[j].bounds = p[j].bounds
  BY <1>4, <1>5
<1>7. DOMAIN q = DOMAIN p /\ q = [j \in 1 .. Len(p) |-> q[j]]
  BY <1>1 DEF Relabelled
<1> HIDE DEF q
<1>8. q \in Seq(Operation) /\ Len(q) = Len(p)
  BY <1>1, <1>6, <1>7
<1>9. SameStructure(p, q)
  BY <1>6, <1>7, <1>8 DEF SameStructure
<1> QED
  BY <1>3, <1>4, <1>8, <1>9 DEF Relabels, q

(* The program after any other conditional or loop has been visited.       *)
LEMMA MarkedType ==
    ASSUME NEW p, WellFormed(p), NEW o \in DOMAIN p, NEW b \in BOOLEAN,
           NEW q, q = [p EXCEPT ![o].mv = b]
    PROVE  /\ q \in Seq(Operation)
           /\ SameStructure(p, q)
           /\ \A j \in DOMAIN p : SameLabel(p[j], q[j])
<1>1. /\ Len(p) \in Nat /\ DOMAIN p = 1 .. Len(p)
      /\ \A j \in DOMAIN p : p[j] \in Operation
  BY ProgramType
<1>2. DOMAIN q = DOMAIN p /\ q = [j \in 1 .. Len(p) |-> q[j]]
  BY <1>1
<1>3. ASSUME NEW j \in DOMAIN p PROVE SameLabel(p[j], q[j])
  <2>1. q[j] = p[j] \/ q[j] = [p[j] EXCEPT !.mv = b]
    OBVIOUS
  <2> QED
    BY <1>1, <2>1, SetMVKeepsLabel
<1>4. \A j \in DOMAIN p : /\ q[j] \in Operation
                          /\ q[j].kind = p[j].kind /\ q[j].path = p[j].path
                          /\ q[j].comm = p[j].comm /\ q[j].bounds = p[j].bounds
  BY <1>3 DEF SameLabel
<1>5. q \in Seq(Operation) /\ Len(q) = Len(p)
  BY ONLY <1>1, <1>2, <1>4
<1> QED
  BY <1>2, <1>3, <1>4, <1>5 DEF SameStructure

-----------------------------------------------------------------------------
(* The walk.                                                               *)

(* The inductive invariant: the labels of what the walk has passed, the    *)
(* types they rest on, and the shapes that getCmpOps knows, which only the *)
(* initial states give.                                                    *)
MVInv ==
    /\ TypeOKMV
    /\ \A o \in BranchOps(prog) : WellShaped(cond[o])
    /\ walk = "label" => at = 0
    /\ AllUndivided
    /\ InnermostLabels

(* Attributes of the analysis do not decide what divides an operation;     *)
(* only a multi-valued scf.if that is visited is added to it.              *)
LEMMA DividingGrows ==
    ASSUME TypeOKMV, SameStructure(prog, prog'), prog' \in Seq(Operation),
           cond' = cond, NEW o \in DOMAIN prog, o = at + 1, at' = o
    PROVE  /\ WellFormed(prog')
           /\ BranchOps(prog)' = BranchOps(prog)
           /\ \A j \in DOMAIN prog : Dividing(j)' =
                Dividing(j) \union
                  {b \in {o} : /\ IsBranch(prog, o) /\ prog[o].kind = "if" /\ IsMV(o)
                              /\ j \in Nested(o, 1, prog) \union Nested(o, 2, prog)}
           /\ \A j \in DOMAIN prog : \A b \in Dividing(j) : b < o
           /\ \A b \in 1 .. o : \A r \in {1, 2} : Nested(b, r, prog)' = Nested(b, r, prog)
<1>1. /\ WellFormed(prog)
      /\ at \in Nat /\ at \in 0 .. Len(prog)
      /\ Len(prog) \in Nat /\ DOMAIN prog = 1 .. Len(prog)
  BY ProgramType DEF TypeOKMV
<1>2. /\ WellFormed(prog')
      /\ \A b \in DOMAIN prog : IsBranch(prog', b) <=> IsBranch(prog, b)
      /\ \A b \in DOMAIN prog : \A r \in {1, 2} : Nested(b, r, prog') = Nested(b, r, prog)
      /\ BranchOps(prog') = BranchOps(prog)
  BY <1>1, StructureKept
<1>3. 1 .. at' = (1 .. at) \union {o} /\ 1 .. at' \subseteq DOMAIN prog /\ o \notin 1 .. at
  BY <1>1
<1>4. \A b \in DOMAIN prog : prog'[b].kind = prog[b].kind
  BY DEF SameStructure
<1>5. \A b : IsMV(b)' <=> IsMV(b)
  BY DEF IsMV
<1>6. ASSUME NEW j \in DOMAIN prog
      PROVE  Dividing(j)' = Dividing(j) \union
               {b \in {o} : /\ IsBranch(prog, o) /\ prog[o].kind = "if" /\ IsMV(o)
                           /\ j \in Nested(o, 1, prog) \union Nested(o, 2, prog)}
  <2>1. Dividing(j)' = {b \in 1 .. at' : IsBranch(prog', b) /\ prog'[b].kind = "if" /\ IsMV(b)'
                                  /\ j \in Nested(b, 1, prog') \union Nested(b, 2, prog')}
    BY DEF Dividing
  <2>2. Dividing(j)' = {b \in 1 .. at' : IsBranch(prog, b) /\ prog[b].kind = "if" /\ IsMV(b)
                                  /\ j \in Nested(b, 1, prog) \union Nested(b, 2, prog)}
    BY <1>2, <1>3, <1>4, <1>5, <2>1
  <2> QED
    BY <1>3, <2>2 DEF Dividing
<1>7. \A j \in DOMAIN prog : \A b \in Dividing(j) : b < o
  BY <1>1 DEF Dividing
<1>8. \A b \in 1 .. o : \A r \in {1, 2} : Nested(b, r, prog)' = Nested(b, r, prog)
  BY <1>2, <1>3
<1> QED
  BY <1>2, <1>6, <1>7, <1>8

(* A step that leaves program and position alone leaves the labels right.  *)
LEMMA WalkOnlyInv ==
    ASSUME MVInv, UNCHANGED <<prog, cond, at>>, walk = "label" <=> walk' = "label",
           walk' \in {"label", "visit", "done", "asserted", "unreachable"}
    PROVE  MVInv'
<1>1. prog' = prog /\ cond' = cond /\ at' = at
  OBVIOUS
<1>2. TypeOKMV'
  BY <1>1 DEF MVInv, TypeOKMV
<1>3. (\A o \in BranchOps(prog) : WellShaped(cond[o]))' /\ (walk = "label" => at = 0)'
  BY <1>1 DEF MVInv
<1>4. \A o : Dividing(o)' = Dividing(o)
  BY <1>1 DEF Dividing, IsMV
<1>5. AllUndivided'
  BY <1>1, <1>4 DEF MVInv, AllUndivided
<1>6. InnermostLabels'
  <2> SUFFICES ASSUME walk' # "label", NEW o \in DOMAIN prog, Dividing(o) # {}
               PROVE  \E b \in Dividing(o) :
                        /\ \A a \in Dividing(o) : a <= b
                        /\ \E l \in ExecutorLists(cond[b]) : \E region \in {1, 2} :
                             /\ o \in Nested(b, region, prog)
                             /\ prog[o] = Labelled(prog[o], region, Cleared(l))
    BY <1>1, <1>4 DEF InnermostLabels
  <2> QED
    BY DEF MVInv, InnermostLabels
<1> QED
  BY <1>2, <1>3, <1>5, <1>6 DEF MVInv

(* The first walk.                                                         *)
LEMMA LabelAllInv ==
    ASSUME MVInv, LabelAll
    PROVE  MVInv'
<1>1. /\ WellFormed(prog) /\ at = 0
      /\ Len(prog) \in Nat /\ DOMAIN prog = 1 .. Len(prog)
      /\ \A o \in DOMAIN prog : prog[o] \in Operation
  BY ProgramType DEF MVInv, TypeOKMV, LabelAll
<1>2. ASSUME NEW op \in Operation, NEW l, l = [op EXCEPT !.execKind = "All"]
      PROVE  /\ l \in Operation /\ l.execKind = "All"
             /\ l.kind = op.kind /\ l.path = op.path
             /\ l.comm = op.comm /\ l.bounds = op.bounds
  BY <1>2 DEF Operation
<1>3. /\ DOMAIN prog' = DOMAIN prog
      /\ \A o \in DOMAIN prog : prog'[o] = [prog[o] EXCEPT !.execKind = "All"]
      /\ prog' = [o \in 1 .. Len(prog) |-> prog'[o]]
  BY <1>1 DEF LabelAll
<1>4. \A o \in DOMAIN prog :
         /\ prog'[o] \in Operation /\ prog'[o].execKind = "All"
         /\ prog'[o].kind = prog[o].kind /\ prog'[o].path = prog[o].path
         /\ prog'[o].comm = prog[o].comm /\ prog'[o].bounds = prog[o].bounds
  BY <1>1, <1>2, <1>3
<1>5. prog' \in Seq(Operation) /\ Len(prog') = Len(prog)
  BY <1>1, <1>3, <1>4
<1>6. SameStructure(prog, prog')
  BY <1>3, <1>4, <1>5 DEF SameStructure
<1>7. WellFormed(prog') /\ BranchOps(prog') = BranchOps(prog)
  BY <1>1, <1>5, <1>6, StructureKept
<1>8. at' = 0 /\ cond' = cond /\ walk' = "visit"
  BY <1>1 DEF LabelAll
<1>9. TypeOKMV' /\ (\A o \in BranchOps(prog) : WellShaped(cond[o]))'
  BY <1>1, <1>5, <1>7, <1>8 DEF MVInv, TypeOKMV
<1>10. \A o : Dividing(o)' = {}
  BY <1>8 DEF Dividing
<1>11. AllUndivided' /\ InnermostLabels'
  BY <1>3, <1>4, <1>10 DEF AllUndivided, InnermostLabels
<1> QED
  BY <1>8, <1>9, <1>11 DEF MVInv

(* A visit of o that leaves the labels alone: nothing is divided by o.     *)
LEMMA VisitWithoutLabelsInv ==
    ASSUME MVInv, NEW o \in DOMAIN prog, Visiting(o), at' = o, UNCHANGED <<cond, walk>>,
           prog' \in Seq(Operation), SameStructure(prog, prog'),
           ~(IsBranch(prog, o) /\ prog[o].kind = "if" /\ IsMV(o)),
           \A j \in DOMAIN prog : SameLabel(prog[j], prog'[j])
    PROVE  MVInv'
<1>1. /\ TypeOKMV /\ WellFormed(prog) /\ walk = "visit"
      /\ Len(prog) \in Nat /\ DOMAIN prog = 1 .. Len(prog)
      /\ \A j \in DOMAIN prog : prog[j] \in Operation
      /\ o = at + 1 /\ o \in 0 .. Len(prog)
  BY ProgramType DEF MVInv, TypeOKMV, Visiting
<1>2. /\ WellFormed(prog') /\ BranchOps(prog)' = BranchOps(prog)
      /\ \A j \in DOMAIN prog : Dividing(j)' = Dividing(j)
      /\ \A j \in DOMAIN prog : \A a \in Dividing(j) : a < o
      /\ \A a \in 1 .. o : \A r \in {1, 2} : Nested(a, r, prog)' = Nested(a, r, prog)
  <2>1. /\ \A j \in DOMAIN prog : Dividing(j)' = Dividing(j) \union
             {a \in {o} : /\ IsBranch(prog, o) /\ prog[o].kind = "if" /\ IsMV(o)
                         /\ j \in Nested(o, 1, prog) \union Nested(o, 2, prog)}
        /\ WellFormed(prog') /\ BranchOps(prog)' = BranchOps(prog)
        /\ \A j \in DOMAIN prog : \A a \in Dividing(j) : a < o
        /\ \A a \in 1 .. o : \A r \in {1, 2} : Nested(a, r, prog)' = Nested(a, r, prog)
    BY <1>1, DividingGrows
  <2> QED
    BY <2>1
<1>3. DOMAIN prog' = DOMAIN prog /\ Len(prog') = Len(prog)
  BY DEF SameStructure
<1>4. TypeOKMV' /\ (\A a \in BranchOps(prog) : WellShaped(cond[a]))' /\ walk' = "visit"
  BY <1>1, <1>2, <1>3 DEF MVInv, TypeOKMV
<1>5. \A j \in DOMAIN prog : prog'[j].execKind = prog[j].execKind
  BY DEF SameLabel
<1>6. AllUndivided'
  BY <1>1, <1>2, <1>3, <1>5 DEF MVInv, AllUndivided
<1>7. InnermostLabels'
  <2> SUFFICES ASSUME NEW j \in DOMAIN prog, Dividing(j) # {}
               PROVE  \E c \in Dividing(j) :
                        /\ \A a \in Dividing(j) : a <= c
                        /\ \E l \in ExecutorLists(cond[c]) : \E region \in {1, 2} :
                             /\ j \in Nested(c, region, prog)'
                             /\ prog'[j] = Labelled(prog'[j], region, Cleared(l))
    BY <1>2, <1>3 DEF InnermostLabels
  <2>1. PICK c \in Dividing(j) :
          /\ \A a \in Dividing(j) : a <= c
          /\ \E l \in ExecutorLists(cond[c]) : \E region \in {1, 2} :
               /\ j \in Nested(c, region, prog)
               /\ prog[j] = Labelled(prog[j], region, Cleared(l))
    BY <1>1 DEF MVInv, InnermostLabels
  <2>2. PICK l \in ExecutorLists(cond[c]), region \in {1, 2} :
               /\ j \in Nested(c, region, prog)
               /\ prog[j] = Labelled(prog[j], region, Cleared(l))
    BY <2>1
  <2>3. prog'[j] = Labelled(prog'[j], region, Cleared(l))
    BY <1>1, <2>2, SameLabelled
  <2>4. c \in 1 .. o
    BY <1>1, <1>2 DEF Dividing
  <2> QED
    BY <1>2, <2>1, <2>2, <2>3, <2>4
<1> QED
  BY <1>4, <1>6, <1>7 DEF MVInv

(* A visit of a multi-valued scf.if.                                       *)
LEMMA VisitIfInv ==
    ASSUME MVInv, NEW o \in DOMAIN prog, NEW e, VisitIf(o, e)
    PROVE  MVInv'
<1>1. /\ TypeOKMV /\ WellFormed(prog) /\ walk = "visit"
      /\ Len(prog) \in Nat /\ DOMAIN prog = 1 .. Len(prog)
      /\ \A j \in DOMAIN prog : prog[j] \in Operation
      /\ o = at + 1 /\ o \in 0 .. Len(prog) /\ at' = o
      /\ IsBranch(prog, o) /\ prog[o].kind = "if" /\ IsMV(o)
      /\ cond' = cond /\ walk' = walk
      /\ prog' = Relabelled(prog, o, e)
  BY ProgramType DEF MVInv, TypeOKMV, VisitIf, AtLabelledIf, Visiting, Supported
<1>2. PICK l \in ExecutorLists(cond[o]) : e = Cleared(l)
  BY DEF VisitIf, AtLabelledIf
<1>3. o \in BranchOps(prog) /\ cond[o] \in Condition /\ WellShaped(cond[o])
  BY <1>1 DEF BranchOps, MVInv, TypeOKMV
<1>4. \A i \in DOMAIN e : e[i] \in Int
  BY <1>2, <1>3, ExecutorsType
<1>5. Relabels(prog, o, e, prog') /\ prog' \in Seq(Operation) /\ SameStructure(prog, prog')
  <2>1. Relabels(prog, o, e, Relabelled(prog, o, e))
    BY <1>1, <1>4, RelabelledType
  <2>2. Relabels(prog, o, e, prog')
    BY <1>1, <2>1
  <2> QED
    BY <2>2 DEF Relabels
<1>6. /\ WellFormed(prog') /\ BranchOps(prog)' = BranchOps(prog)
      /\ \A j \in DOMAIN prog :
           Dividing(j)' = Dividing(j) \union
                            {b \in {o} : j \in Nested(o, 1, prog) \union Nested(o, 2, prog)}
      /\ \A j \in DOMAIN prog : \A a \in Dividing(j) : a < o
      /\ \A a \in 1 .. o : \A r \in {1, 2} : Nested(a, r, prog)' = Nested(a, r, prog)
  BY <1>1, <1>5, DividingGrows
<1>7. DOMAIN prog' = DOMAIN prog /\ Len(prog') = Len(prog)
  BY <1>5 DEF SameStructure
<1>8. TypeOKMV' /\ (\A a \in BranchOps(prog) : WellShaped(cond[a]))' /\ walk' = "visit"
  BY <1>1, <1>5, <1>6, <1>7 DEF MVInv, TypeOKMV
<1>9. AllUndivided'
  <2> SUFFICES ASSUME NEW j \in DOMAIN prog
               PROVE  prog'[j].execKind = "All" <=> Dividing(j)' = {}
    BY <1>7 DEF AllUndivided
  <2>1. CASE j \in Nested(o, 1, prog) \union Nested(o, 2, prog)
    BY <1>5, <1>6, <2>1 DEF Relabels
  <2>2. CASE j \notin Nested(o, 1, prog) \union Nested(o, 2, prog)
    <3>1. Dividing(j)' = Dividing(j)
      BY <1>6, <2>2
    <3>2. prog'[j].execKind = prog[j].execKind
      BY <1>5, <2>2 DEF Relabels, SameLabel
    <3> QED
      BY <1>1, <3>1, <3>2 DEF MVInv, AllUndivided
  <2> QED
    BY <2>1, <2>2
<1>10. InnermostLabels'
  <2> SUFFICES ASSUME NEW j \in DOMAIN prog, Dividing(j)' # {}
               PROVE  \E c \in Dividing(j)' :
                        /\ \A a \in Dividing(j)' : a <= c
                        /\ \E k \in ExecutorLists(cond[c]) : \E region \in {1, 2} :
                             /\ j \in Nested(c, region, prog)'
                             /\ prog'[j] = Labelled(prog'[j], region, Cleared(k))
    BY <1>1, <1>7 DEF InnermostLabels
  <2>1. CASE j \in Nested(o, 1, prog) \union Nested(o, 2, prog)
    <3>1. PICK r \in {1, 2} : j \in Nested(o, r, prog)
      BY <2>1
    <3>2. o \in Dividing(j)' /\ \A a \in Dividing(j)' : a <= o
      <4>1. Dividing(j)' = Dividing(j) \union {o}
        BY <1>6, <2>1
      <4> QED
        BY <1>1, <1>6, <4>1 DEF Dividing
    <3>3. j \in Nested(o, r, prog)' /\ prog'[j] = Labelled(prog'[j], r, Cleared(l))
      BY <1>1, <1>2, <1>5, <1>6, <3>1 DEF Relabels
    <3> QED
      BY <3>2, <3>3
  <2>2. CASE j \notin Nested(o, 1, prog) \union Nested(o, 2, prog)
    <3>1. Dividing(j)' = Dividing(j)
      BY <1>6, <2>2
    <3>2. PICK c \in Dividing(j) :
            /\ \A a \in Dividing(j) : a <= c
            /\ \E k \in ExecutorLists(cond[c]) : \E region \in {1, 2} :
                 /\ j \in Nested(c, region, prog)
                 /\ prog[j] = Labelled(prog[j], region, Cleared(k))
      BY <1>1, <3>1 DEF MVInv, InnermostLabels
    <3>3. PICK k \in ExecutorLists(cond[c]), region \in {1, 2} :
                 /\ j \in Nested(c, region, prog)
                 /\ prog[j] = Labelled(prog[j], region, Cleared(k))
      BY <3>2
    <3>4. prog'[j] = Labelled(prog'[j], region, Cleared(k))
      <4>1. SameLabel(prog[j], prog'[j])
        BY <1>5, <2>2 DEF Relabels
      <4> QED
        BY <1>1, <3>3, <4>1, SameLabelled
    <3>5. c \in 1 .. o
      BY <1>1, <1>6 DEF Dividing
    <3> QED
      BY <1>6, <3>1, <3>2, <3>3, <3>4, <3>5
  <2> QED
    BY <2>1, <2>2
<1> QED
  BY <1>8, <1>9, <1>10 DEF MVInv

(* The invariant holds when the walks begin.                               *)
LEMMA InitMVInv == InitMV => MVInv
<1> SUFFICES ASSUME InitMV PROVE MVInv
  OBVIOUS
<1>1. WellFormed(prog) /\ at = 0 /\ walk = "label" /\ Len(prog) \in Nat
  BY ProgramType DEF InitMV, InitWalk
<1>2. TypeOKMV /\ \A o \in BranchOps(prog) : WellShaped(cond[o])
  BY <1>1 DEF InitMV, TypeOKMV
<1> QED
  BY <1>1, <1>2 DEF MVInv, AllUndivided, InnermostLabels

(* Every step of the walks keeps it.                                       *)
LEMMA NextMVInv == MVInv /\ [NextMV]_mvVars => MVInv'
<1> SUFFICES ASSUME MVInv, [NextMV]_mvVars PROVE MVInv'
  OBVIOUS
<1>1. CASE LabelAll
  BY <1>1, LabelAllInv
<1>2. ASSUME NEW o \in DOMAIN prog, VisitOther(o) PROVE MVInv'
  <2>1. WellFormed(prog) /\ prog \in Seq(Operation) /\ prog' = prog
    BY <1>2 DEF MVInv, TypeOKMV, WellFormed, VisitOther
  <2>2. SameStructure(prog, prog')
    BY <2>1 DEF SameStructure
  <2>3. \A j \in DOMAIN prog : SameLabel(prog[j], prog'[j])
    BY <2>1, ProgramType, SetMVKeepsLabel
  <2> QED
    BY <1>2, <2>1, <2>2, <2>3, VisitWithoutLabelsInv DEF VisitOther
<1>3. ASSUME NEW o \in DOMAIN prog, VisitUnlabelled(o) PROVE MVInv'
  <2>1. WellFormed(prog) /\ prog' = [prog EXCEPT ![o].mv = IsMV(o)] /\ IsMV(o) \in BOOLEAN
    BY <1>3 DEF MVInv, TypeOKMV, VisitUnlabelled, IsMV
  <2>2. /\ prog' \in Seq(Operation) /\ SameStructure(prog, prog')
        /\ \A j \in DOMAIN prog : SameLabel(prog[j], prog'[j])
    BY <2>1, MarkedType
  <2> QED
    BY <1>3, <2>2, VisitWithoutLabelsInv DEF VisitUnlabelled
<1>4. ASSUME NEW o \in DOMAIN prog, VisitUnreachable(o) PROVE MVInv'
  BY <1>4, WalkOnlyInv DEF VisitUnreachable, Visiting
<1>5. ASSUME NEW o \in DOMAIN prog, NEW e, VisitIf(o, e) PROVE MVInv'
  BY <1>5, VisitIfInv
<1>6. ASSUME NEW o \in DOMAIN prog, NEW e, AssertInIf(o, e) PROVE MVInv'
  BY <1>6, WalkOnlyInv DEF AssertInIf, AtLabelledIf, Visiting
<1>7. CASE EndWalk
  BY <1>7, WalkOnlyInv DEF EndWalk
<1>8. CASE UNCHANGED mvVars
  BY <1>8, WalkOnlyInv DEF mvVars, MVInv, TypeOKMV
<1> QED
  BY <1>1, <1>2, <1>3, <1>4, <1>5, <1>6, <1>7, <1>8 DEF NextMV

-----------------------------------------------------------------------------
(* What the pass guarantees.                                               *)

LEMMA MVInvAlways == SpecMV => []MVInv
BY InitMVInv, NextMVInv, PTL DEF SpecMV

(* The labels are labels and leave the program well formed, and the walk   *)
(* stays within the program: setExecKind, setMV and the attributes of      *)
(* runOnOperation on every program and every condition.                    *)
THEOREM TypeCorrectMV == SpecMV => []TypeOKMV
<1>1. MVInv => TypeOKMV
  BY DEF MVInv
<1> QED
  BY <1>1, MVInvAlways, PTL

(* An operation keeps the label "All" exactly as long as no multi-valued   *)
(* scf.if visited encloses it.                                             *)
THEOREM AllUndividedAlways == SpecMV => []AllUndivided
<1>1. MVInv => AllUndivided
  BY DEF MVInv
<1> QED
  BY <1>1, MVInvAlways, PTL

(* A label is that of the innermost multi-valued scf.if visited, although  *)
(* different conditionals set different attributes.                        *)
THEOREM InnermostLabelsAlways == SpecMV => []InnermostLabels
<1>1. MVInv => InnermostLabels
  BY DEF MVInv
<1> QED
  BY <1>1, MVInvAlways, PTL

(* The walk never changes an operation it has passed: a relabelled region  *)
(* lies wholly ahead of it.                                                *)
THEOREM PassedUntouchedAlways == SpecMV => PassedUntouched
<1>1. MVInv /\ [NextMV]_mvVars => [walk = "visit" => \A o \in 1 .. at : prog'[o] = prog[o]]_mvVars
  <2> SUFFICES ASSUME MVInv, NextMV, walk = "visit", NEW j \in 1 .. at
               PROVE  prog'[j] = prog[j]
    OBVIOUS
  <2>1. /\ WellFormed(prog) /\ Len(prog) \in Nat /\ DOMAIN prog = 1 .. Len(prog)
        /\ at \in 0 .. Len(prog) /\ j \in DOMAIN prog
    BY ProgramType DEF MVInv, TypeOKMV
  <2>2. ASSUME NEW o \in DOMAIN prog, VisitOther(o) \/ VisitUnreachable(o)
        PROVE  prog'[j] = prog[j]
    BY <2>2 DEF VisitOther, VisitUnreachable
  <2>3. ASSUME NEW o \in DOMAIN prog, VisitUnlabelled(o) PROVE prog'[j] = prog[j]
    BY <2>1, <2>3 DEF VisitUnlabelled, Visiting
  <2>4. ASSUME NEW o \in DOMAIN prog, NEW e, VisitIf(o, e) PROVE prog'[j] = prog[j]
    <3>1. o = at + 1 /\ prog' = Relabelled(prog, o, e)
      BY <2>4 DEF VisitIf, AtLabelledIf, Visiting
    <3>2. j # o /\ j \notin Nested(o, 1, prog) /\ j \notin Nested(o, 2, prog)
      BY <2>1, <3>1, NestedAfter
    <3> QED
      BY <2>1, <3>1, <3>2 DEF Relabelled
  <2>5. ASSUME NEW o \in DOMAIN prog, NEW e, AssertInIf(o, e) PROVE prog'[j] = prog[j]
    BY <2>5 DEF AssertInIf
  <2>6. CASE EndWalk
    BY <2>6 DEF EndWalk
  <2> QED
    BY <2>2, <2>3, <2>4, <2>5, <2>6 DEF NextMV, LabelAll
<1> QED
  BY <1>1, MVInvAlways, PTL DEF SpecMV, PassedUntouched

-----------------------------------------------------------------------------
(* What labels mean.                                                       *)

(* The executors of a condition that tests the rank for equality with      *)
(* constants only, when the label they lead to names ranks: the constants. *)
LEMMA NamedExecutors ==
    ASSUME NEW c \in Condition, WellShaped(c), OnRanks(c), Equality(c),
           NEW l \in ExecutorLists(c),
           DOMAIN Cleared(l) # {}, ~OneUniform(Cleared(l)), NEW x
    PROVE  \A r : Holds(c, r, x) <=> r \in ExecutorSet(Cleared(l))
<1>1. CmpOps(c) = c.cmps /\ c.shape # "orAnd" /\ c.cmps \in Seq(Comparison)
  BY DEF Equality, CmpOps, Condition
<1>2. RankCmps(c) = DOMAIN c.cmps
  BY <1>1 DEF OnRanks, RankCmps
<1>3. DOMAIN l = DOMAIN c.cmps /\ \A i \in DOMAIN l : l[i] \in ExecutorOf(c.cmps[i])
  BY <1>1, <1>2 DEF ExecutorLists
<1>4. Cleared(l) = l
  BY DEF Cleared
<1>5. \A i \in DOMAIN l : l[i] # -1
  BY <1>4 DEF Cleared, OneUniform
<1>6. ASSUME NEW i \in DOMAIN l PROVE c.cmps[i].other = "const" /\ l[i] = c.cmps[i].value
  <2>1. c.cmps[i] \in Comparison /\ c.cmps[i].other # "varying"
    BY <1>1, <1>3 DEF OnRanks
  <2>2. c.cmps[i].other \in {"const", "uniform"}
    BY <2>1 DEF Comparison
  <2> QED
    BY <1>3, <1>5, <2>2 DEF ExecutorOf
<1>7. \A i \in DOMAIN l : c.cmps[i].pred = "eq"
  BY <1>3 DEF Equality
<1>8. ASSUME NEW r PROVE Holds(c, r, x) <=> \E i \in DOMAIN l : CmpHolds(c.cmps[i], r, x)
  <2>1. CASE c.shape = "cmp"
    <3>1. DOMAIN l = {1}
      BY <1>1, <1>3, <2>1 DEF WellShaped
    <3> QED
      BY <2>1, <3>1 DEF Holds
  <2>2. CASE c.shape \in {"or", "orElse"}
    BY <1>3, <2>2 DEF Holds
  <2> QED
    BY <2>1, <2>2 DEF Equality
<1>9. ASSUME NEW r, NEW i \in DOMAIN l PROVE CmpHolds(c.cmps[i], r, x) <=> r = l[i]
  BY <1>6, <1>7 DEF CmpHolds
<1> QED
  BY <1>4, <1>8, <1>9 DEF ExecutorSet

(* One uniform value is left alone in the list, so that there is a single  *)
(* comparison, which one rank at most satisfies.                           *)
LEMMA OneExecutor ==
    ASSUME NEW c \in Condition, WellShaped(c), OnRanks(c), Equality(c),
           NEW l \in ExecutorLists(c), OneUniform(Cleared(l)), NEW x
    PROVE  \A r, s : Holds(c, r, x) /\ Holds(c, s, x) => r = s
<1>1. CmpOps(c) = c.cmps /\ c.shape # "orAnd" /\ c.cmps \in Seq(Comparison)
  BY DEF Equality, CmpOps, Condition
<1>2. RankCmps(c) = DOMAIN c.cmps
  BY <1>1 DEF OnRanks, RankCmps
<1>3. DOMAIN l = DOMAIN c.cmps
  BY <1>1, <1>2 DEF ExecutorLists
<1>4. Cleared(l) = l
  <2>1. DOMAIN <<>> = {}
    OBVIOUS
  <2> QED
    BY <2>1 DEF Cleared, OneUniform
<1>5. PICK k \in DOMAIN l : DOMAIN l = {k}
  <2>1. PICK k \in DOMAIN l : l[k] = -1
    BY <1>4 DEF OneUniform
  <2>2. \A j \in DOMAIN l : l[j] = -1
    BY <1>4 DEF OneUniform
  <2>3. ~ \E i, j \in DOMAIN l : l[i] = -1 /\ i # j
    <3>1. CASE \E i, j \in DOMAIN l : l[i] = -1 /\ i # j
      <4>1. Cleared(l) = <<>>
        BY <3>1 DEF Cleared
      <4> QED
        BY <1>4, <2>1, <4>1
    <3> QED
      BY <3>1
  <2> QED
    BY <2>1, <2>3
<1>6. c.cmps[k].pred = "eq"
  BY <1>3, <1>5 DEF Equality
<1>7. ASSUME NEW r PROVE Holds(c, r, x) <=> CmpHolds(c.cmps[k], r, x)
  <2>1. CASE c.shape = "cmp"
    <3>1. DOMAIN c.cmps = {1}
      BY <1>1, <2>1 DEF WellShaped
    <3>2. k = 1
      BY <1>3, <1>5, <3>1
    <3> QED
      BY <2>1, <3>2 DEF Holds
  <2>2. CASE c.shape \in {"or", "orElse"}
    BY <1>3, <1>5, <2>2 DEF Holds
  <2> QED
    BY <2>1, <2>2 DEF Equality
<1> QED
  BY <1>6, <1>7 DEF CmpHolds

(* Below a single scf.if that tests the rank for equality, the ranks named *)
(* by the label Static are those that execute the operation, those of      *)
(* AllBut the ones that do not, and One in the then region stands for one  *)
(* rank at most: for any number of ranks, any value of the uniform operands*)
(* and any number of comparisons.                                          *)
THEOREM LabelsExactAlways == SpecMV => []LabelsExact
<1>1. MVInv => LabelsExact
  <2> SUFFICES ASSUME MVInv, walk = "done", NEW o \in DOMAIN prog, NEW b \in Dividing(o),
                      DividedByEquality(o, b), NEW x \in Ranks
               PROVE  /\ prog[o].execKind = "Static" =>
                            Executing(o, x) = prog[o].executedBy \intersect Ranks
                      /\ prog[o].execKind = "AllBut" =>
                            Executing(o, x) = Ranks \ prog[o].executedNotBy
                      /\ prog[o].execKind = "One" /\ o \in Nested(b, 1, prog) =>
                            AtMostOne(Executing(o, x))
    BY DEF LabelsExact
  <2>0. Dividing(o) = {b} /\ OnRanks(cond[b]) /\ Equality(cond[b])
    BY DEF DividedByEquality
  <2>1. PICK l \in ExecutorLists(cond[b]), region \in {1, 2} :
          o \in Nested(b, region, prog) /\ prog[o] = Labelled(prog[o], region, Cleared(l))
    BY <2>0 DEF MVInv, InnermostLabels
  <2>2. /\ WellFormed(prog) /\ b \in DOMAIN prog /\ b \in BranchOps(prog)
        /\ cond[b] \in Condition /\ WellShaped(cond[b]) /\ prog[o] \in Operation
    <3>1. WellFormed(prog) /\ at \in 0 .. Len(prog)
      BY DEF MVInv, TypeOKMV
    <3>2. b \in 1 .. at /\ IsBranch(prog, b)
      BY DEF Dividing
    <3>3. b \in DOMAIN prog /\ prog[o] \in Operation
      BY <3>1, <3>2, ProgramType
    <3> QED
      BY <3>1, <3>2, <3>3 DEF BranchOps, MVInv, TypeOKMV
  <2>3. Executing(o, x) = {r \in Ranks : Holds(cond[b], r, x) <=> o \in Nested(b, 1, prog)}
    BY <2>0 DEF Executing
  <2>4. o \in Nested(b, 1, prog) <=> region = 1
    BY <2>1, <2>2, NestedAfter
  <2>5. CASE DOMAIN Cleared(l) = {} \/ OneUniform(Cleared(l))
    <3>1. prog[o].execKind \in {"Dynamic", "One"}
      BY <2>1, <2>2, <2>5 DEF Labelled, Operation
    <3>2. CASE DOMAIN Cleared(l) = {}
      <4>1. prog[o].execKind = "Dynamic"
        BY <2>1, <2>2, <3>2 DEF Labelled, Operation
      <4> QED
        BY <4>1
    <3>3. CASE OneUniform(Cleared(l))
      <4>1. \A r, s : Holds(cond[b], r, x) /\ Holds(cond[b], s, x) => r = s
        BY <2>0, <2>2, <3>3, OneExecutor
      <4>2. o \in Nested(b, 1, prog) => AtMostOne(Executing(o, x))
        BY <2>3, <4>1 DEF AtMostOne
      <4> QED
        BY <3>1, <4>2
    <3> QED
      BY <2>5, <3>2, <3>3
  <2>6. CASE DOMAIN Cleared(l) # {} /\ ~OneUniform(Cleared(l))
    <3>1. \A r : Holds(cond[b], r, x) <=> r \in ExecutorSet(Cleared(l))
      BY <2>0, <2>2, <2>6, NamedExecutors
    <3>2. CASE region = 1
      <4>1. prog[o].execKind = "Static" /\ prog[o].executedBy = ExecutorSet(Cleared(l))
        BY <2>1, <2>2, <2>6, <3>2 DEF Labelled, Operation
      <4> QED
        BY <2>3, <2>4, <3>1, <3>2, <4>1 DEF AtMostOne
    <3>3. CASE region = 2
      <4>1. prog[o].execKind = "AllBut" /\ prog[o].executedNotBy = ExecutorSet(Cleared(l))
        <5>1. region # 1
          BY <3>3
        <5>2. prog[o] = [prog[o] EXCEPT !.execKind = "AllBut", !.executedNotBy = ExecutorSet(Cleared(l))]
          BY <2>1, <2>6, <5>1 DEF Labelled
        <5> QED
          BY ONLY <2>2, <5>2 DEF Operation
      <4> QED
        BY <2>3, <2>4, <3>1, <3>3, <4>1
    <3> QED
      BY <3>2, <3>3
  <2> QED
    BY <2>5, <2>6
<1> QED
  BY <1>1, MVInvAlways, PTL

=============================================================================
