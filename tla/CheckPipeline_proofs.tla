------------------------ MODULE CheckPipeline_proofs ------------------------
(***************************************************************************)
(* Proofs about the two passes in sequence: what multi-value-analysis      *)
(* leaves behind is what check-collectives relies on.                      *)
(***************************************************************************)
EXTENDS CheckPipeline, CheckCollectives_proofs, MultiValueAnalysis_proofs

(* What isMultiValued is, as far as the second walk has come.              *)
Marked ==
    /\ walk = "done" => at = Len(prog)
    /\ \A b \in BranchOps(prog) : b <= at => prog[b].mv = IsMV(b)

(* The inductive invariant: those of the two passes, the attributes that   *)
(* one hands to the other, and their order.                                *)
PipeInv ==
    /\ TypeInv
    /\ MVInv
    /\ Marked
    /\ walk # "done" => pc = "start"

-----------------------------------------------------------------------------
(* The first pass.                                                         *)

(* The analysis keeps the operations, and marks each conditional and loop  *)
(* that it passes.                                                         *)
LEMMA NextMVMarks ==
    ASSUME MVInv, Marked, NextMV
    PROVE  /\ Marked'
           /\ DOMAIN prog' = DOMAIN prog
           /\ walk \in {"label", "visit"}
<1>1. /\ WellFormed(prog) /\ Len(prog) \in Nat /\ DOMAIN prog = 1 .. Len(prog)
      /\ at \in 0 .. Len(prog) /\ cond \in [BranchOps(prog) -> Condition]
      /\ \A o \in DOMAIN prog : prog[o] \in Operation
  BY ProgramType DEF MVInv, TypeOKMV
<1>2. CASE LabelAll
  <2>1. at' = 0 /\ walk = "label" /\ walk' = "visit" /\ DOMAIN prog' = DOMAIN prog
    BY <1>2 DEF LabelAll, MVInv
  <2>2. \A b \in DOMAIN prog' : ~(b <= at')
    BY <1>1, <2>1
  <2> QED
    BY <2>1, <2>2 DEF Marked, BranchOps
<1>3. ASSUME NEW o \in DOMAIN prog, Visiting(o), at' = o, UNCHANGED <<cond, walk>>,
             DOMAIN prog' = DOMAIN prog,
             \A b \in DOMAIN prog : b < o => prog'[b] = prog[b],
             IsBranch(prog', o) => prog'[o].mv = IsMV(o)
      PROVE  Marked'
  <2>1. o = at + 1 /\ walk' = "visit"
    BY <1>3 DEF Visiting
  <2>2. ASSUME NEW b \in BranchOps(prog'), b <= o PROVE prog'[b].mv = IsMV(b)
    <3>1. b \in DOMAIN prog /\ IsBranch(prog', b)
      BY <1>3 DEF BranchOps
    <3>2. CASE b = o
      BY <1>3, <3>1, <3>2
    <3>3. CASE b # o
      <4>1. b < o /\ b <= at /\ prog'[b] = prog[b]
        BY <1>1, <1>3, <2>1, <2>2, <3>1, <3>3
      <4>2. b \in BranchOps(prog)
        BY <3>1, <4>1 DEF BranchOps, IsBranch
      <4> QED
        BY <4>1, <4>2 DEF Marked
    <3> QED
      BY <3>2, <3>3
  <2>3. \A b : IsMV(b)' = IsMV(b)
    BY <1>3 DEF IsMV
  <2> QED
    BY <1>3, <2>1, <2>2, <2>3 DEF Marked
<1>4. ASSUME NEW o \in DOMAIN prog, VisitOther(o)
      PROVE  Marked' /\ DOMAIN prog' = DOMAIN prog /\ walk = "visit"
  BY <1>3, <1>4 DEF VisitOther, Visiting
<1>5. ASSUME NEW o \in DOMAIN prog, VisitUnlabelled(o)
      PROVE  Marked' /\ DOMAIN prog' = DOMAIN prog /\ walk = "visit"
  <2>1. /\ prog' = [prog EXCEPT ![o].mv = IsMV(o)] /\ Visiting(o) /\ at' = o
        /\ UNCHANGED <<cond, walk>> /\ walk = "visit"
    BY <1>5 DEF VisitUnlabelled, Visiting
  <2>2. prog[o] \in Operation
    BY <1>1
  <2>3. /\ DOMAIN prog' = DOMAIN prog
        /\ \A b \in DOMAIN prog : b < o => prog'[b] = prog[b]
        /\ prog'[o] = [prog[o] EXCEPT !.mv = IsMV(o)]
    BY <1>1, <2>1
  <2>4. prog'[o].mv = IsMV(o)
    BY <2>2, <2>3 DEF Operation
  <2> QED
    BY <1>3, <2>1, <2>3, <2>4
<1>6. ASSUME NEW o \in DOMAIN prog, NEW e, VisitIf(o, e)
      PROVE  Marked' /\ DOMAIN prog' = DOMAIN prog /\ walk = "visit"
  <2>1. /\ prog' = Relabelled(prog, o, e) /\ Visiting(o) /\ at' = o /\ IsMV(o)
        /\ UNCHANGED <<cond, walk>> /\ walk = "visit"
    BY <1>6 DEF VisitIf, AtLabelledIf, Visiting
  <2>2. prog[o] \in Operation
    BY <1>1
  <2>3. ASSUME NEW b \in DOMAIN prog, b < o \/ b = o
        PROVE  b \notin Nested(o, 1, prog) /\ b \notin Nested(o, 2, prog)
    BY <1>1, <2>3, NestedAfter
  <2>4. /\ DOMAIN prog' = DOMAIN prog
        /\ \A b \in DOMAIN prog : b < o => prog'[b] = prog[b]
        /\ prog'[o] = [prog[o] EXCEPT !.mv = TRUE]
    BY <1>1, <2>1, <2>3 DEF Relabelled
  <2>5. prog'[o].mv = IsMV(o)
    BY <2>1, <2>2, <2>4 DEF Operation
  <2> QED
    BY <1>3, <2>1, <2>4, <2>5
<1>7. ASSUME UNCHANGED <<prog, cond, at>>, walk = "visit", walk' = "done" => at = Len(prog)
      PROVE  Marked' /\ DOMAIN prog' = DOMAIN prog /\ walk = "visit"
  BY <1>7 DEF Marked, IsMV
<1>8. ASSUME NEW o \in DOMAIN prog, NEW e, VisitUnreachable(o) \/ AssertInIf(o, e)
      PROVE  Marked' /\ DOMAIN prog' = DOMAIN prog /\ walk = "visit"
  BY <1>7, <1>8 DEF VisitUnreachable, AssertInIf, AtLabelledIf, Visiting
<1>9. CASE EndWalk
  BY <1>7, <1>9 DEF EndWalk
<1> QED
  BY <1>2, <1>4, <1>5, <1>6, <1>8, <1>9 DEF NextMV

-----------------------------------------------------------------------------
(* The second pass.                                                        *)

(* unifyCommWorlds leaves the attributes of the analysis alone.            *)
LEMMA UnifyKeepsLabels ==
    ASSUME NEW p, WellFormed(p), NEW o \in DOMAIN p, NEW q, q = UnifyCommWorlds(p)
    PROVE  /\ q[o].kind = p[o].kind /\ q[o].path = p[o].path
           /\ q[o].mv = p[o].mv /\ q[o].execKind = p[o].execKind
           /\ q[o].executedBy = p[o].executedBy /\ q[o].executedNotBy = p[o].executedNotBy
<1>1. p[o] \in Operation
  BY ProgramDomain
<1>2. q[o] = p[o] \/ \E c : q[o] = [p[o] EXCEPT !.comm = c]
  BY DEF UnifyCommWorlds
<1> QED
  BY <1>1, <1>2 DEF Operation

(* Whether a label is that of a conditional depends on its attributes only.*)
LEMMA LabelOfAttributes ==
    ASSUME NEW op \in Operation, NEW region, NEW e, op = Labelled(op, region, e),
           NEW m \in Operation, m.execKind = op.execKind,
           m.executedBy = op.executedBy, m.executedNotBy = op.executedNotBy
    PROVE  m = Labelled(m, region, e)
<1> USE DEF Operation
<1>1. CASE DOMAIN e = {}
  BY <1>1 DEF Labelled
<1>2. CASE DOMAIN e # {} /\ OneUniform(e)
  BY <1>2 DEF Labelled
<1>3. CASE DOMAIN e # {} /\ ~OneUniform(e) /\ region = 1
  <2>1. op.execKind = "Static" /\ op.executedBy = ExecutorSet(e)
    BY <1>3 DEF Labelled
  <2>2. m.execKind = "Static" /\ m.executedBy = ExecutorSet(e)
    BY <2>1
  <2>3. m = [m EXCEPT !.execKind = "Static", !.executedBy = ExecutorSet(e)]
    BY <2>2
  <2> QED
    BY <1>3, <2>3 DEF Labelled
<1>4. CASE DOMAIN e # {} /\ ~OneUniform(e) /\ region # 1
  <2>1. op.execKind = "AllBut" /\ op.executedNotBy = ExecutorSet(e)
    BY <1>4 DEF Labelled
  <2>2. m.execKind = "AllBut" /\ m.executedNotBy = ExecutorSet(e)
    BY <2>1
  <2>3. m = [m EXCEPT !.execKind = "AllBut", !.executedNotBy = ExecutorSet(e)]
    BY <2>2
  <2> QED
    BY <1>4, <2>3 DEF Labelled
<1> QED
  BY <1>1, <1>2, <1>3, <1>4

(* unifyCommWorlds changes nothing that the labels speak of.               *)
LEMMA StartKeepsLabels ==
    ASSUME MVInv, Marked, walk = "done", Start, UNCHANGED <<cond, at, walk>>
    PROVE  MVInv' /\ Marked'
<1>1. /\ WellFormed(prog) /\ Len(prog) \in Nat /\ DOMAIN prog = 1 .. Len(prog)
      /\ at \in 0 .. Len(prog) /\ cond \in [BranchOps(prog) -> Condition]
      /\ \A o \in DOMAIN prog : prog[o] \in Operation
  BY ProgramType DEF MVInv, TypeOKMV
<1>2. prog' = UnifyCommWorlds(prog) /\ cond' = cond /\ at' = at /\ walk' = walk
  BY DEF Start
<1>3. /\ WellFormed(prog') /\ DOMAIN prog' = DOMAIN prog /\ Len(prog') = Len(prog)
      /\ \A o \in DOMAIN prog : prog'[o] \in Operation
  BY <1>1, <1>2, UnifyWellFormed, UnifyKeeps, ProgramType
<1>4. \A o \in DOMAIN prog :
        /\ prog'[o].kind = prog[o].kind /\ prog'[o].path = prog[o].path
        /\ prog'[o].mv = prog[o].mv /\ prog'[o].execKind = prog[o].execKind
        /\ prog'[o].executedBy = prog[o].executedBy
        /\ prog'[o].executedNotBy = prog[o].executedNotBy
  BY <1>1, <1>2, UnifyKeepsLabels
<1>5. /\ \A o \in DOMAIN prog : IsBranch(prog', o) <=> IsBranch(prog, o)
      /\ BranchOps(prog') = BranchOps(prog)
  BY <1>3, <1>4 DEF IsBranch, BranchOps
<1>6. \A b \in DOMAIN prog : \A r \in {1, 2} : Nested(b, r, prog') = Nested(b, r, prog)
  BY <1>3, <1>4 DEF Nested, Body
<1>7. \A o : Dividing(o)' = Dividing(o)
  <2>1. 1 .. at \subseteq DOMAIN prog
    BY <1>1
  <2> QED
    BY <1>2, <1>4, <1>5, <1>6, <2>1 DEF Dividing, IsMV
<1>8. TypeOKMV'
  BY <1>1, <1>2, <1>3, <1>5 DEF MVInv, TypeOKMV
<1>9. (\A o \in BranchOps(prog) : WellShaped(cond[o]))' /\ (walk = "label" => at = 0)'
  BY <1>2, <1>5 DEF MVInv
<1>10. AllUndivided'
  BY <1>2, <1>3, <1>4, <1>7 DEF MVInv, AllUndivided
<1>11. InnermostLabels'
  <2> SUFFICES ASSUME NEW o \in DOMAIN prog, Dividing(o) # {}
               PROVE  \E b \in Dividing(o) :
                        /\ \A a \in Dividing(o) : a <= b
                        /\ \E l \in ExecutorLists(cond[b]) : \E region \in {1, 2} :
                             /\ o \in Nested(b, region, prog')
                             /\ prog'[o] = Labelled(prog'[o], region, Cleared(l))
    BY <1>2, <1>3, <1>7 DEF InnermostLabels
  <2>1. PICK b \in Dividing(o) :
          /\ \A a \in Dividing(o) : a <= b
          /\ \E l \in ExecutorLists(cond[b]) : \E region \in {1, 2} :
               /\ o \in Nested(b, region, prog)
               /\ prog[o] = Labelled(prog[o], region, Cleared(l))
    BY DEF MVInv, InnermostLabels
  <2>2. PICK l \in ExecutorLists(cond[b]), region \in {1, 2} :
          o \in Nested(b, region, prog) /\ prog[o] = Labelled(prog[o], region, Cleared(l))
    BY <2>1
  <2>3. b \in DOMAIN prog
    BY <1>1 DEF Dividing
  <2>4. o \in Nested(b, region, prog')
    BY <1>6, <2>2, <2>3
  <2>5. prog'[o] = Labelled(prog'[o], region, Cleared(l))
    <3> DEFINE m == prog'[o]
    <3>1. /\ m \in Operation /\ m.execKind = prog[o].execKind
          /\ m.executedBy = prog[o].executedBy /\ m.executedNotBy = prog[o].executedNotBy
      BY <1>3, <1>4
    <3> HIDE DEF m
    <3>2. m = Labelled(m, region, Cleared(l))
      BY <1>1, <2>2, <3>1, LabelOfAttributes
    <3> QED
      BY <3>2 DEF m
  <2> QED
    BY <2>1, <2>2, <2>4, <2>5
<1>12. Marked'
  <2> SUFFICES ASSUME NEW b \in BranchOps(prog), b <= at PROVE prog'[b].mv = IsMV(b)
    BY <1>2, <1>3, <1>5 DEF Marked, IsMV
  <2> QED
    BY <1>4 DEF Marked, BranchOps
<1> QED
  BY <1>8, <1>9, <1>10, <1>11, <1>12 DEF MVInv

-----------------------------------------------------------------------------
(* The two in sequence.                                                    *)

LEMMA InitPipeInv == InitPipe => PipeInv
<1> SUFFICES ASSUME InitPipe PROVE PipeInv
  OBVIOUS
<1>1. Init /\ InitMV /\ pc = "start" /\ at = 0 /\ walk = "label" /\ WellFormed(prog)
  BY DEF InitPipe, Init, InitMV, InitPass, InitWalk
<1>2. \A b \in BranchOps(prog) : ~(b <= at)
  BY <1>1, ProgramType DEF BranchOps
<1> QED
  BY <1>1, <1>2, InitTypeInv, InitMVInv DEF PipeInv, Marked

LEMMA NextPipeInv == PipeInv /\ [NextPipe]_pipeVars => PipeInv'
<1> SUFFICES ASSUME PipeInv, [NextPipe]_pipeVars PROVE PipeInv'
  OBVIOUS
<1>1. TypeInv /\ MVInv /\ Marked
  BY DEF PipeInv
<1>2. CASE /\ NextMV
           /\ UNCHANGED <<hasMain, numExec, pc, comms, comm, walkVars, cell, pdfVars, errors>>
  <2>1. Marked' /\ DOMAIN prog' = DOMAIN prog /\ pc = "start"
    BY <1>1, <1>2, NextMVMarks DEF PipeInv
  <2>2. MVInv'
    BY <1>1, <1>2, NextMVInv
  <2>3. WellFormed(prog')
    BY <2>2 DEF MVInv, TypeOKMV
  <2>4. TypeInv'
    BY <1>1, <1>2, <2>1, <2>3
       DEF TypeInv, TypeOK, CellInRange, NothingYet, SlotsInBounds, walkVars, pdfVars
  <2> QED
    BY <1>2, <2>1, <2>2, <2>4 DEF PipeInv
<1>3. CASE walk = "done" /\ Next /\ UNCHANGED <<cond, at, walk>>
  <2>1. TypeInv'
    BY <1>1, <1>3, NextTypeInv
  <2>2. CASE Start
    BY <1>1, <1>3, <2>1, <2>2, StartKeepsLabels DEF PipeInv
  <2>3. CASE UNCHANGED mvVars
    <3>1. MVInv'
      BY <1>1, <2>3, NextMVInv
    <3>2. Marked'
      BY <1>1, <2>3, SMTT(30) DEF Marked, mvVars, IsMV
    <3> QED
      BY <1>3, <2>1, <3>1, <3>2 DEF PipeInv
  <2>4. prog' = prog \/ Start
    BY <1>3 DEF Next, NoMain, NextComm, Report, Walk, Collect, EnterIf, EnterFor, PassOver, Return,
           SkipContainer, NextClass, EndCheck, StartPDFP, FuseMember, EndFuse, ScanList, EndPDFP
  <2> QED
    BY <1>3, <2>2, <2>3, <2>4 DEF mvVars
<1>4. CASE UNCHANGED pipeVars
  <2>1. UNCHANGED vars /\ UNCHANGED mvVars
    BY <1>4 DEF pipeVars, vars, mvVars
  <2>2. TypeInv' /\ MVInv'
    BY <1>1, <2>1, NextTypeInv, NextMVInv
  <2> QED
    BY <1>4, <2>1, <2>2 DEF PipeInv, Marked, mvVars, IsMV, pipeVars, vars
<1> QED
  BY <1>2, <1>3, <1>4 DEF NextPipe

LEMMA PipeInvAlways == SpecPipe => []PipeInv
BY InitPipeInv, NextPipeInv, PTL DEF SpecPipe

(* On every program that the analysis gets through, whatever conditions it *)
(* has: getPDFP and the scan never meet a conditional without the attribute*)
(* isMultiValued, and it is what the uniformity analysis said.             *)
THEOREM MVnessDefinedAlways == SpecPipe => []MVnessDefined
<1>1. PipeInv => MVnessDefined
  <2> SUFFICES ASSUME PipeInv, pc # "start", NEW s \in DOMAIN order, NEW k \in Classes,
                      NEW i \in DOMAIN order[s][k], NEW j \in DOMAIN prog[order[s][k][i]].path
               PROVE  LET b == prog[order[s][k][i]].path[j][1] IN
                        b <= at /\ prog[b].mv = IsMV(b)
    BY DEF MVnessDefined
  <2>1. walk = "done" /\ TypeOK /\ at = Len(prog) /\ WellFormed(prog)
    BY DEF PipeInv, TypeInv, TypeOK, Marked
  <2>2. PICK o \in DOMAIN prog : o = order[s][k][i]
    BY <2>1 DEF TypeOK
  <2> DEFINE b == prog[o].path[j][1]
  <2>3. /\ Len(prog) \in Nat /\ DOMAIN prog = 1 .. Len(prog)
        /\ prog[o].path \in Seq((Nat \ {0}) \X {1, 2}) /\ j \in 1 .. Len(prog[o].path)
    BY <2>1, <2>2, ProgramType
  <2>4. b \in 1 .. (o - 1) /\ IsBranch(prog, b)
    BY <2>1, <2>2, <2>3 DEF WellFormed, PathsNested, OpsOf
  <2> HIDE DEF b
  <2>5. b \in DOMAIN prog /\ b <= at
    BY <2>1, <2>3, <2>4
  <2>6. b \in BranchOps(prog)
    BY <2>4, <2>5 DEF BranchOps
  <2>7. b <= at /\ prog[b].mv = IsMV(b)
    BY <2>5, <2>6 DEF PipeInv, Marked
  <2> QED
    BY <2>2, <2>7 DEF b
<1> QED
  BY <1>1, PipeInvAlways, PTL

(* The ranks that a label Static names execute the operation, when only    *)
(* one conditional decides on it and getExecutor knows what the rank is    *)
(* compared with.                                                          *)
LEMMA NamedRanksHold ==
    ASSUME NEW c \in Condition, WellShaped(c), Equality(c), KnownExecutors(c),
           NEW l \in ExecutorLists(c),
           DOMAIN Cleared(l) # {}, ~OneUniform(Cleared(l)),
           NEW r \in ExecutorSet(Cleared(l)), NEW x
    PROVE  Holds(c, r, x)
<1>1. CmpOps(c) = c.cmps /\ c.cmps \in Seq(Comparison)
  BY DEF Equality, CmpOps, Condition
<1>2. DOMAIN l = RankCmps(c) /\ \A i \in DOMAIN l : l[i] \in ExecutorOf(c.cmps[i])
  BY <1>1 DEF ExecutorLists
<1>3. Cleared(l) = l
  BY DEF Cleared
<1>4. PICK i \in DOMAIN l : r = l[i]
  BY <1>3 DEF ExecutorSet
<1>5. l[i] # -1
  BY <1>3 DEF Cleared, OneUniform
<1>6. i \in DOMAIN c.cmps /\ c.cmps[i].ofRank /\ c.cmps[i] \in Comparison
  BY <1>1, <1>2 DEF RankCmps
<1>7. c.cmps[i].other = "const" /\ l[i] = c.cmps[i].value
  <2>1. c.cmps[i].other \in {"const", "uniform"}
    BY <1>6 DEF KnownExecutors, Comparison
  <2> QED
    BY <1>2, <1>5, <2>1 DEF ExecutorOf
<1>8. CmpHolds(c.cmps[i], r, x)
  BY <1>4, <1>6, <1>7 DEF Equality, CmpHolds
<1>9. CASE c.shape = "cmp"
  <2>1. i = 1
    BY <1>1, <1>6, <1>9 DEF WellShaped
  <2> QED
    BY <1>8, <1>9, <2>1 DEF Holds
<1>10. CASE c.shape \in {"or", "orElse"}
  BY <1>6, <1>8, <1>10 DEF Holds
<1> QED
  BY <1>9, <1>10 DEF Equality

(* An operation labelled Static is in the then region of a conditional on  *)
(* the ranks of the label, which are the executors found there.            *)
LEMMA StaticLabel ==
    ASSUME MVInv, walk = "done", NEW o \in DOMAIN prog, prog[o].execKind = "Static"
    PROVE  \E b \in Dividing(o) : \E l \in ExecutorLists(cond[b]) :
             /\ b \in BranchOps(prog) /\ cond[b] \in Condition /\ WellShaped(cond[b])
             /\ o \in Nested(b, 1, prog)
             /\ DOMAIN Cleared(l) # {} /\ ~OneUniform(Cleared(l))
             /\ prog[o].executedBy = ExecutorSet(Cleared(l))
<1>1. /\ WellFormed(prog) /\ DOMAIN prog = 1 .. Len(prog) /\ Len(prog) \in Nat
      /\ prog[o] \in Operation /\ at \in 0 .. Len(prog)
      /\ cond \in [BranchOps(prog) -> Condition]
  BY ProgramType DEF MVInv, TypeOKMV
<1>2. Dividing(o) # {}
  BY DEF MVInv, AllUndivided
<1>3. PICK b \in Dividing(o) : \E l \in ExecutorLists(cond[b]) : \E region \in {1, 2} :
        o \in Nested(b, region, prog) /\ prog[o] = Labelled(prog[o], region, Cleared(l))
  BY <1>2 DEF MVInv, InnermostLabels
<1>4. PICK l \in ExecutorLists(cond[b]), region \in {1, 2} :
        o \in Nested(b, region, prog) /\ prog[o] = Labelled(prog[o], region, Cleared(l))
  BY <1>3
<1>5. b \in BranchOps(prog) /\ cond[b] \in Condition /\ WellShaped(cond[b])
  <2>1. b \in DOMAIN prog /\ IsBranch(prog, b)
    BY <1>1 DEF Dividing
  <2>2. b \in BranchOps(prog)
    BY <2>1 DEF BranchOps
  <2> QED
    BY <1>1, <2>2 DEF MVInv
<1>6. DOMAIN Cleared(l) # {} /\ ~OneUniform(Cleared(l)) /\ region = 1
  <2> DEFINE e == Cleared(l)
  <2>1. prog[o] = Labelled(prog[o], region, e)
    BY <1>4
  <2> HIDE DEF e
  <2>2. CASE DOMAIN e = {}
    <3>1. prog[o].execKind = "Dynamic"
      BY <1>1, <2>1, <2>2 DEF Labelled, Operation
    <3> QED
      BY <3>1
  <2>3. CASE DOMAIN e # {} /\ OneUniform(e)
    <3>1. prog[o].execKind = "One"
      BY <1>1, <2>1, <2>3 DEF Labelled, Operation
    <3> QED
      BY <3>1
  <2>4. CASE DOMAIN e # {} /\ ~OneUniform(e) /\ region # 1
    <3>1. prog[o] = [prog[o] EXCEPT !.execKind = "AllBut", !.executedNotBy = ExecutorSet(e)]
      BY <2>1, <2>4 DEF Labelled
    <3>2. prog[o].execKind = "AllBut"
      BY ONLY <1>1, <3>1 DEF Operation
    <3> QED
      BY <3>2
  <2> QED
    BY <2>2, <2>3, <2>4 DEF e
<1>7. prog[o].executedBy = ExecutorSet(Cleared(l))
  <2> DEFINE e == Cleared(l)
  <2>1. prog[o] = [prog[o] EXCEPT !.execKind = "Static", !.executedBy = ExecutorSet(e)]
    BY <1>4, <1>6 DEF Labelled
  <2> HIDE DEF e
  <2>2. prog[o].executedBy = ExecutorSet(e)
    BY ONLY <1>1, <2>1 DEF Operation
  <2> QED
    BY <2>2 DEF e
<1> QED
  BY <1>4, <1>5, <1>6, <1>7

(* On programs whose conditionals are not nested and test the rank for     *)
(* equality only: a container that the number of ranks keeps out of the    *)
(* search for causes has a member for every rank, which that rank executes.*)
THEOREM CoveredRanksCallAlways == SpecPipe => []CoveredRanksCallExact
<1>1. PipeInv => CoveredRanksCallExact
  <2> SUFFICES ASSUME PipeInv, LabelsAreExact,
                      pc = "check", cell.class <= NumClasses, cell.slot <= Len(order),
                      CoversAllRanks(Members, prog), NEW r \in 0 .. (NumRanks - 1)
               PROVE  \E m \in DOMAIN Members : r \in Executing(Members[m], 0)
    BY DEF CoveredRanksCallExact, CoveredRanksCall
  <2>1. walk = "done" /\ TypeOK /\ MVInv
    BY DEF PipeInv, TypeInv
  <2>2. Members \in Seq(DOMAIN prog)
    BY <2>1, MembersType
  <2>3. r \in ExecutedStatically(Members, prog)
    BY DEF CoversAllRanks
  <2>4. PICK m \in DOMAIN Members : prog[Members[m]].execKind = "Static"
                                    /\ r \in prog[Members[m]].executedBy
    BY <2>3 DEF ExecutedStatically
  <2>5. PICK o \in DOMAIN prog : o = Members[m]
    BY <2>2, <2>4
  <2>6. PICK b \in Dividing(o) : \E l \in ExecutorLists(cond[b]) :
             /\ b \in BranchOps(prog) /\ cond[b] \in Condition /\ WellShaped(cond[b])
             /\ o \in Nested(b, 1, prog)
             /\ DOMAIN Cleared(l) # {} /\ ~OneUniform(Cleared(l))
             /\ prog[o].executedBy = ExecutorSet(Cleared(l))
    BY <2>1, <2>4, <2>5, StaticLabel
  <2>7. Equality(cond[b]) /\ KnownExecutors(cond[b])
    BY DEF LabelsAreExact
  <2>8. Holds(cond[b], r, 0)
    BY <2>4, <2>5, <2>6, <2>7, NamedRanksHold
  <2>9. Dividing(o) = {b}
    <3>1. IsFiniteSet(Dividing(o)) /\ Cardinality(Dividing(o)) <= 1
      <4>1. at \in Nat /\ Dividing(o) \in SUBSET (1 .. at)
        BY <2>1, ProgramType DEF MVInv, TypeOKMV, Dividing
      <4>2. IsFiniteSet(Dividing(o))
        BY <4>1, FS_Interval, FS_Subset
      <4> QED
        BY <4>2 DEF LabelsAreExact
    <3>2. Cardinality(Dividing(o)) = 1
      BY <3>1, FS_EmptySet, FS_CardinalityType
    <3> QED
      BY <3>1, <3>2, FS_Singleton
  <2>10. r \in Ranks
    BY PipelineAssumption
  <2> QED
    BY <2>4, <2>5, <2>6, <2>8, <2>9, <2>10 DEF Executing
<1> QED
  BY <1>1, PipeInvAlways, PTL

=============================================================================
