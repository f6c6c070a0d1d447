------------------------- MODULE MultiValueAnalysis -------------------------
(***************************************************************************)
(* The pass multi-value-analysis (lib/spmd/passes/MultiValueAnalysis.cpp)  *)
(* from the point where the uniformity analysis has run.                   *)
(*                                                                         *)
(* One walk labels every operation as executed by all ranks.  A second one *)
(* visits the operations in pre-order; at a conditional or a loop it sets  *)
(* isMultiValued, and at a multi-valued scf.if it labels everything nested *)
(* in it by the ranks that its comparisons name, over what an outer scf.if *)
(* has put there.                                                          *)
(***************************************************************************)
EXTENDS MainProgram

CONSTANTS
    Builds,     \* "debug" (with assertions, as completePipeFile.sh uses), "release" or both
    Stale,      \* what the uninitialized local of getExecutors may hold
    Ranks       \* the ranks a program may be run with, for the properties

ASSUME AnalysisAssumption ==
    /\ Builds \subseteq {"debug", "release"}
    /\ Stale \subseteq Int
    /\ Ranks \subseteq Nat

VARIABLES
    cond,       \* cond[o]: what decides the conditional or loop o
    at,         \* operations the second walk has visited
    walk        \* "label", "visit", "done", or how the walk broke off

mvVars == <<prog, cond, at, walk>>

-----------------------------------------------------------------------------
(***************************************************************************)
(* A comparison arith.cmpi, as far as the pass looks at it.                *)
(*   ofRank   one operand is the result of spmd.getRankInComm              *)
(*   pred     the predicate, with the rank on the left                     *)
(*   other    the other operand: a constant, or not one and uniform or not *)
(*   value    the constant                                                 *)
(***************************************************************************)
Predicates == {"eq", "ne", "lt", "gt"}

Comparison ==
    [ofRank : BOOLEAN, pred : Predicates,
     other  : {"const", "uniform", "varying"}, value : Int]

(***************************************************************************)
(* The condition of an scf.if or scf.while, or the operands of an scf.for. *)
(*   uni     what the uniformity analysis has found of it                  *)
(*   shape   how it is made of comparisons, or "opaque":                   *)
(*     "cmp"      c1                                                       *)
(*     "or"       arith.ori of c1, c2, ...                                 *)
(*     "orAnd"    arith.ori of (arith.andi of c1, c2) and c3               *)
(*     "and"      arith.andi of c1, c2                                     *)
(*     "andThen"  scf.if c1 yielding c2, else the constant false           *)
(*     "orElse"   scf.if c1 yielding the constant true, else c2            *)
(***************************************************************************)
Shapes == {"cmp", "or", "orAnd", "and", "andThen", "orElse", "opaque"}

Condition ==
    [uni : {"Uniform", "NonUniform", "Unknown"}, shape : Shapes, cmps : Seq(Comparison)]

WellShaped(c) ==
    /\ c.shape = "cmp"   => Len(c.cmps) = 1
    /\ c.shape = "orAnd" => Len(c.cmps) = 3

BranchOps(p) == {o \in DOMAIN p : IsBranch(p, o)}

(***************************************************************************)
(* Multi-valued: the uniformity is NonUniform.  Unknown is not.            *)
(***************************************************************************)
IsMV(o) == cond[o].uni = "NonUniform"

(***************************************************************************)
(* getCmpOps: the comparisons found, with one that is "not equal" left out *)
(* of an arith.andi below an arith.ori.  llvm_unreachable for an scf.while *)
(* and for any other shape.                                                *)
(***************************************************************************)
DropNE(c1, c2) == IF c1.pred = "ne" THEN c2 ELSE c1

Supported(o) ==
    /\ prog[o].kind = "if"
    /\ LET c == cond[o] IN
         \/ c.shape \in {"cmp", "or", "andThen", "orElse"}
         \/ c.shape = "orAnd" /\ (c.cmps[1].pred = "ne" \/ c.cmps[2].pred = "ne")

CmpOps(c) ==
    IF c.shape = "orAnd" THEN <<DropNE(c.cmps[1], c.cmps[2]), c.cmps[3]>> ELSE c.cmps

(***************************************************************************)
(* getExecutor and getExecutors: the constant a rank is compared with, -1  *)
(* for a uniform value; for any other value the local is pushed although   *)
(* nothing was stored into it.  A -1 among several empties the list, so    *)
(* that one in a cleared list is alone.  A list is a function from the     *)
(* positions of the comparisons on the rank.                               *)
(***************************************************************************)
ExecutorOf(cmp) ==
    CASE cmp.other = "const"   -> {cmp.value}
      [] cmp.other = "uniform" -> {-1}
      [] cmp.other = "varying" -> Stale

RankCmps(c) == {i \in DOMAIN CmpOps(c) : CmpOps(c)[i].ofRank}

ExecutorLists(c) ==
    {e \in [RankCmps(c) -> UNION {ExecutorOf(CmpOps(c)[i]) : i \in RankCmps(c)}] :
        \A i \in RankCmps(c) : e[i] \in ExecutorOf(CmpOps(c)[i])}

Cleared(e) == IF \E i, j \in DOMAIN e : e[i] = -1 /\ i # j THEN <<>> ELSE e

OneUniform(e) == DOMAIN e # {} /\ \A i \in DOMAIN e : e[i] = -1

-----------------------------------------------------------------------------
(***************************************************************************)
(* The labels for a region of a multi-valued scf.if whose executors are e. *)
(* reversedCase never becomes true: the static isFirstExec is false.       *)
(* AllButOne is written as "One".                                          *)
(***************************************************************************)
FirstExecutor(e) ==             \* variant: only the first comparison counts
    {e[i] : i \in {j \in DOMAIN e : \A k \in DOMAIN e : j <= k}}

ExecutorSet(e) == {e[i] : i \in DOMAIN e}

LabelledAllButOne(op, region, e) ==     \* variant: the kind AllButOne is written
    IF DOMAIN e = {} THEN [op EXCEPT !.execKind = "Dynamic"]
    ELSE IF OneUniform(e) THEN [op EXCEPT !.execKind = IF region = 1 THEN "One" ELSE "AllButOne"]
    ELSE IF region = 1 THEN [op EXCEPT !.execKind = "Static", !.executedBy = ExecutorSet(e)]
    ELSE [op EXCEPT !.execKind = "AllBut", !.executedNotBy = ExecutorSet(e)]

Labelled(op, region, e) ==
    IF DOMAIN e = {} THEN [op EXCEPT !.execKind = "Dynamic"]
    ELSE IF OneUniform(e) THEN [op EXCEPT !.execKind = "One"]
    ELSE IF region = 1 THEN [op EXCEPT !.execKind = "Static", !.executedBy = ExecutorSet(e)]
    ELSE [op EXCEPT !.execKind = "AllBut", !.executedNotBy = ExecutorSet(e)]

Around(o, region, p) == {j \in DOMAIN p : Encloses(p[o].path, p[j].path)}    \* variant: the whole region around o

Nested(o, region, p) == {j \in DOMAIN p : Encloses(Body(o, region, p), p[j].path)}

RelabelledThen(p, o, e) ==          \* variant: the else region is forgotten
    [j \in DOMAIN p |->
        IF j \in Nested(o, 1, p) THEN Labelled(p[j], 1, e)
        ELSE IF j = o THEN [p[j] EXCEPT !.mv = TRUE]
        ELSE p[j]]

RelabelledOuter(p, o, e) ==         \* variant: an outer conditional's label stays
    [j \in DOMAIN p |->
        IF p[j].execKind # "All" THEN [p[j] EXCEPT !.mv = @ \/ j = o]
        ELSE IF j \in Nested(o, 1, p) THEN Labelled(p[j], 1, e)
        ELSE IF j \in Nested(o, 2, p) THEN Labelled(p[j], 2, e)
        ELSE IF j = o THEN [p[j] EXCEPT !.mv = TRUE]
        ELSE p[j]]

RelabelledUnmarked(p, o, e) ==      \* variant: setMV is forgotten
    [j \in DOMAIN p |->
        IF j \in Nested(o, 1, p) THEN Labelled(p[j], 1, e)
        ELSE IF j \in Nested(o, 2, p) THEN Labelled(p[j], 2, e)
        ELSE p[j]]

Relabelled(p, o, e) ==
    [j \in DOMAIN p |->
        IF j \in Nested(o, 1, p) THEN Labelled(p[j], 1, e)
        ELSE IF j \in Nested(o, 2, p) THEN Labelled(p[j], 2, e)
        ELSE IF j = o THEN [p[j] EXCEPT !.mv = TRUE]
        ELSE p[j]]

LabelAll ==
    /\ walk = "label"
    /\ prog' = [o \in DOMAIN prog |-> [prog[o] EXCEPT !.execKind = "All"]]
    /\ walk' = "visit"
    /\ UNCHANGED <<cond, at>>

Visiting(o) == walk = "visit" /\ at < Len(prog) /\ o = at + 1

VisitOther(o) ==
    /\ Visiting(o)
    /\ ~IsBranch(prog, o)
    /\ at' = o
    /\ UNCHANGED <<prog, cond, walk>>

(***************************************************************************)
(* A single-valued conditional or loop, or a multi-valued scf.for, of      *)
(* which IfCondition::getCondition knows no condition.                     *)
(***************************************************************************)
VisitUnlabelled(o) ==
    /\ Visiting(o)
    /\ IsBranch(prog, o)
    /\ ~IsMV(o) \/ prog[o].kind = "for"
    /\ prog' = [prog EXCEPT ![o].mv = IsMV(o)]
    /\ at' = o
    /\ UNCHANGED <<cond, walk>>

(***************************************************************************)
(* setExecKind asserts that its kind is one of five, AllButOne not among   *)
(* them; it is called with AllButOne for the else region of a comparison   *)
(* with one uniform value.                                                 *)
(***************************************************************************)
FailsAssertion(o, e) == OneUniform(e) /\ Nested(o, 2, prog) # {}

AtLabelledIf(o, e) ==
    /\ Visiting(o)
    /\ IsBranch(prog, o)
    /\ IsMV(o)
    /\ Supported(o)
    /\ e \in {Cleared(l) : l \in ExecutorLists(cond[o])}

VisitIf(o, e) ==
    /\ AtLabelledIf(o, e)
    /\ "release" \in Builds \/ ~FailsAssertion(o, e)
    /\ prog' = Relabelled(prog, o, e)
    /\ at' = o
    /\ UNCHANGED <<cond, walk>>

AssertInIf(o, e) ==
    /\ AtLabelledIf(o, e)
    /\ "debug" \in Builds /\ FailsAssertion(o, e)
    /\ walk' = "asserted"
    /\ UNCHANGED <<prog, cond, at>>

(***************************************************************************)
(* llvm_unreachable: an abort or, in a release build, undefined behaviour  *)
(* of which nothing is said from here on.                                  *)
(***************************************************************************)
VisitUnreachable(o) ==
    /\ Visiting(o)
    /\ IsBranch(prog, o)
    /\ IsMV(o) /\ prog[o].kind # "for"
    /\ ~Supported(o)
    /\ walk' = "unreachable"
    /\ UNCHANGED <<prog, cond, at>>

EndWalk ==
    /\ walk = "visit"
    /\ at = Len(prog)
    /\ walk' = "done"
    /\ UNCHANGED <<prog, cond, at>>

InitWalk == at = 0 /\ walk = "label"

InitMV ==
    /\ WellFormed(prog)
    /\ cond \in [BranchOps(prog) -> Condition]
    /\ \A o \in BranchOps(prog) : WellShaped(cond[o])
    /\ InitWalk

NextMV ==
    \/ LabelAll
    \/ \E o \in DOMAIN prog :
         \/ VisitOther(o) \/ VisitUnlabelled(o) \/ VisitUnreachable(o)
         \/ \E e \in (IF IsBranch(prog, o) THEN {Cleared(l) : l \in ExecutorLists(cond[o])} ELSE {}) :
              VisitIf(o, e) \/ AssertInIf(o, e)
    \/ EndWalk

SpecMV == InitMV /\ [][NextMV]_mvVars

-----------------------------------------------------------------------------
(* What the pass guarantees.                                               *)

(***************************************************************************)
(* Types of the variables; the labels leave the program well formed.       *)
(***************************************************************************)
TypeOKMV ==
    /\ WellFormed(prog)
    /\ cond \in [BranchOps(prog) -> Condition]
    /\ at \in 0 .. Len(prog)
    /\ walk \in {"label", "visit", "done", "asserted", "unreachable"}

(***************************************************************************)
(* The multi-valued scf.ifs visited so far that enclose o.                 *)
(***************************************************************************)
Dividing(o) ==
    {b \in 1 .. at : IsBranch(prog, b) /\ prog[b].kind = "if" /\ IsMV(b)
                       /\ o \in Nested(b, 1, prog) \union Nested(b, 2, prog)}

(***************************************************************************)
(* An operation keeps the label "All" exactly as long as no multi-valued   *)
(* scf.if visited encloses it: labels of inner conditionals never widen    *)
(* the set of ranks back to all.                                           *)
(***************************************************************************)
AllUndivided ==
    walk # "label" =>
        \A o \in DOMAIN prog : prog[o].execKind = "All" <=> Dividing(o) = {}

(***************************************************************************)
(* Kind and ranks of a label come from one conditional, the innermost one  *)
(* visited, although executedBy and executedNotBy of outer conditionals    *)
(* stay on the operation and different conditionals set different ones.    *)
(***************************************************************************)
InnermostLabels ==
    walk # "label" =>
        \A o \in DOMAIN prog : Dividing(o) # {} =>
            \E b \in Dividing(o) :
                /\ \A a \in Dividing(o) : a <= b
                /\ \E l \in ExecutorLists(cond[b]) : \E region \in {1, 2} :
                     /\ o \in Nested(b, region, prog)
                     /\ prog[o] = Labelled(prog[o], region, Cleared(l))

(***************************************************************************)
(* A step of the walk changes no label of an operation it has passed.      *)
(***************************************************************************)
PassedUntouched ==
    [][walk = "visit" => \A o \in 1 .. at : prog'[o] = prog[o]]_mvVars

(***************************************************************************)
(* Which ranks execute an operation: a rank is in the then region of an    *)
(* scf.if on ranks when the condition holds for it.  x is the value of the *)
(* uniform operands.                                                       *)
(***************************************************************************)
CmpHolds(cmp, r, x) ==
    LET v == IF cmp.other = "const" THEN cmp.value ELSE x IN
    \/ cmp.pred = "eq" /\ r = v
    \/ cmp.pred = "ne" /\ r # v
    \/ cmp.pred = "lt" /\ r < v
    \/ cmp.pred = "gt" /\ r > v

Holds(c, r, x) ==
    \/ c.shape = "cmp" /\ CmpHolds(c.cmps[1], r, x)
    \/ c.shape \in {"or", "orElse"} /\ \E i \in DOMAIN c.cmps : CmpHolds(c.cmps[i], r, x)
    \/ c.shape \in {"and", "andThen"} /\ \A i \in DOMAIN c.cmps : CmpHolds(c.cmps[i], r, x)
    \/ /\ c.shape = "orAnd"
       /\ \/ CmpHolds(c.cmps[1], r, x) /\ CmpHolds(c.cmps[2], r, x)
          \/ CmpHolds(c.cmps[3], r, x)

Executing(o, x) ==
    {r \in Ranks : \A b \in Dividing(o) : Holds(cond[b], r, x) <=> o \in Nested(b, 1, prog)}

OnRanks(c)  == \A i \in DOMAIN c.cmps : c.cmps[i].ofRank /\ c.cmps[i].other # "varying"
Equality(c) == c.shape \in {"cmp", "or", "orElse"} /\ \A i \in DOMAIN c.cmps : c.cmps[i].pred = "eq"

(* o is below no multi-valued scf.if but b, which tests the rank for       *)
(* equality with one of some values.                                       *)
DividedByEquality(o, b) ==
    Dividing(o) = {b} /\ OnRanks(cond[b]) /\ Equality(cond[b])

AtMostOne(ranks) == \A r, s \in ranks : r = s

(***************************************************************************)
(* Below a single scf.if that tests the rank for equality with one of some *)
(* values, the ranks of a label Static are those that execute the          *)
(* operation, those of AllBut are those that do not, and at most one rank  *)
(* executes what is labelled One in the then region.  (In the else region  *)
(* One is what becomes of AllButOne.)                                      *)
(***************************************************************************)
LabelsExact ==
    walk = "done" =>
        \A o \in DOMAIN prog : \A b \in Dividing(o) : DividedByEquality(o, b) =>
            \A x \in Ranks :
                /\ prog[o].execKind = "Static" => Executing(o, x) = prog[o].executedBy \intersect Ranks
                /\ prog[o].execKind = "AllBut" => Executing(o, x) = Ranks \ prog[o].executedNotBy
                /\ prog[o].execKind = "One" /\ o \in Nested(b, 1, prog) => AtMostOne(Executing(o, x))

=============================================================================
