------------------------- MODULE UniformityAnalysis -------------------------
(***************************************************************************)
(* UniformityAnalysis.cpp together with ReachingDefinitionAnalysis.cpp,    *)
(* run by MLIR's DataFlowSolver: which values of @main every rank agrees   *)
(* on.                                                                     *)
(*                                                                         *)
(* The solver is a worklist of visits.  A visit at a point of the program  *)
(* recomputes a state from others; when that has changed, the visits that  *)
(* read it are put on the list again.  Regions become live, and their      *)
(* operations are visited, only after the operation that owns them.        *)
(***************************************************************************)
EXTENDS ReachingDefinitions

LOCAL INSTANCE FiniteSetsExt

VARIABLES
    prog,       \* the operations of @main
    defs,       \* defs[pt]: reaching definitions at a point
    uni,        \* uni[v]: uniformity of a value
    live,       \* regions whose operations are visited
    queue,      \* visits to be made
    follows,    \* <<pt, x>>: the visit x has read defs[pt]
    asked,      \* <<v, x>>: the visit x is made again when uni[v] changes
    solver      \* "running", or "unreachable" once it has run into llvm_unreachable

solverVars == <<prog, defs, uni, live, queue, follows, asked, solver>>

-----------------------------------------------------------------------------
(***************************************************************************)
(* Uniformity.  A value is first uninitialized, here "none".               *)
(***************************************************************************)
Kinds == {"none", "Uniform", "NonUniform", "Unknown"}

JoinKinds(a, b) ==
    CASE a = "none" \/ a = b -> b
      [] b = "none" -> a
      [] {a, b} = {"Uniform", "NonUniform"} -> "NonUniform"
      [] OTHER -> "Unknown"

JoinAll(S) ==       \* of a set of kinds
    IF S \subseteq {"none"} THEN "none"
    ELSE IF S \subseteq {"none", "Uniform"} THEN "Uniform"
    ELSE IF S \subseteq {"none", "Uniform", "NonUniform"} THEN "NonUniform"
    ELSE "Unknown"

KindOf(V) == JoinAll({"Uniform"} \union {uni[v] : v \in V})
Waits(V)  == \E v \in V : uni[v] = "none"

(***************************************************************************)
(* The solver's list.  Visits are of three kinds: those of the two         *)
(* analyses at a point, and the one by which the regions of an operation   *)
(* become live.  Analyses are loaded in this order, and visit operations   *)
(* in the order of the program.                                            *)
(***************************************************************************)
Analyses == [defs |-> 1, uni |-> 2, live |-> 3]

NotAfter(x, y) ==
    \/ Analyses[x[1]] < Analyses[y[1]]
    \/ x[1] = y[1] /\ x[2] < y[2]
    \/ x[1] = y[1] /\ x[2] = y[2] /\ x[3] <= y[3]

Ordered(V) ==
    [i \in 1 .. Cardinality(V) |-> CHOOSE x \in V : Cardinality({y \in V : NotAfter(y, x)}) = i]

Enqueued(V) == Tail(queue) \o Ordered(V)

(***************************************************************************)
(* Points with something to visit for the uniformity analysis: operations  *)
(* with results, and the body of an scf.for, whose arguments are values.   *)
(***************************************************************************)
HasValues(p, pt) ==
    \/ pt[2] = 0 /\ HasResult(p, pt[1]) /\ p[pt[1]].kind \notin Arguments
    \/ pt[2] = 1 /\ pt # MainStart /\ p[pt[1]].kind = "for"

PointsIn(p, b, r) == {<<b, r>>} \union {<<o, 0>> : o \in OpsIn(p, b, r)}

VisitsIn(p, b, r) ==
    {<<"defs", pt[1], pt[2]>> : pt \in PointsIn(p, b, r)} \union
    {<<"uni", pt[1], pt[2]>> : pt \in {q \in PointsIn(p, b, r) : HasValues(p, q)}} \union
    {<<"live", o, 0>> : o \in {j \in OpsIn(p, b, r) : p[j].kind \in RegionOps}}

(***************************************************************************)
(* What is passed on to the result or the iteration argument of an         *)
(* operation with regions: what its regions yield, and for an scf.for its  *)
(* initial value.                                                          *)
(***************************************************************************)
Incoming(o) == Range(prog[o].yields) \union {prog[o].uses[k] : k \in 3 .. Len(prog[o].uses)}

IsLive(pt) == (IF pt[2] = 0 THEN RegionAt(prog, pt[1]) ELSE pt) \in live

(***************************************************************************)
(* Visits to repeat when the state at pt, or the uniformity of one of the  *)
(* values V, has changed: those that have read it.                         *)
(***************************************************************************)
IsVisited(x) == IsLive(<<x[2], x[3]>>)

FollowingDefs(pt) ==     \* variant: not the loads
    {x \in {f[2] : f \in {g \in follows : g[1] = pt}} : x[1] = "defs"}

FollowersOf(pt) == {x \in {f[2] : f \in {g \in follows : g[1] = pt}} : IsVisited(x)}
AskersFor(V)    == {x \in {a[2] : a \in {b \in asked : b[1] \in V}} : IsVisited(x)}

(***************************************************************************)
(* useDefSubscribe: once one operation has read the uniformity of its      *)
(* operands, all their users are visited again when it changes.            *)
(***************************************************************************)
UsersOf(v) == {u \in DOMAIN prog : HasValues(prog, <<u, 0>>) /\ v \in Operands(prog, u)}

Subscribed(o) == UNION {{v} \X ({"uni"} \X UsersOf(v) \X {0}) : v \in Operands(prog, o)}

-----------------------------------------------------------------------------
(* Visits of the reaching definition analysis.                             *)

(***************************************************************************)
(* processOperation: an operation with regions, and the start of a region, *)
(* have the union of what control can come from.                           *)
(***************************************************************************)
Joined(pt, from) ==
    [mods  |-> [m \in DOMAIN prog |-> defs[pt].mods[m] \union UNION {defs[q].mods[m] : q \in from}],
     pMods |-> [m \in DOMAIN prog |-> defs[pt].pMods[m] \union UNION {defs[q].pMods[m] : q \in from}]]

IsJoin(pt) == pt[2] # 0 \/ prog[pt[1]].kind \in RegionOps

(***************************************************************************)
(* What comes before an operation with regions is known once DeadCode-     *)
(* Analysis has visited the operation.                                     *)
(***************************************************************************)
Entered(o) == <<o, 1>> \in live

SourcesForward(pt) ==       \* variant: not the end of a loop's body
    {q \in Predecessors(prog, pt) : pt[2] = 0 \/ q[1] <= pt[1]}

Sources(pt) ==
    IF pt[2] = 0 /\ IsJoin(pt) /\ ~Entered(pt[1]) THEN {} ELSE Predecessors(prog, pt)

StateOf(from) == defs[CHOOSE q \in from : TRUE]     \* of the one point

AlwaysReported(pt, from) == TRUE       \* variant: joins, too, always report a change

Reported(pt, from) ==
    IF IsJoin(pt) THEN Joined(pt, from) # defs[pt]
    ELSE ReportsChange(prog, pt[1], StateOf(from), defs[pt])

VisitDefs ==
    /\ Head(queue)[1] = "defs"
    /\ LET pt     == <<Head(queue)[2], Head(queue)[3]>>
           from   == Sources(pt)
       IN  /\ defs' = [defs EXCEPT ![pt] =
                          IF IsJoin(pt) THEN Joined(pt, from) ELSE Transfer(prog, pt[1], StateOf(from), @)]
           /\ follows' = follows \union {<<q, Head(queue)>> : q \in from}
           /\ queue' = Enqueued(IF Reported(pt, from) THEN FollowersOf(pt) ELSE {})
    /\ UNCHANGED <<prog, uni, live, asked, solver>>

-----------------------------------------------------------------------------
(* Visits of the uniformity analysis.                                      *)

(***************************************************************************)
(* A visit leaves the values at a point at least as high as they were.     *)
(***************************************************************************)
SetUniformity(new, reads) ==
    /\ uni' = [v \in DOMAIN uni |-> IF v \in DOMAIN new THEN JoinKinds(uni[v], new[v]) ELSE uni[v]]
    /\ asked' = asked \union reads
    /\ queue' = Enqueued(AskersFor({v \in DOMAIN uni : uni'[v] # uni[v]}))
    /\ UNCHANGED <<prog, defs, live, solver>>

Visiting(analysis, o, r) == Head(queue) = <<analysis, o, r>>

Enclosing(o) == {prog[o].path[k][1] : k \in DOMAIN prog[o].path}

(***************************************************************************)
(* IfCondition::getCondition: there is none for an scf.for.                *)
(***************************************************************************)
ConditionOf(b) ==
    CASE prog[b].kind = "if"    -> {prog[b].uses[1]}
      [] prog[b].kind = "while" -> {prog[b].yields[1]}
      [] prog[b].kind = "for"   -> {}

(***************************************************************************)
(* isDivergent: not every rank may execute o.                              *)
(***************************************************************************)
DivergentInnermost(o) ==        \* variant: only the innermost branch
    Enclosing(o) # {} /\ KindOf(ConditionOf(Max(Enclosing(o)))) # "Uniform"

IsDivergent(o) == \E b \in Enclosing(o) : KindOf(ConditionOf(b)) # "Uniform"

(***************************************************************************)
(* What multi-value-analysis marks an operation with regions as: by its    *)
(* condition, or where there is none by its operands.  Unknown counts as   *)
(* single-valued.                                                          *)
(***************************************************************************)
MVByCondition(b) == \E v \in ConditionOf(b) : uni[v] = "NonUniform"      \* variant: nothing else counts

IsMV(b) ==
    \E v \in IF ConditionOf(b) # {} THEN ConditionOf(b) ELSE Operands(prog, b) : uni[v] = "NonUniform"

BranchConditions(D) ==
    UNION {UNION {ConditionOf(b) : b \in Enclosing(d)} : d \in D \ {InitialDefinition}}

ModifierOperands(D) == UNION {Operands(prog, d) : d \in D \ {InitialDefinition}}

(***************************************************************************)
(* anyModifierUniformityIs: a memref.alloca is uniform, a store or         *)
(* communication is as its operands are.  Anything else is                 *)
(* llvm_unreachable.                                                       *)
(***************************************************************************)
ModifierKindOfStores(d) ==      \* variant: nothing is known of a memref.alloca
    IF d = InitialDefinition \/ prog[d].kind = "alloca" THEN "Unknown" ELSE KindOf(Operands(prog, d))

ModifierKind(d) ==
    IF d = InitialDefinition THEN "Unknown"
    ELSE IF prog[d].kind = "alloca" THEN "Uniform"
    ELSE KindOf(Operands(prog, d))

Handled(D)   == {d \in D : d = InitialDefinition \/ prog[d].kind # "malloc"}
Unhandled(D) == D \ Handled(D)

(***************************************************************************)
(* analyzeMemoryEffects for an operation o that reads a memref with the    *)
(* modifiers D: the conditions of the branches around them decide first,   *)
(* then the modifiers themselves.  It bails out as long as one of those    *)
(* has no uniformity, and asks for those that have none yet only.          *)
(***************************************************************************)
ModifiersAt(o) == UNION {Modifiers(defs[<<o, 0>>], m) : m \in ReadBy(prog, o)}

ConditionsDecide(D) == KindOf(BranchConditions(D)) # "Uniform"

Missing(D) ==
    {v \in IF Waits(BranchConditions(D)) THEN BranchConditions(D)
           ELSE IF ConditionsDecide(D) THEN {}
           ELSE ModifierOperands(D) : uni[v] = "none"}

NothingAskedFor(D) == {}        \* variant

AskedFor(D) == Missing(D)

ReadKind(D) ==
    IF Missing(D) # {} THEN "none"
    ELSE IF ConditionsDecide(D) THEN KindOf(BranchConditions(D))
    ELSE JoinAll({"Uniform"} \union {ModifierKind(d) : d \in Handled(D)})

(***************************************************************************)
(* Modifiers are looked at in the order of their pointers, until one is    *)
(* Unknown; the initial definition is always first.                        *)
(***************************************************************************)
RunsIntoUnreachable(D) ==
    /\ Missing(D) = {}
    /\ ~ConditionsDecide(D)
    /\ Unhandled(D) # {}
    /\ InitialDefinition \notin D

FindsUnknownFirst(D) == ReadKind(D) = "Unknown"

(***************************************************************************)
(* visitOperation, for an operation that reads no memory or is decided by  *)
(* its operands.                                                           *)
(***************************************************************************)
ResultKind(o) ==
    IF Waits(Operands(prog, o)) THEN "none"
    ELSE IF prog[o].kind = "rank" THEN "NonUniform"
    ELSE IF KindOf(Operands(prog, o)) # "Uniform" THEN KindOf(Operands(prog, o))
    ELSE IF ~DeclaresEffects(prog, o) \/ Resets(prog, o) THEN "Unknown"
    ELSE "Uniform"

Reads(o) ==
    /\ ReadBy(prog, o) # {}
    /\ ~Resets(prog, o)
    /\ \A v \in Operands(prog, o) : uni[v] = "Uniform"

VisitResult(o) ==
    /\ Visiting("uni", o, 0)
    /\ prog[o].kind \notin RegionOps
    /\ ~Reads(o)
    /\ SetUniformity([v \in {ResultOf(o)} |-> ResultKind(o)], Subscribed(o))
    /\ UNCHANGED follows

VisitRead(o) ==
    /\ Visiting("uni", o, 0)
    /\ prog[o].kind \notin RegionOps
    /\ Reads(o)
    /\ LET D == ModifiersAt(o) IN
         /\ RunsIntoUnreachable(D) => FindsUnknownFirst(D)
         /\ SetUniformity([v \in {ResultOf(o)} |-> ReadKind(D)],
                          Subscribed(o) \union (AskedFor(D) \X {Head(queue)}))
    /\ follows' = follows \union {<<<<o, 0>>, Head(queue)>>}

ReadUnreachable(o) ==
    /\ Visiting("uni", o, 0)
    /\ prog[o].kind \notin RegionOps
    /\ Reads(o)
    /\ RunsIntoUnreachable(ModifiersAt(o))
    /\ solver' = "unreachable"
    /\ UNCHANGED <<prog, defs, uni, live, queue, follows, asked>>

(***************************************************************************)
(* The results of an operation with regions.  When a result changes,       *)
(* onUpdate joins the first operand of the operation, and no other.        *)
(***************************************************************************)
WithoutOnUpdate(o, kind) == kind        \* variant: its condition does not matter

OnUpdate(o, kind) == JoinKinds(kind, uni[prog[o].uses[1]])

KnownIncoming(o) == IF Entered(o) THEN Incoming(o) ELSE {}

VisitRegionResult(o) ==
    /\ Visiting("uni", o, 0)
    /\ prog[o].kind \in RegionOps
    /\ LET old    == uni[ResultOf(o)]
           joined == JoinKinds(old, JoinAll({uni[v] : v \in KnownIncoming(o)}))
           new    == IF joined = old THEN old ELSE OnUpdate(o, joined)
       IN  SetUniformity([v \in {ResultOf(o)} |-> new], KnownIncoming(o) \X {Head(queue)})
    /\ UNCHANGED follows

(***************************************************************************)
(* visitNonControlFlowArguments and the iteration argument of an scf.for.  *)
(* As long as an operand has no uniformity the induction variable stays    *)
(* without one, and nothing is asked for.                                  *)
(***************************************************************************)
BoundsKind(o) ==
    IF Waits(Range(prog[o].uses)) THEN "none" ELSE KindOf({prog[o].uses[1], prog[o].uses[2]})

ArgumentsOf(o) == IF prog[o].yields = <<>> THEN {IvOf(o)} ELSE {IvOf(o), IterOf(o)}

VisitForBody(o) ==
    /\ Visiting("uni", o, 1)
    /\ SetUniformity(
         [v \in ArgumentsOf(o) |->
            IF v = IvOf(o) THEN BoundsKind(o) ELSE JoinAll({uni[w] : w \in Incoming(o)})],
         Incoming(o) \X {Head(queue)})
    /\ UNCHANGED follows

-----------------------------------------------------------------------------
(***************************************************************************)
(* DeadCodeAnalysis finds the regions of o live: conditions are never      *)
(* known to be constant, since onUpdate tells the constant propagation so. *)
(***************************************************************************)
GoLiveFirst ==      \* variant: of the regions only the first becomes live
    /\ Head(queue)[1] = "live"
    /\ LET o == Head(queue)[2] IN
         /\ live' = live \union {<<o, 1>>}
         /\ queue' = Enqueued(UNION {VisitsIn(prog, o, r) : r \in Regions(prog, o)})
    /\ UNCHANGED <<prog, defs, uni, follows, asked, solver>>

GoLiveInside ==     \* variant: what comes out of the regions is not asked for again
    /\ Head(queue)[1] = "live"
    /\ LET o == Head(queue)[2] IN
         /\ live' = live \union {<<o, r>> : r \in Regions(prog, o)}
         /\ queue' = Enqueued(UNION {VisitsIn(prog, o, r) : r \in Regions(prog, o)})
    /\ UNCHANGED <<prog, defs, uni, follows, asked, solver>>

GoLive ==
    /\ Head(queue)[1] = "live"
    /\ LET o == Head(queue)[2] IN
         /\ live' = live \union {<<o, r>> : r \in Regions(prog, o)}
         /\ queue' = Enqueued({<<"defs", o, 0>>} \union
                                 (IF HasResult(prog, o) THEN {<<"uni", o, 0>>} ELSE {}) \union
                                 UNION {VisitsIn(prog, o, r) : r \in Regions(prog, o)})
    /\ UNCHANGED <<prog, defs, uni, follows, asked, solver>>

(***************************************************************************)
(* setToEntryState: an argument of @main is Unknown.                       *)
(***************************************************************************)
InitSolver ==
    /\ defs = [pt \in Points(prog) |-> IF pt = MainStart THEN EntryState(prog) ELSE Nothing(prog)]
    /\ uni = [v \in ValuesUpTo(Len(prog)) |->
                IF v[1] = "res" /\ prog[v[2]].kind \in Arguments THEN "Unknown" ELSE "none"]
    /\ live = {MainStart}
    /\ queue = Ordered(VisitsIn(prog, 0, 1))
    /\ follows = {}
    /\ asked = {}
    /\ solver = "running"

Solved == solver = "running" /\ queue = <<>>

NextSolver ==
    /\ solver = "running"
    /\ queue # <<>>
    /\ \/ VisitDefs
       \/ GoLive
       \/ \E o \in DOMAIN prog :
            VisitResult(o) \/ VisitRead(o) \/ ReadUnreachable(o) \/ VisitRegionResult(o) \/ VisitForBody(o)

SpecSolver == WellFormedMemoryProgram(prog) /\ InitSolver /\ [][NextSolver]_solverVars

-----------------------------------------------------------------------------
(***************************************************************************)
(* Types.  Uniformity is for values of the program, reaching definitions   *)
(* are operations of it, and only points of live regions are visited.      *)
(***************************************************************************)
MayVisit(x) ==
    LET pt == <<x[2], x[3]>> IN
    /\ pt \in Points(prog) /\ (pt = MainStart \/ prog[pt[1]].kind \notin Arguments)
    /\ x[1] = "uni" => HasValues(prog, pt)
    /\ x[1] = "live" => pt[2] = 0 /\ prog[pt[1]].kind \in RegionOps

Visits == {x \in {"defs", "uni", "live"} \X (DOMAIN prog \union {0}) \X (0 .. 2) : MayVisit(x)}

TypeOKUniformity ==
    /\ WellFormedMemoryProgram(prog)
    /\ defs \in [Points(prog) -> ReachingStates(prog)]
    /\ uni \in [ValuesUpTo(Len(prog)) -> Kinds]
    /\ live \subseteq Points(prog)
    /\ queue \in Seq({x \in Visits : IsVisited(x)})
    /\ follows \subseteq Points(prog) \X Visits
    /\ asked \subseteq ValuesUpTo(Len(prog)) \X Visits
    /\ solver \in {"running", "unreachable"}

(***************************************************************************)
(* When the list is empty, no visit of the reaching definition analysis    *)
(* would change anything any more: all that have read a state are made     *)
(* again when it has changed, and so are those behind an operation when    *)
(* its regions become live.  Nothing is said of programs with an operation *)
(* that gives up, for it changes its state and does not report it.         *)
(***************************************************************************)
Visited(pt) == IsLive(pt) /\ (pt = MainStart \/ prog[pt[1]].kind \notin Arguments)

SettledDefs(pt) ==
    IF IsJoin(pt) THEN Joined(pt, Sources(pt)) = defs[pt]
    ELSE Transfer(prog, pt[1], StateOf(Sources(pt)), defs[pt]) = defs[pt]

DefinitionsSettled ==
    Solved /\ (\A o \in DOMAIN prog : ~GivesUp(prog, o)) =>
        \A pt \in Points(prog) : Visited(pt) => SettledDefs(pt)

(***************************************************************************)
(* Nor would a visit of the uniformity analysis: every visit that reads    *)
(* what has changed has been made again.  A comment promises it for the    *)
(* modifiers of a load ("so that when the uniformity of the modifier(s)    *)
(* has been computed, the dataflow framework revisits 'op'").  It is not   *)
(* so for every program: see copied in SmallMemoryPrograms.                *)
(***************************************************************************)
SettledResult(o) ==
    LET again == IF prog[o].kind \in RegionOps THEN JoinAll({uni[v] : v \in KnownIncoming(o)})
                 ELSE IF Reads(o) THEN ReadKind(ModifiersAt(o))
                 ELSE ResultKind(o)
    IN  JoinKinds(uni[ResultOf(o)], again) = uni[ResultOf(o)]

SettledBody(o) == JoinKinds(uni[IvOf(o)], BoundsKind(o)) = uni[IvOf(o)]

Settled ==
    Solved => \A pt \in Points(prog) : Visited(pt) /\ HasValues(prog, pt) =>
        IF pt[2] = 0 THEN SettledResult(pt[1]) ELSE SettledBody(pt[1])

(***************************************************************************)
(* Nothing is taken for non-uniform or unknown without a reason: where no  *)
(* operation uses the rank and nothing comes from outside, neither is ever *)
(* found, whatever else the program does.                                  *)
(***************************************************************************)
UsesNoRank ==
    \A o \in DOMAIN prog :
        /\ prog[o].kind \notin Arguments \union {"recv", "barrier", "scatter"}
        /\ \A v \in Operands(prog, o) \union Range(prog[o].yields) : prog[v[2]].kind # "rank"

UniformWithoutRank ==
    UsesNoRank => \A v \in DOMAIN uni : uni[v] \in {"none", "Uniform"} \/ prog[v[2]].kind = "rank"

(***************************************************************************)
(* The solver comes to an end.  setModifier reports a change whenever it   *)
(* is called, so that only the joins at the start of a region and behind   *)
(* an operation with regions keep a store in a loop from being visited     *)
(* for ever.                                                               *)
(***************************************************************************)
TerminatesSolver == <>(Solved \/ solver = "unreachable")

=============================================================================
