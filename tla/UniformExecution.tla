-------------------------- MODULE UniformExecution --------------------------
(***************************************************************************)
(* The uniformity analysis followed by a run of the program it has been    *)
(* made for: every rank executes @main with memory of its own, and the     *)
(* ranks meet in collectives.  The semantics of the operations are those   *)
(* of MLIR's dialects and of the communication library, neither of which   *)
(* is in the repository; what the analysis claims is about them.           *)
(*                                                                         *)
(* Between collectives ranks share nothing, so that they run one after the *)
(* other, the least rank first.                                            *)
(***************************************************************************)
EXTENDS UniformityAnalysis

LOCAL INSTANCE FiniteSetsExt

CONSTANTS
    Ranks,      \* the ranks; 0 is the root of every collective
    MaxTurns    \* bound: the most times a rank goes on in a loop

ASSUME ExecutionAssumption == 0 \in Ranks /\ Ranks \subseteq {0, 1} /\ MaxTurns \in Nat

VARIABLES
    pc,         \* pc[r]: the point rank r is at
    env,        \* env[r][v]: the number, or the memory, that v is
    turns,      \* turns[r][b]: how often r has gone on in the loop b
    cells,      \* cells[r][m][e]: element e of the memory m: its content, and who wrote it
    seen,       \* seen[r]: <<v, instance, env[r][v]>> for every value computed
    loads       \* <<load, operation that wrote what a rank loads there>>

runVars == <<pc, env, turns, cells, seen, loads>>

Numbers == 0 .. 1       \* the elements of a memory

(***************************************************************************)
(* Arguments of @main are different on every rank, what an alloca holds at *)
(* first is the same.                                                      *)
(***************************************************************************)
InitExecution ==
    /\ pc = [r \in Ranks |-> MainStart]
    /\ env = [r \in Ranks |-> [v \in ValuesUpTo(Len(prog)) |->
                IF v[1] # "res" THEN 0
                ELSE IF prog[v[2]].kind = "arg" THEN r
                ELSE IF prog[v[2]].kind = "memarg" THEN v[2]
                ELSE 0]]
    /\ turns = [r \in Ranks |-> [b \in DOMAIN prog |-> 0]]
    /\ cells = [r \in Ranks |-> [m \in DOMAIN prog |-> [e \in Numbers |->
                [val |-> IF prog[m].kind = "memarg" THEN r ELSE 0, by |-> InitialDefinition]]]]
    /\ seen = [r \in Ranks |-> {}]
    /\ loads = {}

Region(r) == IF pc[r][2] = 0 THEN RegionAt(prog, pc[r][1]) ELSE pc[r]
Ahead(r)  == {o \in OpsIn(prog, Region(r)[1], Region(r)[2]) : o > pc[r][1]}
AtEnd(r)  == Ahead(r) = {}
NextOp(r) == Min(Ahead(r))

Val(r, v)    == env[r][v]
MemOf(r, o, k) == env[r][ResultOf(prog[o].mem[k])]

(***************************************************************************)
(* Rank r gets to the point pt, where the values of vals are defined; an   *)
(* instance of a point is told from others by the turns of the loops       *)
(* around it.                                                              *)
(***************************************************************************)
PathOf(pt) == IF pt[2] = 0 THEN prog[pt[1]].path ELSE RegionPath(prog, pt[1], pt[2])

Computed(pt, vals, ts) ==
    {<<v, [k \in DOMAIN PathOf(pt) |-> ts[PathOf(pt)[k][1]]], vals[v]>> : v \in DOMAIN vals}

Go(r, pt, vals, ts) ==
    /\ pc' = [pc EXCEPT ![r] = pt]
    /\ turns' = [turns EXCEPT ![r] = ts]
    /\ env' = [env EXCEPT ![r] = [v \in DOMAIN env[r] |-> IF v \in DOMAIN vals THEN vals[v] ELSE env[r][v]]]
    /\ seen' = [seen EXCEPT ![r] = @ \union Computed(pt, vals, ts)]

-----------------------------------------------------------------------------
SumOf(r, s) == FoldFunction(LAMBDA v, n : Val(r, v) + n, 0, s)

Collectives == {"bcast", "scatter", "barrier"}

Content(r, o) == cells[r][MemOf(r, o, 1)][prog[o].elem]

ResultValue(r, o) ==
    CASE prog[o].kind = "const"               -> prog[o].num
      [] prog[o].kind = "rank"                -> r
      [] prog[o].kind = "pure"                -> SumOf(r, prog[o].uses)
      [] prog[o].kind = "load"                -> Content(r, o).val
      [] prog[o].kind \in {"alloca", "malloc"} -> o
      [] prog[o].kind = "view"                -> MemOf(r, o, 1)
      [] prog[o].kind \in {"select", "merge"} -> MemOf(r, o, IF Val(r, prog[o].uses[1]) # 0 THEN 1 ELSE 2)
      [] OTHER                                -> 0

Results(o) == IF HasResult(prog, o) THEN {ResultOf(o)} ELSE {}

WrittenBy(o, n) == [val |-> n, by |-> o]

Execute(r) ==
    /\ ~AtEnd(r)
    /\ LET o == NextOp(r) IN
         /\ prog[o].kind \notin RegionOps \union Collectives
         /\ Go(r, <<o, 0>>, [v \in Results(o) |-> ResultValue(r, o)], turns[r])
         /\ cells' = CASE prog[o].kind = "store" ->
                            [cells EXCEPT ![r][MemOf(r, o, 1)][prog[o].elem] = WrittenBy(o, Val(r, prog[o].uses[1]))]
                       [] prog[o].kind \in {"alloca", "malloc"} ->
                            [cells EXCEPT ![r][o] = [e \in Numbers |-> WrittenBy(o, 0)]]
                       [] prog[o].kind = "recv" ->      \* a message made for r
                            [cells EXCEPT ![r][MemOf(r, o, 1)][0] = WrittenBy(o, r)]
                       [] OTHER -> cells
         /\ loads' = IF prog[o].kind = "load" THEN loads \union {<<o, Content(r, o).by>>} ELSE loads

(***************************************************************************)
(* A collective that every rank has come to: bcast gives all of them the   *)
(* memory of the root, scatter each the element of its own.                *)
(***************************************************************************)
Meet(o) ==
    /\ \A r \in Ranks : ~AtEnd(r) /\ NextOp(r) = o
    /\ prog[o].kind \in Collectives
    /\ pc' = [r \in Ranks |-> <<o, 0>>]
    /\ cells' = [r \in Ranks |->
         CASE prog[o].kind = "bcast" ->
                [cells[r] EXCEPT ![MemOf(r, o, 2)] = [e \in Numbers |-> WrittenBy(o, cells[0][MemOf(0, o, 1)][e].val)]]
           [] prog[o].kind = "scatter" ->
                [cells[r] EXCEPT ![MemOf(r, o, 2)][0] = WrittenBy(o, cells[0][MemOf(0, o, 1)][r].val)]
           [] OTHER -> cells[r]]
    /\ UNCHANGED <<env, turns, seen, loads>>

-----------------------------------------------------------------------------
(* Control flow: scf.if, scf.for and scf.while.                            *)

Lower(r, o) == Val(r, prog[o].uses[1])
Upper(r, o) == Val(r, prog[o].uses[2])
Carries(o)  == prog[o].yields # <<>>

ForArguments(r, o, i, carried) ==
    [v \in {IvOf(o)} \union (IF Carries(o) THEN {IterOf(o)} ELSE {}) |-> IF v = IvOf(o) THEN i ELSE carried]

RegionResult(o, carried) == [v \in Results(o) |-> carried]

Enter(r) ==
    /\ ~AtEnd(r)
    /\ LET o == NextOp(r)
           init == IF Carries(o) THEN Val(r, prog[o].uses[3]) ELSE 0
       IN  \/ /\ prog[o].kind = "if"
              /\ LET k == IF Val(r, prog[o].uses[1]) # 0 THEN 1 ELSE 2 IN
                   Go(r, <<o, IF k \in Regions(prog, o) THEN k ELSE 0>>, <<>>, turns[r])
           \/ /\ prog[o].kind = "for"
              /\ IF Lower(r, o) < Upper(r, o)
                 THEN Go(r, <<o, 1>>, ForArguments(r, o, Lower(r, o), init), [turns[r] EXCEPT ![o] = 0])
                 ELSE Go(r, <<o, 0>>, RegionResult(o, init), turns[r])
           \/ /\ prog[o].kind = "while"
              /\ Go(r, <<o, 1>>, <<>>, [turns[r] EXCEPT ![o] = 0])
    /\ UNCHANGED <<cells, loads>>

GoesOn(r, b) == turns[r][b] < MaxTurns
Again(r, b)  == [turns[r] EXCEPT ![b] = @ + 1]

Leave(r) ==
    /\ AtEnd(r)
    /\ Region(r) # MainStart
    /\ LET b == Region(r)[1]
           k == Region(r)[2]
           carried == IF prog[b].yields = <<>> THEN 0
                      ELSE Val(r, prog[b].yields[IF prog[b].kind = "if" THEN k ELSE 1])
       IN  \/ /\ prog[b].kind = "if"
              /\ Go(r, <<b, 0>>, RegionResult(b, carried), turns[r])
           \/ /\ prog[b].kind = "for"
              /\ LET i == Val(r, IvOf(b)) + 1 IN
                   IF i < Upper(r, b)
                   THEN GoesOn(r, b) /\ Go(r, <<b, 1>>, ForArguments(r, b, i, carried), Again(r, b))
                   ELSE Go(r, <<b, 0>>, RegionResult(b, carried), turns[r])
           \/ /\ prog[b].kind = "while" /\ k = 1
              /\ Go(r, <<b, IF carried # 0 THEN 2 ELSE 0>>, <<>>, turns[r])
           \/ /\ prog[b].kind = "while" /\ k = 2
              /\ GoesOn(r, b)
              /\ Go(r, <<b, 1>>, <<>>, Again(r, b))
    /\ UNCHANGED <<cells, loads>>

-----------------------------------------------------------------------------
(***************************************************************************)
(* Rank r can go on by itself.                                             *)
(***************************************************************************)
MovesOn(r) ==
    IF ~AtEnd(r) THEN prog[NextOp(r)].kind \notin Collectives
    ELSE LET b == Region(r)[1] IN
         /\ Region(r) # MainStart
         /\ \/ prog[b].kind = "if"
            \/ prog[b].kind = "for" /\ (Val(r, IvOf(b)) + 1 < Upper(r, b) => GoesOn(r, b))
            \/ prog[b].kind = "while" /\ (Region(r)[2] = 2 => GoesOn(r, b))

Turn(r) == MovesOn(r) /\ \A s \in Ranks : s < r => ~MovesOn(s)

NextExecution ==
    \/ \E r \in Ranks : Turn(r) /\ (Execute(r) \/ Enter(r) \/ Leave(r))
    \/ \E o \in DOMAIN prog : Meet(o)

Next ==
    \/ NextSolver /\ UNCHANGED runVars
    \/ Solved /\ NextExecution /\ UNCHANGED solverVars

vars == <<solverVars, runVars>>

Spec == WellFormedMemoryProgram(prog) /\ InitSolver /\ InitExecution /\ [][Next]_vars

-----------------------------------------------------------------------------
(***************************************************************************)
(* "A uniform value is a value for which all threads agree on its content" *)
(* (UniformityAnalysis.h): two ranks that compute a value that has been    *)
(* found uniform, in the same iterations of the loops around it, get the   *)
(* same.                                                                   *)
(***************************************************************************)
UniformAgrees ==
    \A r, s \in Ranks : \A x \in seen[r], y \in seen[s] :
        x[1] = y[1] /\ x[2] = y[2] /\ uni[x[1]] = "Uniform" => x[3] = y[3]

(***************************************************************************)
(* The operation that has written last what a rank loads is among the      *)
(* modifiers or potential modifiers of the load, however many branches     *)
(* and loops there are in between.                                         *)
(***************************************************************************)
LastWriterReaches ==
    \A l \in loads : l[2] \in ModifiersAt(l[1]) \/ (l[2] # InitialDefinition /\ prog[l[2]].kind \in {"alloca", "malloc"})

(***************************************************************************)
(* Where there are no branches and no memrefs that may be one another, it  *)
(* is the only one: a store ends the life of those before it.              *)
(***************************************************************************)
StraightLine == \A o \in DOMAIN prog : prog[o].kind \notin RegionOps \union {"select", "merge"}

OnlyLastWriterReaches == StraightLine => \A l \in loads : ModifiersAt(l[1]) = {l[2]}

(***************************************************************************)
(* Every value a rank computes has been given a uniformity.  isDivergent   *)
(* and multi-value-analysis assert it ("lattice element should be          *)
(* initialized").                                                          *)
(***************************************************************************)
AllInitialized == \A r \in Ranks : \A x \in seen[r] : uni[x[1]] # "none"

(***************************************************************************)
(* "Returns true if the given operation may not be executed by all         *)
(* threads" (UniformityAnalysis.h, of isDivergent): at the end of a run    *)
(* the ranks have executed all other operations alike, in the same         *)
(* iterations of the loops around them.  isDivergent looks at no scf.for,  *)
(* so that nothing is said of loops some ranks may run through more often. *)
(***************************************************************************)
Finished == \A r \in Ranks : AtEnd(r) /\ Region(r) = MainStart

Iterations(r, o) == {x[2] : x \in {y \in seen[r] : y[1] = ResultOf(o)}}

ExecutedAlike(o) == \A r, s \in Ranks : Iterations(r, o) = Iterations(s, o)

UnevenLoop(b) == prog[b].kind = "for" /\ KindOf(Operands(prog, b)) # "Uniform"

NotDivergentTogether ==
    Finished => \A o \in DOMAIN prog :
        IsDivergent(o) \/ (\E b \in Enclosing(o) : UnevenLoop(b)) \/ ExecutedAlike(o)

(***************************************************************************)
(* What multi-value-analysis promises to check-collectives: operations     *)
(* that are in no multi-valued operation are executed by all ranks, also   *)
(* in loops and behind them.  Nothing is said of conditions and bounds     *)
(* that are Unknown, which it marks as single-valued, too.                 *)
(***************************************************************************)
DecidedBy(b) == IF ConditionOf(b) # {} THEN ConditionOf(b) ELSE Operands(prog, b)

SingleValuedTogether ==
    Finished => \A o \in DOMAIN prog :
        \/ \E b \in Enclosing(o) : IsMV(b) \/ KindOf(DecidedBy(b)) = "Unknown"
        \/ ExecutedAlike(o)

=============================================================================
