# Verification of the SPMD IR passes

TLA+ models, model-checking runs and proofs for the compiler in
`src/SPMD-IR-and-Transformations-and-Analyses/spmd`: the SPMD dialect of MLIR, the pass that
unifies MPI, NCCL and SHMEM calls into it, the multi-value analysis, and the check for
collective communication errors. Paths below are relative to that directory.

## 1. The system

`completePipeFile.sh` runs `spmd-opt` three times on one MLIR file: unification
(`--convert-apiCalls-to-spmd`), then `--multi-value-analysis`, then `--check-collectives`, which
prints a report. Each pass is one sequential call on the module; what it leaves for the next
are operations, operands and attributes of the IR.

| component | source | state it keeps | operations |
|---|---|---|---|
| SPMD dialect | `include/spmd/SPMDOps.td`, `SPMDTypes.td` | operations of `@main`, regions, operands, attributes | - |
| unification driver | `lib/spmd/passes/ConvertApiCallsToSPMD.cpp` | the module | one walk over the calls of `@main`, erasing declarations, two clean-up patterns |
| MPI conversion | `lib/spmd/passes/CACTS/mpiTransformations.cpp` | function statics: map of communicator and request variables and constants, implicit world | one handler per MPI function |
| NCCL conversion | `.../ncclTransformations.cpp` | function statics: communicators and their blocking mode, the open group and its requests | one handler per NCCL function |
| SHMEM conversion | `.../shmemTransformations.cpp` | function statics: map of team variables, the world | one handler per SHMEM function |
| memref replacement | `.../utils.cpp` | - | replace a variable by the value of a new operation |
| reaching definitions, underlying values | `lib/spmd/Analysis/ReachingDefinitionAnalysis.cpp` | dense lattice: modifiers and potential modifiers per memory resource, at every point | effects of an operation, join |
| uniformity analysis | `lib/spmd/Analysis/UniformityAnalysis.cpp` | sparse lattice per value; the solver's worklist and dependencies | transfer functions, join, operands to visit again |
| multi-value analysis | `lib/spmd/passes/MultiValueAnalysis.cpp` | attributes `isMultiValued`, `executionKind`, `executedBy`, `executedNotBy` | label all, visit in pre-order |
| collectives check | `lib/spmd/passes/CheckCollectives.cpp` | `collectivesOrder`, the counter of each activation, PDF+, errors | unify worlds, collect, check containers, report |
| alias oracle | `lib/spmd/Utils/AliasUtils.cpp` | which memory resources must or may be one another | filled once per function |

The passes interact only through the IR: check-collectives reads the marks and labels of the
multi-value analysis, and relies (an `llvm_unreachable` in `isMV`) on their being there, and
the communicator operand that unification has made; the analysis reads the result of the uniformity solver, which reads
reaching definitions. Nothing runs in parallel inside the compiler. What is hard here is

* *order*: two walks write labels to the same operations, slots depend on the activations of a recursion that each have a copy of a counter,
  conversions on what earlier calls have left in function-level statics;
* *what has to be done again*: whoever reads a dataflow state that changes later must
  be visited again, and a visit that always reports a change must not keep a loop going for ever;
* *stale state*: labels of outer conditionals, lists and causes that an earlier conditional has left, statics of a group;
* *boundaries*: growing containers, trip counts, `num-ranks`, the -1 among the executors;
* *what the verdict means*: the ranks of the verified program do run concurrently, and a program the pass
  accepts has to run without a mismatch or a hang in every interleaving.

`PROJECT.json` lists the hazards line by line.

### What makes each component correct

* Uniformity: two ranks that compute a value found uniform get the same; every value computed has a uniformity; a fixed point is
  reached. Reaching definitions: who has written last what is loaded is among the modifiers, in straight-line code without aliases alone.
* Multi-value analysis: an operation is labelled by the innermost multi-valued conditional around it; a label that names ranks names those
  that execute the operation; what is in no operation marked multi-valued is executed by all.
* Collectives check: each collective is filed once, in the container of its class and the slot the program determines, within bounds; a report blames
  conditionals that can divide the ranks, and repeats no other; a collective is reported exactly if the program, by itself, says so; the pass ends.
* The two together: every label the check needs is there; a container is skipped for known ranks only when every rank executes a member. An accepted
  program calls its collectives in one order on all ranks, and nobody waits for ever.
* Unification: each call becomes the operation of its class, blocking or not as the source means it, on the communicator that is meant, in its place; a wait
  completes the requests that are meant; nothing that still has a use is erased.

## 2. Modules

| module | what it is |
|---|---|
| `SpmdIR` | the part of the IR the check reads, and what MLIR guarantees of it (`WellFormed`) |
| `SmallPrograms`, `SmallConditions` | generators of all well-nested programs and of the conditions, for the runs |
| `CheckCollectives` | the pass check-collectives, every function of it |
| `CheckCollectives_proofs` | its types, the bounds of its containers, that each collective is filed once in its slot, what is reported and what reports blame |
| `MainProgram` | the program, a variable that the two passes share |
| `MultiValueAnalysis` | the pass multi-value-analysis, after the uniformity solver, with the semantics of rank conditions |
| `MultiValueAnalysis_proofs` | theorems about its labels |
| `CheckPipeline` | the two passes in sequence: it extends both modules, so that their lemmas apply |
| `CheckPipeline_proofs` | theorems about the sequence |
| `SpmdExecution` | ranks that run a program concurrently: scf semantics and blocking collectives (external) |
| `VerifiedExecution` | the check, then a run of the program if the check accepts it |
| `Conversion` | state of convert-apiCalls-to-spmd: the text of `@main`, the statics, and what all handlers do with them |
| `ConvertMPI`, `ConvertNCCL`, `ConvertSHMEM` | one action per handler of the three conversions |
| `ConvertApiCalls` | the pass around them: walk, dispatch, deletion of declarations, clean-up; its properties |
| `ConvertInvariant_proofs` | the inductive invariant of the conversions, the steps of the walk, and what handlers have in common |
| `ConvertApiCalls_proofs` | each handler keeps it; the shape of the text, and the theorems |
| `ConvertRequests_proofs` | that waits are for the requests that are meant |
| `MemoryIR` | the part of the IR the dataflow analyses read: operands, results, memrefs, effects, control flow between regions |
| `ReachingDefinitions` | lattice and transfer function of the reaching definition analysis, alias oracle, underlying values |
| `UniformityAnalysis` | MLIR's solver with both analyses: one action per kind of visit |
| `UniformExecution` | the solver, then two ranks that run the analysed program (external); its properties |
| `UniformityAnalysis_proofs`, `UniformExecution_proofs` | theorems about the solver, and about a run behind it |
| `SmallMemoryPrograms` | generator of the programs for these runs, and the written ones |
| `MC...` | definitions for the runs |

### How state and actions correspond to the code

**SpmdIR.** A program is a sequence of operations in pre-order, each with the list of `<<operation, region>>`
pairs that enclose it: all of MLIR's structure that the passes use. An operation keeps its class (`TypeOrder`, the dialect's
collectives in the order of the containers), `isBlocking`, the communicator operand, constant loop bounds,
and the attributes the passes exchange.

**CheckCollectives.** `runOnOperation` is `Start`/`NoMain`, `NextComm`, `Report`; `Start` includes `getComms` and
`unifyCommWorlds`. `iterateForCollectives` is a recursion; `stack` is its activations, each with its region,
its position and its own `counter`, because the code passes the counter by value: `Collect`, `EnterIf` (both
recursive calls, the first one on top), `EnterFor`, `PassOver`, `Return`. `checkErrors` goes through the 22
containers and their slots: `SkipContainer`, `NextClass`, `EndCheck`, and for a container to look at
`StartPDFP` (`getPDFP`'s early exit and loop extension with `numberOfExecution`), `FuseMember`
(one member's enclosing list fused into the lists kept), `EndFuse`, `ScanList` (one list scanned for its
cause), `EndPDFP` (the report). Attributes are read where the code reads them.

**MultiValueAnalysis.** `LabelAll` is the first walk, `VisitOther`, `VisitUnlabelled`, `VisitIf`, `AssertInIf`,
`VisitUnreachable` are the second one at one operation. A condition is its uniformity, the shape in which it is made
of comparisons (those that `getCmpOps` tells apart) and the comparisons. `getExecutor` returns without a value for a non-uniform
operand: what the local holds is a choice from `Stale`. The list of executors a label is made from is a function from the positions of the comparisons of
the rank, so that two with the same executor stay two. An assertion and `llvm_unreachable` end the pass;
`Builds` says whether assertions are compiled in.

**ReachingDefinitions, UniformityAnalysis.** `queue` is the worklist of `DataFlowSolver`: every analysis first visits every operation in program
order, in the order in which `loadRequiredAnalysesImpl` loads them, and a change appends the visits that depend on it. `defs` is the lattice of
the reaching definitions at each point and `uni` the uniformity of each value, "none" before it is initialized. `VisitDefs` is `processOperation`
with `visitOperation` (`Transfer`, one effect after the other in `AfterEffect`), whose report of a change is a value of its own (`ReportsChange`):
`setModifier` always says `Change`. `VisitResult` and `VisitRead` are `UniformityAnalysis::visitOperation`, without and with
`analyzeMemoryEffects`; `VisitRegionResult` is the join of what is yielded, with `onUpdate`; `VisitForBody` is `visitNonControlFlowArguments`;
`ReadUnreachable` the `llvm_unreachable` in `anyModifierUniformityIs`; `GoLive` stands for dead code analysis: all regions get live,
since `onUpdate` makes conditions unknown constants. `follows` and `asked` are the dependencies made so far: a visit is repeated only for
what it has read (`getOrCreateFor`), and an operand of an operation also for whoever uses it (`useDefSubscribe`). The second is where the code is subtle: `AskedFor` is for operands without uniformity only, and `VisitForBody` asks for nothing.
`IsDivergent` is `isDivergent`, `IsMV` the marks that multi-value-analysis sets from the result.

The terminator of a region is part of the operation that owns it: the end of a region is visited one step earlier than in MLIR. Values are
numbers or memrefs; alias analysis, `scf` and the solver are external, modelled by what MLIR documents of them.

**UniformExecution.** When the list is empty the ranks run the program: memory of their own with two elements, rank-dependent arguments, collectives in
which all meet. `seen` records every value with its iterations, `loads` who has written what is loaded.
Ranks share nothing between collectives: one order of their steps stands for all.

**Conversion, Convert...** `source` is what `@main` was: its calls, conditionals and loops in pre-order. `text[i]` is what stands in
the place of the i-th, and `text[0]` what has been put at the start of `@main`; a communicator is the place of the operation that makes
it. `mpi`, `nccl` and `shmem` are the function-level statics. Each step visits one call: `ConvertMPI(i)` and
the like are the handlers, one action each, or one with a table where they
differ in the class of the operation only (`CommunicateMPI`, `CollectiveSHMEM`). Of the data of a call the model keeps what conversions look at:
the communicator, the request and its element, the variable a rank or size goes to, and the constants for datatypes and
operations, by value, since the pass runs on canonicalized code that has each constant once. `replaceMemrefByValue` is `ReplaceLoads`, without its `llvm_unreachable` for users
of the variable it does not expect. `llvm_unreachable` (undefined in
a release build) and uses of erased operations end the run (`BreakOff`), and nothing is claimed from there on. `Finish` deletes
declarations and is the greedy pattern driver, external except for the two patterns of the pass.

`CallsTyped` is what the C++ compiler has checked of the source: a call has the arguments of its function (only functions that set a communicator
have a result, those that need none name none, a nonblocking call has a request, `ncclCommInitRankConfig` has a unique id before its configuration), and a variable for a communicator is of one library; `SourceNested` is MLIR's structure. The runs
and the proofs start from programs with both.

Three conditions on source programs say where claims end, each because of a real hazard: `SetOnce` (a communicator variable is set
once, in a region its users are in: the mapping knows no regions), `NothingMisread` (a variable receives one rank or size, since the first query
replaces all loads; and a split by a constant color with the rank in the world as the key is of a communicator of all, since the parent is not looked at;
a constant color counts as one that all processes have, which is not so where branches have different ones),
`PlainRequests` (waits, and `MPI_Isendrecv`, name a variable from its start, since `createWaitAll` does not look at the element; a request variable of
`MPI_Isendrecv` serves that call alone).

**SpmdExecution.** External: each rank has a control stack of regions with iteration counts. A single-valued
condition has one value per instance of its operation, a multi-valued one is free
per rank. A blocking collective returns when all ranks have called as many collectives on its communicator.

## 3. Runs

All runs explore *every* program the generator makes within the bounds.

| run | question | bounds |
|---|---|---|
| `CheckCollectives_programs` | filing, slots, containers, causes, the verdict on each collective, several communicators and worlds, end of the pass | 5 operations of one class with five kinds of conditionals and loops; 4 operations with two kinds, 3 communicators and both blocking variants |
| `CheckPipeline_programs` | labels, in debug and release builds, and their use by the check with `num-ranks` 3 | 4 operations with 5 conditions; with 12 conditions in modules without `@main`, which are labelled and turned down by the check; 3 ranks |
| `VerifiedExecution_calls` | accepted programs run | 4 operations of six kinds with 2 classes, 5 of three kinds with one; 2 ranks, 2 iterations |
| `Conversion_calls` | communicators, requests, groups and what blocks across calls and conversions, clean-up, declarations | 4 calls out of 1 to 11 kinds in any nesting of conditionals or loops after 1 to 5 calls as a prologue, for eleven families: MPI communicators, MPI requests, MPI+NCCL, NCCL groups, NCCL groups after a first one, SHMEM, MPI+SHMEM, SHMEM+NCCL, calls that convert alone, an unknown model, no `main` |
| `Uniformity_programs` | what is uniform is the same, last writers reach, fixed points (of the definitions: `DefinitionsSettled`), `isDivergent`, the marks of conditionals and loops | every program of up to 3 statements before a last load, in every nesting, out of ten kinds and out of eight others with arithmetic and loops bounded by the rank; ten written ones; 2 ranks, 2 more turns of a loop |
| `Uniformity_termination` | the solver ends | 2 statements out of nine kinds and fifteen written programs |
| `Uniformity_barrier` | finding | 2 statements |
| `Conversion_constants`, `Conversion_config` | findings | 3 calls |
| `VerifiedExecution_counter` | finding | 5 operations |
| `CheckCollectives_loops` | finding | 3 operations |
| `CheckPipeline_predicates` | finding | 4 operations |

Why these bounds are telling: five operations make two collectives under up to three conditionals,
or three in two sibling or nested regions, which is every configuration in which a slot can be
shared, a list fused or cut, a cause skipped because it has been checked, or a counter lost. Two ranks
suffice to disagree: every condition compares two regions, or one rank with the rest. (The ranks are a symmetry set:
`SpmdExecution` does not tell them apart.) Trip counts
0, 1 and 2 are "never", "once" and "several times". In the conversions four calls after a prologue
are two definitions, a use and a release of a communicator, or a group that is opened, filled twice and closed after another one. The proofs have no bounds.

The programs for the dataflow analyses have one memory with every statement that writes or reads it; views, selects,
arguments, results of conditionals, carried values and frees are in written ones, as is what takes five operations or more. Statements
with which a property does not hold (see below) are left out of `Uniformity_programs`. `storeLast`, the copy of a loaded value, is in
it with three statements only: with four the program `copied` is generated. `NotDivergentTogether` says nothing of loops with bounds that
differ, which `isDivergent` does not look at.

**Fairness.** The passes are single sequential calls: the only fairness is `WF_vars(Next)`, that
a pass that can take a step takes one (`Terminates`, and `TerminatesSolver` for the solver's loop). The execution of programs is
checked for safety only: `NoneLeftBehind` is about states in which nobody can go on. Deadlock is
not checked as a pass stops when it is done.

### Findings

* `VerifiedExecution_counter`: the counter is passed by value, so a collective behind a conditional gets the slot of the first one inside it.
  Programs like `if(mv){c} ; if(mv){c; c}`, whose ranks call different numbers of collectives, can be accepted. `Countable` names the programs whose
  slots are exact; for those `VerifiedExecution_calls` shows that the verdict is right.
* `CheckCollectives_loops`: for each counted loop the *last* element of the list is popped, which need not be that loop;
  in `for(known){for(unknown, multi-valued){c}}` the unknown loop disappears and nothing is reported.
* `CheckPipeline_predicates`: `Static` labels list the constants that the rank is compared with, whatever the predicate. With
  `num-ranks` 2, members under `rank > 0` and `rank > 1` count as executed by ranks 0 and 1.
* `Conversion_constants`: datatypes and reduction operations of NCCL share one map by value. In
  `ncclReduce(..., ncclInt, ncclMax, ...)` both are 2, and the operation becomes the datatype instead of being
  turned down. (The verifier of the dialect stops at it then.)
* `Conversion_config`: `ncclCommInitRankConfig` looks for the store of 0 to `blocking` behind operand 2, which is the unique id (the configuration
  is operand 4). A communicator configured to be non-blocking gets blocking operations, and so do those split from it. `BlocksAsMeant`, which holds, speaks of operations
  with a request, and of those without one on the other communicators.
* `Uniformity_barrier`: behind an operation without declared effects nothing is known of memory, which the code calls conservative; but a
  load without modifiers is uniform.

### Where else the claims end

The else region of a comparison of the rank with one uniform value is labelled `AllButOne`, none of the kinds that `setExecKind` asserts: a debug build stops there (`AssertInIf`). A
release build writes `"One"`, although all ranks but one execute the region. `LabelsExact` therefore speaks of `Static`, of `AllBut`, and of `One` in then regions.

These programs of the dataflow analyses are left out above. Each has a name in `SmallMemoryPrograms`; added to
`WrittenNames` or `Statements` of `Uniformity_programs.cfg` it makes the property named fail.

* `recv` (`UniformAgrees`): a receive has an effect on no value, and resets the definitions as a barrier does.
* `forRank` with `storeTwo` (`UniformAgrees`): the branches around a store do not include loops; one with rank-dependent bounds
  makes a uniform load. The marks do look at the bounds (`SingleValuedTogether`).
* `scattered` (`UniformAgrees`): a collective is as uniform as its operands.
* `elements` (`LastWriterReaches`): a store of one element ends the definitions of the whole memref. `merged`: a store through what an `scf.if`
  yields is dropped. `argumentView`: nothing is known on entry of a view of an argument. `selectAgain`: a memref selected in the turn
  before is taken for the one selected now.
* `copied` (`Settled`): a load is not visited again when an operand of a modifier is raised from uniform to non-uniform.
* `waiting` (`AllInitialized`): an induction variable can stay without uniformity, on which the passes assert.
* `malloc`, which is explored: a load of memory that only `spmd.malloc` has defined is `llvm_unreachable("Unhandled operation")`, action `ReadUnreachable`.

## 4. Proofs

Theorems are about programs of any length and nesting. Constants are bound by assumptions that TLC evaluates:
`TypeOrderAssumption` (the classes are a list without repetition), `NumRanksAssumption` (`num-ranks` is a natural number),
`AnalysisAssumption` (ranks are natural numbers, the stale values that a local can hold integers), `PipelineAssumption` (the program runs on `num-ranks` ranks),
`ConversionAssumption` (what calls become are classes), `ExecutionAssumption` (two ranks, any number of turns). Programs are any `WellFormed` or
`WellFormedMemoryProgram` sequence for the analyses and any `CallsTyped` and `SourceNested` one for the conversions.

**check-collectives.**

* `TypeCorrect`, `SlotsStayInBounds`. `SlotsInBounds` (a counter never exceeds the size of the containers) is
  inductive with the type invariant (`TypeInv`): containers only grow during a walk, a callee starts with its caller's
  counter, and `Collect` grows before it counts. `Start` must keep the program well formed.
* `FiledInSlotAlways`. `FramesCount` says what the counter is that `Collect` files by: for
  each activation, the number of collectives on the communicator up to its position in its own and the enclosing regions (`SlotInv`).
* `FiledOnceAlways` is about the end of a walk; in between, activations have done parts of regions. `Frontier` says which: no operation is ahead of two
  activations (`AheadOfOne`), nothing ahead of one has been filed (`NothingFiledAhead`), what is ahead of none and belongs in a container is in one
  (`NoneLost`), and in no second place (`NoneTwice`); together `FiledInv`. The two activations of a conditional, of which the first runs with the
  second below it on the stack, are where the proof has its work.
* `CausesAreDivergent`. The report is made from lists fused some steps before. `FusedFromMembers` says that every fused list is a prefix of what
  encloses some member, `PDFPEncloses` that what has been collected comes from the multi-valued part of
  such a list (`CauseInv`).
* `ReportedOnceAlways`. `ReportsPassed` says of every report that its class, slot and communicator have been passed by the walk over the containers; what
  is reported next is filed under another one, and `FiledInSlot` makes class, slot and communicator a function of the operation (`ReportInv`).
* `VerdictExactAlways`. `VerdictExact` says on the program alone which collectives are reported: what encloses a collective or one of its `Fellows`
  (same communicator, class and slot) divides the ranks. Nothing of the pass's state may matter for it: containers hold all fellows and nothing below a loop the walk
  does not enter (`WalkInv`), `numberOfExecution` is current although it is never removed (`CountsCurrent`), and while PDF+ is empty, every list that divides the ranks
  begins a fused one still to be scanned (`NoCauseYet`, `ScanInv`); what the walk over communicators and containers has passed has its verdict (`VerdictSoFar`, `VerdictInv`).

**multi-value-analysis.** `TypeCorrectMV`, `AllUndividedAlways` and `InnermostLabelsAlways` come from `MVInv`: types, conditions of the shape that
comparisons give them, and the two label properties, which are about all operations and the position of the walk, so that they carry
over from an outer conditional to an inner one that overwrites its labels.
`PassedUntouchedAlways` is an action property: an action labels only what is ahead. `LabelsExactAlways` compares labels with
what ranks do, for any set of ranks and values of the operands; that at most one rank executes what is labelled `One` in a then region rests on the list with
a -1 among several executors being emptied (`OneExecutor`).

**The sequence.** `MVnessDefinedAlways`: `PipeInv` adds to the invariants of the passes that the marks the
first has set are those the second sees, also after `unifyCommWorlds`. `CoveredRanksCallAlways`: skipping a container for known ranks is
right for every `num-ranks` where labels are exact (`LabelsAreExact`). This excludes, besides nested multi-valued
conditionals and other predicates than equality, a comparison of the rank with something that varies (`KnownExecutors`), for which no executor is stored. The
proof needed that and the run at its bounds did not.

**The conversions.** `TypeCorrectConversion`, `CommunicatorMeantAlways`, `BlocksAsMeantAlways`, `CallsDeclaredAlways`, for the walk over any calls, by
all handlers of the three libraries in any combination. None of the properties is inductive, since handlers act on function statics. `ConvInv` says what these hold:
a communicator that a mapping has for a variable was made for the last call that set the variable
(`CommsMeant`), and is a commWorld only if that call named all processes (`AllOf`); the implicit worlds stand at the start of `@main` (`WorldKept`); the rank
or size that has replaced a variable is that of the one query it is from (`ValuesMeant`), on which NCCL's initialization depends; NCCL's communicators block (the ones that are configured not to, too),
and its group is open exactly between the calls that start and end it (`GroupMeant`); what the walk has not reached is the source still, or a wait that an `MPI_Isendrecv` has been given
(`Untouched`). `TextAfter` is what every handler does to the text; `HandledKeeps`
reduces a handler to the operations it makes and the statics it sets, and each handler is one lemma about those. What a program means by a communicator (`MeansAll`)
is recursive; `MeansAllExists` shows the function to exist.

`WaitsMeantAlways` adds `RequestInv`. The element a request is stored to is chosen by one handler and waited for by another, through an array per variable or group that all
calls share: `RequestsMeant` says which call and element an operation's request is of (`StoredBy`), `ElementsApart` that those of a group
do not meet, `GroupFilled` that the open group has the elements 0 to `num` - 1, `WaitsAnswered` that nothing later joins a wait that has been answered.
`ConvertedWellFormedAlways` adds `ShapeInv`: during the walk the operations of a call are in its region and conditionals
and loops stay (`TextShaped`); in the end what is left hangs together (`TextLeft`). The erasure is a recursion over the text,
whose function is shown to exist; that a communicator is kept for its users, and a conditional for what is live in it, follows from the last
place for which it would not be so. The new numbers are a bijection that keeps the order, by counting, and so keep paths and subtrees.

**The dataflow analyses.** `TypeCorrectUniformity` comes first: states and kinds are of the program's values, and the list has visits of points in live regions only.
`DefinitionsSettledAlways`: `DefsInv` says that a live point is on the list, or its state is the transfer of its sources
and it is told when these change. No operation may give up half way (`NeverGivesUp`): such a visit has
joined the state and reports no change. `UniformWithoutRankAlways` is about every state of the solver: `NoRankInv` holds values (`AllLow`) and definitions (`WrittenInside`)
down together, since a load takes its kind from the modifiers and these could be the unknown initial one.
`LastWriterReachesAlways` follows a run behind the solver: `ReachInv` says that at the point where a rank is, who has written a memory is among the definitions of every
memref that names it. It is about
`PlainMemory`: each exclusion is a program of the list above, or memory that is freed and may come back. `OnlyLastWriterReachesAlways` needs
also that no memory has two names (`OneNameEach`): an allocation is no modifier of views of it.

TLC finds no state that violates these invariants, either: `FiledInv`, `ReportInv`, `CauseInv` and `VerdictInv` in `CheckCollectives_programs`, `MVInv` and `PipeInv` in
`CheckPipeline_programs`, `ConvInv`, `RequestInv` and `TextShaped` on all 781115 states of `Conversion_calls`, `ReachInv` and `OnlyLastInv`
on the 125912 of `Uniformity_programs`.

**Only model-checked.** What needs fairness (`Terminates`, `TerminatesSolver`), since the provers do not do ENABLED.
`AcceptedRunsMatch`, which is about all interleavings of the ranks. `Settled`, `UniformAgrees`, `AllInitialized`, `NotDivergentTogether` and `SingleValuedTogether`: the programs
of the list above break them or what they rest on, and no condition is known that separates the others.
What a recursion computes for every input needs induction theorems that take an operator, which no prover can instantiate.

## 5. Limits

* Collectives in an `scf.while` are never filed by the pass, and communicators are checked one at a time; programs with the former or
  several communicators are outside `Countable`.
* In `MultiValueAnalysis` the uniformity of a condition is an input; `IsMV` takes the marks of conditionals and loops from the solver, but not the
  labels of the operations in them. A visited `scf.if`'s own yielded constants
  also feed `getCmpOps`, and conditions that are block arguments dereference null: not modelled.
* Negative trip counts and 64-bit overflow are not explored.
* Conversions: buffers, counts, ranks, tags, statuses and flags are left out; requests are told apart by their calls and not by
  iterations, so that a group operation in a loop, whose requests all go to one element, is
  not covered. Functions besides `@main` are not there, although the deletion of declarations concerns them.
* Dataflow analyses: GPU kernels, affine loops and conditionals and the memory operations of LLVM, which take the same branches of the code as those
  modelled; calls of functions; underlying values as a lattice of their own; `send` and the non-blocking operations, whose effects are those of `recv` and of the
  collectives. The list is first in, first out, as in MLIR; by the program `copied` the result is another for other orders.
* Not modelled: the loop and versioning tools of `TransformUtils`, which nothing calls; the benchmark programs, which are inputs.

## 6. Plan

Done: models of all components but those of section 5, with proofs for each but the execution of verified programs. Next:

1. Proofs: `AcceptedRunsMatch` for `Countable` programs, from `VerdictExact`; counts may not be negative then.
2. The whole pipeline: the program a conversion leaves (`ConvertedProgram`) as the input of the analysis and the check, with the claim
   that calls of the source which do not match are reported.
3. The labels of `MultiValueAnalysis` on top of the solver's result, and `VerifiedExecution` with the memory of `UniformExecution`.
4. Execution with concrete ranks and conditions, negative trip counts, fixed-width products.
