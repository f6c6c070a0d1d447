------------------------- MODULE MCVerifiedExecution -------------------------
(***************************************************************************)
(* Small programs and two ranks for VerifiedExecution: all shapes with few *)
(* operations, and deeper nestings of fewer kinds of operations.           *)
(***************************************************************************)
EXTENDS SmallPrograms, VerifiedExecution, TLC

CONSTANTS DeepOps, DeepBranches   \* MaxOps and Branches of the deeper programs

Deep == INSTANCE SmallPrograms WITH
            MaxOps <- DeepOps, Branches <- DeepBranches, UsedClasses <- BcastOnly

MCInitAll ==
    /\ ChooseProgram(prog) \/ Deep!ChooseProgram(prog)
    /\ InitPass
    /\ hasMain
    /\ Run!InitExecution(prog)

(* No operator tells one rank from another.                                *)
RankSymmetry == Permutations(Ranks)

MCInitCountable == MCInitAll /\ Countable(prog)
MCSpecCountable == MCInitCountable /\ [][NextAll]_allVars

(* Programs outside the first condition of Countable only.                 *)
MCInitUnslotted ==
    MCInitAll /\ ~SlotsExact(prog) /\ NoWhile(prog) /\ PopsCounted(prog) /\ OneComm(prog)
MCSpecUnslotted == MCInitUnslotted /\ [][NextAll]_allVars

=============================================================================
