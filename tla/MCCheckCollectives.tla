------------------------- MODULE MCCheckCollectives -------------------------
(***************************************************************************)
(* CheckCollectives on every small program: deep nestings of a few kinds   *)
(* of operations, and programs with several communicators and classes.     *)
(***************************************************************************)
EXTENDS CheckCollectives, SmallPrograms

CONSTANTS SeveralOps, SeveralBranches   \* MaxOps and Branches where there are several communicators

Several == INSTANCE SmallPrograms WITH
               MaxOps <- SeveralOps, Branches <- SeveralBranches,
               UsedClasses <- BcastBoth, CommPrefixes <- SeveralComms

MCInit ==
    /\ ChooseProgram(prog) \/ Several!ChooseProgram(prog)
    /\ InitPass

MCSpec == MCInit /\ [][Next]_vars /\ WF_vars(Next)

=============================================================================
