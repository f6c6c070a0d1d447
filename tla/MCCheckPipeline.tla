-------------------------- MODULE MCCheckPipeline --------------------------
(***************************************************************************)
(* CheckPipeline on every small program whose conditionals have the        *)
(* conditions named in the .cfg.                                           *)
(***************************************************************************)
EXTENDS CheckPipeline, SmallConditions

CONSTANT OtherCondNames     \* conditions in modules without @main

(***************************************************************************)
(* A module without @main is labelled by the first pass, which asks for    *)
(* none, and turned down by the second one: the labels alone.              *)
(***************************************************************************)
Other == INSTANCE SmallConditions WITH CondNames <- OtherCondNames

MCInitPipe ==
    /\ ChooseProgram(prog)
    /\ \/ hasMain = TRUE /\ Conditioned(cond, prog)
       \/ hasMain = FALSE /\ Other!Conditioned(cond, prog)
    /\ InitWalk
    /\ InitPass

MCSpecPipe == MCInitPipe /\ [][NextPipe]_pipeVars

=============================================================================
