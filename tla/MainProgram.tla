----------------------------- MODULE MainProgram -----------------------------
(***************************************************************************)
(* The body of @main, which the passes of the pipeline hand from one to    *)
(* the next.                                                               *)
(***************************************************************************)
EXTENDS SpmdIR

VARIABLE prog       \* the operations of @main

=============================================================================
