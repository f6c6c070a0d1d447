--------------------------- MODULE MCUniformity ---------------------------
(***************************************************************************)
(* UniformExecution on small programs, generated from two sets of          *)
(* statements.                                                             *)
(***************************************************************************)
EXTENDS UniformExecution, SmallMemoryPrograms

CONSTANT OtherStatements   \* Statements of the second set

Others == INSTANCE SmallMemoryPrograms WITH Statements <- OtherStatements, WrittenNames <- {}

MCInit ==
    /\ prog \in Programs \union Others!Programs
    /\ InitSolver
    /\ InitExecution

MCSpec == MCInit /\ [][Next]_vars /\ WF_vars(Next)

=============================================================================
