-------------------------- MODULE VerifiedExecution --------------------------
(***************************************************************************)
(* The pass check-collectives, followed by a run of the program when the   *)
(* pass has found no error in it.                                          *)
(***************************************************************************)
EXTENDS CheckCollectives

CONSTANTS Ranks, MaxTrip

VARIABLES control, calls, waiting, values

Run == INSTANCE SpmdExecution

allVars == <<vars, control, calls, waiting, values>>

Accepted == pc = "done" /\ errors = <<>>

InitAll == Init /\ Run!InitExecution(prog)

NextAll ==
    \/ Next /\ UNCHANGED <<control, calls, waiting, values>>
    \/ Accepted /\ Run!ExecutionNext /\ UNCHANGED vars

SpecAll == InitAll /\ [][NextAll]_allVars

-----------------------------------------------------------------------------
(***************************************************************************)
(* The programs the slots of the pass count exactly.                       *)
(*  - If two collectives of a communicator are not in nested regions, they *)
(*    are in the two branches of one scf.if: the counter a region got by   *)
(*    value is never missing calls of a region walked before it.           *)
(*  - No collective is in an scf.while, which the walk does not enter.     *)
(*  - The loops counted into numberOfExecution are the innermost ones, so  *)
(*    that the operations popped for them are these loops.                 *)
(***************************************************************************)
Alternatives(a, b, p) ==
    \E k \in DOMAIN p[a].path \intersect DOMAIN p[b].path :
        /\ p[a].path[k][1] = p[b].path[k][1]
        /\ p[a].path[k][2] # p[b].path[k][2]

SlotsExact(p) ==
    \A a, b \in DOMAIN p :
        /\ p[a].kind = "coll" /\ p[b].kind = "coll"
        /\ p[a].comm = p[b].comm
        /\ a < b
        => Encloses(p[a].path, p[b].path) \/ Alternatives(a, b, p)

NoWhile(p) == \A o \in DOMAIN p : p[o].kind # "while"

PopsCounted(p) ==
    \A o \in DOMAIN p : \A k \in CountedLoops(o, p) : k > Len(Shortened(o, p))

OneComm(p) == Cardinality({UnifiedComm(p[o].comm, p) : o \in {i \in DOMAIN p : p[i].kind = "coll"}}) <= 1

Countable(p) == SlotsExact(p) /\ NoWhile(p) /\ PopsCounted(p) /\ OneComm(p)

(***************************************************************************)
(* README.md:25, "The result will be either that no collective             *)
(* communication error is present or a report specifying the found error": *)
(* a program without a report calls its collectives in one order on all    *)
(* ranks and no rank waits for ever.                                       *)
(***************************************************************************)
AcceptedRunsMatch == Run!CallsMatch /\ Run!NoneLeftBehind

=============================================================================
