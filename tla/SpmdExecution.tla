---------------------------- MODULE SpmdExecution ----------------------------
(***************************************************************************)
(* What the verified program does when it runs: every rank executes the    *)
(* same operations, and the collectives of a communicator have to be       *)
(* called by all its ranks in one order.  This is the MPI, NCCL and SHMEM  *)
(* runtime and the semantics of scf, neither of which is in the            *)
(* repository; the pass's verdict is about it.                             *)
(*                                                                         *)
(* Ranks interleave freely.  A single-valued condition or trip count takes *)
(* one value in each dynamic instance of its operation, the same on every  *)
(* rank that gets there; a multi-valued one may differ.                    *)
(***************************************************************************)
EXTENDS SpmdIR

LOCAL INSTANCE FiniteSetsExt

CONSTANTS
    Ranks,      \* the ranks of every communicator
    MaxTrip     \* bound: the most iterations of a loop with unknown bounds

VARIABLES
    prog,       \* the program
    control,    \* control[r]: the regions rank r is in, innermost last
    calls,      \* calls[r][c]: classes of the collectives r called on c
    waiting,    \* waiting[r]: communicator r is blocked on, 0 if none
    values      \* single-valued values so far, <<dynamic instance, value>>

execVars == <<control, calls, waiting, values>>

Frame(region, at, trip) == [region |-> region, at |-> at, iter |-> 1, trip |-> trip]

InitExecution(p) ==
    /\ control = [r \in Ranks |-> <<Frame(<<>>, 0, 1)>>]
    /\ calls = [r \in Ranks |-> [c \in DOMAIN p |-> <<>>]]
    /\ waiting = [r \in Ranks |-> 0]
    /\ values = {}

Finished(r) == control[r] = <<>>
Inner(r)    == control[r][Len(control[r])]
Outer(r)    == SubSeq(control[r], 1, Len(control[r]) - 1)

Running(r) == ~Finished(r) /\ waiting[r] = 0

AheadIn(f) == {o \in DOMAIN prog : prog[o].path = f.region /\ f.at < o}
AtOperation(r, o) == Running(r) /\ AheadIn(Inner(r)) # {} /\ o = Min(AheadIn(Inner(r)))
Passed(r, o) == [Inner(r) EXCEPT !.at = o]

Instance(r, o) == <<o, [k \in DOMAIN control[r] |-> control[r][k].iter]>>

(***************************************************************************)
(* v is a value the condition or trip count of o may have for r now.       *)
(***************************************************************************)
Allowed(r, o, v) == prog[o].mv \/ \A w \in values : w[1] = Instance(r, o) => w[2] = v

Remember(r, o, v) ==
    values' = IF prog[o].mv THEN values ELSE values \union {<<Instance(r, o), v>>}

TripCount(bounds) ==
    IF bounds[2] <= bounds[1] THEN 0 ELSE (bounds[2] - bounds[1] + bounds[3] - 1) \div bounds[3]

TakeIf(r, o, region) ==
    /\ AtOperation(r, o)
    /\ prog[o].kind = "if"
    /\ Allowed(r, o, region)
    /\ Remember(r, o, region)
    /\ control' = [control EXCEPT ![r] = Outer(r) \o <<Passed(r, o), Frame(Body(o, region, prog), o, 1)>>]
    /\ UNCHANGED <<calls, waiting>>

(***************************************************************************)
(* A loop with trip count n: the count of its bounds when it has constant  *)
(* ones, else any number up to MaxTrip.                                    *)
(***************************************************************************)
EnterLoop(r, o, n) ==
    /\ AtOperation(r, o)
    /\ prog[o].kind \in {"for", "while"}
    /\ control' = [control EXCEPT ![r] =
            Outer(r) \o <<Passed(r, o)>> \o
            IF n = 0 THEN <<>> ELSE <<Frame(Body(o, 1, prog), o, n)>>]
    /\ UNCHANGED <<calls, waiting>>

CountedLoop(r, o) ==
    /\ prog[o].bounds # <<>>
    /\ EnterLoop(r, o, TripCount(prog[o].bounds))
    /\ UNCHANGED values

OpenLoop(r, o, n) ==
    /\ prog[o].bounds = <<>>
    /\ EnterLoop(r, o, n)
    /\ Allowed(r, o, n)
    /\ Remember(r, o, n)

Other(r, o) ==
    /\ AtOperation(r, o)
    /\ prog[o].kind \in CommKinds
    /\ control' = [control EXCEPT ![r] = Append(Outer(r), Passed(r, o))]
    /\ UNCHANGED <<calls, waiting, values>>

Call(r, o) ==
    /\ AtOperation(r, o)
    /\ prog[o].kind = "coll"
    /\ calls' = [calls EXCEPT ![r][prog[o].comm] = Append(@, <<prog[o].type, prog[o].blocking>>)]
    /\ waiting' = [waiting EXCEPT ![r] = IF prog[o].blocking THEN prog[o].comm ELSE 0]
    /\ control' = [control EXCEPT ![r] = Append(Outer(r), Passed(r, o))]
    /\ UNCHANGED values

(***************************************************************************)
(* A blocking collective returns when every rank has called as many        *)
(* collectives on the communicator.                                        *)
(***************************************************************************)
Arrived(r) == \A s \in Ranks : Len(calls[s][waiting[r]]) >= Len(calls[r][waiting[r]])

Proceed(r) ==
    /\ waiting[r] # 0
    /\ Arrived(r)
    /\ waiting' = [waiting EXCEPT ![r] = 0]
    /\ UNCHANGED <<control, calls, values>>

LeaveRegion(r) ==
    /\ Running(r)
    /\ AheadIn(Inner(r)) = {}
    /\ control' = [control EXCEPT ![r] =
            LET f == Inner(r) IN
            IF f.iter < f.trip
              THEN Append(Outer(r), [f EXCEPT !.iter = @ + 1, !.at = f.region[Len(f.region)][1]])
              ELSE Outer(r)]
    /\ UNCHANGED <<calls, waiting, values>>

RankStep(r) ==
    \/ \E o \in DOMAIN prog :
         \/ \E region \in {1, 2} : TakeIf(r, o, region)
         \/ CountedLoop(r, o)
         \/ \E n \in 0 .. MaxTrip : OpenLoop(r, o, n)
         \/ Other(r, o)
         \/ Call(r, o)
    \/ Proceed(r)
    \/ LeaveRegion(r)

ExecutionNext == \E r \in Ranks : RankStep(r)

-----------------------------------------------------------------------------
(***************************************************************************)
(* The call order of a communicator is the same on all its ranks.          *)
(***************************************************************************)
CallsMatch ==
    \A r, s \in Ranks : \A c \in DOMAIN prog :
        \A k \in DOMAIN calls[r][c] \intersect DOMAIN calls[s][c] :
            calls[r][c][k] = calls[s][c][k]

(***************************************************************************)
(* When no rank can go on, all have finished and none has called a         *)
(* collective that another one has not.                                    *)
(***************************************************************************)
Stuck(r) == waiting[r] # 0 /\ ~Arrived(r)
Over(r)  == waiting[r] = 0 /\ Finished(r)

NoneLeftBehind ==
    (\A r \in Ranks : Over(r) \/ Stuck(r)) =>
                 /\ \A r \in Ranks : Over(r)
                 /\ \A r, s \in Ranks : \A c \in DOMAIN prog : Len(calls[r][c]) = Len(calls[s][c])

=============================================================================
