------------------------------ MODULE Conversion ------------------------------
(***************************************************************************)
(* The state of the pass convert-apiCalls-to-spmd: @main, whose calls of   *)
(* MPI, NCCL and SHMEM functions become operations of the SPMD dialect one *)
(* after the other, and the function-level statics of the conversions,     *)
(* which carry communicators, requests and open groups from one call to    *)
(* the next.                                                               *)
(***************************************************************************)
EXTENDS SpmdIR

VARIABLES
    hasMain,    \* the module defines @main
    usedModel,  \* pass option used-model
    source,     \* the calls, conditionals and loops of @main, in pre-order
    text,       \* what @main has in place of each, text[0] being its start
    at,         \* how many of them the walk has visited
    values,     \* what the loads of an integer variable were replaced by
    mpi, nccl, shmem,   \* the statics of the three conversions
    status,     \* "start", "walk", "done", or how the pass broke off
    declared    \* the functions declared in the module

convVars == <<hasMain, usedModel, source, text, at, values, mpi, nccl, shmem, status, declared>>

-----------------------------------------------------------------------------
(***************************************************************************)
(* One call, as far as the conversions look at it; the fn of a conditional *)
(* or a loop is its kind.                                                  *)
(*   comm    the communicator argument: a variable, or World for the       *)
(*           constant MPI_COMM_WORLD and the global SHMEM_TEAM_WORLD       *)
(*   result  the communicator variable that a split or initialisation sets *)
(*   var     the integer variable of a rank or size query, the key of      *)
(*           MPI_Comm_split and the size argument of ncclCommInitRank      *)
(*   req     the request variable (an array); idx is <<>> when it is named *)
(*           as a whole and <<k>> when a polygeist.subindex names element k*)
(*   count   the count argument of MPI_Waitall and the like                *)
(*   constColor  the color of MPI_Comm_split is a constant                 *)
(*   args    the datatype, reduction operation, stream, unique id,         *)
(*           configuration and status arguments <<role, value>>            *)
(***************************************************************************)
World  == "World"
NoName == ""       \* where a call has no such argument
Argument == {"datatype", "reduceOp", "stream", "id", "config", "status"} \X STRING

ApiCall ==
    [fn : STRING, path : Seq((Nat \ {0}) \X {1, 2}), comm : STRING, result : STRING,
     var : STRING, req : STRING, idx : Seq(Nat), count : Nat, constColor : BOOLEAN,
     args : Seq(Argument)]

(***************************************************************************)
(* An operation of the text.  A communicator is named by the place <<i, k>>*)
(* of the operation that makes it; None is no communicator.  type is the   *)
(* class of a collective, or else tells operations of one kind apart.  An  *)
(* operation with a request stores it to element slot of the array mem; a  *)
(* wait is for the first count elements of mem.                            *)
(***************************************************************************)
None == <<0, 0>>
PureKinds == {"world", "split", "query", "destroy"}
TextKinds == BranchKinds \union PureKinds \union
    {"coll", "send", "recv", "wait", "memory", "process", "call", "gone"}

Array ==
    [var : {NoName} \union {source[i].req : i \in DOMAIN source}, call : 0 .. Len(source)]

NoArray      == [var |-> NoName, call |-> 0]
ArrayFor(r)  == [NoArray EXCEPT !.var = r]     \* takes the place of variable r
ArrayOf(i)   == [NoArray EXCEPT !.call = i]    \* allocated for call i

CollectiveNames ==
    {"barrier", "bcast", "reduce", "allreduce", "reduceScatter", "scan", "exscan",
     "scatter", "gather", "allgather", "alltoall"}
WaitNames == {"waitAll", "waitSome", "waitAny", "testAll", "testSome", "testAny"}

OpTypes ==
    CollectiveNames \union WaitNames \union {NoName, "strided"} \union
    {source[i].fn : i \in DOMAIN source} \union {source[i].var : i \in DOMAIN source}

TextOp ==
    [kind : TextKinds, path : Seq((Nat \ {0}) \X {1, 2}), type : OpTypes, blocking : BOOLEAN,
     comm : Nat \X Nat, mem : Array, slot : Nat, count : Nat, args : Seq(Argument)]

Made(path, kind, type, comm) ==
    [kind |-> kind, path |-> path, type |-> type, blocking |-> TRUE, comm |-> comm,
     mem |-> NoArray, slot |-> 0, count |-> 0, args |-> <<>>]

Op(i, kind, type, comm) == Made(source[i].path, kind, type, comm)

WithRequest(op, mem, slot) == [op EXCEPT !.blocking = FALSE, !.mem = mem, !.slot = slot]

WaitFor(i, mem, count) == [Op(i, "wait", "waitAll", None) EXCEPT !.mem = mem, !.count = count]

NewWorld == <<0, Len(text[0]) + 1>>

OpAt(c) == text[c[1]][c[2]]
IsWorld(c) == OpAt(c).kind = "world"

InitialText(calls) ==
    [i \in 0 .. Len(calls) |->
        IF i = 0 THEN <<>>
        ELSE <<Made(calls[i].path,
                    IF calls[i].fn \in BranchKinds THEN calls[i].fn ELSE "call", calls[i].fn, None)>>]

-----------------------------------------------------------------------------
(***************************************************************************)
(* The walk comes to i.  What a handler does with the call: ops take its   *)
(* place, with a commWorld at the start of @main when they use NewWorld.   *)
(***************************************************************************)
Visit(i) ==
    /\ status = "walk"
    /\ i = at + 1
    /\ i \in DOMAIN source
    /\ at' = i
    /\ UNCHANGED <<hasMain, usedModel, source, declared>>

IsCall(i) == text[i] # <<>> /\ text[i][1].kind = "call"

ReplaceBy(i, comm, ops) ==
    /\ text' = [text EXCEPT ![i] = ops,
                            ![0] = IF comm = NewWorld THEN Append(@, Made(<<>>, "world", NoName, None))
                                   ELSE @]
    /\ UNCHANGED status

(* Tables <<name of a function, what it becomes>>.                         *)
Listed(table)    == {row[1] : row \in table}
Entry(table, fn) == (CHOOSE row \in table : row[1] = fn)[2]

(* A mapping in which key is set, or set anew.                             *)
Put(map, key, value) == [k \in DOMAIN map \union {key} |-> IF k = key THEN value ELSE map[k]]

(***************************************************************************)
(* replaceMemrefByValue: all loads of a variable, wherever they are, become*)
(* uses of the value.  A later call finds no used load of the variable.    *)
(* That the pass breaks off at a user of the variable that is no load,     *)
(* store, call or cast is left out: nothing is claimed of such a run.      *)
(***************************************************************************)
ReplaceLoads(v, what, comm, i) ==
    values' = IF v \in DOMAIN values THEN values
              ELSE Put(values, v, [what |-> what, comm |-> comm, by |-> i])

(* The value of the call itself, uses of which become uses of the new one. *)
ReplaceResult(v, what, comm, i) ==
    values' = Put(values, v, [what |-> what, comm |-> comm, by |-> i])

(* Variant: of whatever communicator the rank or size is.                  *)
HoldsQuery(v, what) == v \in DOMAIN values /\ values[v].what = what

HoldsWorld(v, what) ==
    v \in DOMAIN values /\ values[v].what = what /\ values[v].comm # None /\ IsWorld(values[v].comm)

(***************************************************************************)
(* The arguments are looked up one after the other in the one valueMapping *)
(* of a conversion, whatever their role, and else must be supported.       *)
(***************************************************************************)
Unmapped(map, args, k) ==
    args[k][2] \notin DOMAIN map /\ \A j \in 1 .. (k - 1) : args[j][2] # args[k][2]

ArgsKnown(map, args, supported) ==
    \A k \in DOMAIN args : Unmapped(map, args, k) => args[k] \in supported

ArgsMapped(map, args) ==
    LET new == {k \in DOMAIN args : Unmapped(map, args, k)} IN
    [v \in DOMAIN map \union {args[k][2] : k \in new} |->
        IF v \in DOMAIN map THEN map[v] ELSE args[CHOOSE k \in new : args[k][2] = v][1]]

ArgsConverted(map, args) == [k \in DOMAIN args |-> <<ArgsMapped(map, args)[args[k][2]], args[k][2]>>]

(***************************************************************************)
(* llvm_unreachable or a use of an erased operation: the pass breaks off   *)
(* and nothing is said any more.                                           *)
(***************************************************************************)
BreakOff(i, how) ==
    /\ Visit(i)
    /\ status' = how
    /\ UNCHANGED <<text, values, mpi, nccl, shmem>>

=============================================================================
