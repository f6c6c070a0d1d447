------------------------------ MODULE ConvertNCCL ------------------------------
(***************************************************************************)
(* convertApiCallNCCL: what becomes of a call of an NCCL function.         *)
(*                                                                         *)
(* nccl is the static valueMapping (comms, args, see ConvertMPI), the      *)
(* static implicit world, and                                              *)
(*   blocking  commValueToBoolMap, by communicator                         *)
(*   started   ncclGroupStarted                                            *)
(*   group     ncclGroupReqMemref, the array for the open group, NoArray   *)
(*             where it is null or names an erased operation               *)
(*   num       ncclGroupNumReqs, firstExecutionForGroup being num = 0      *)
(***************************************************************************)
EXTENDS Conversion

InitNCCL ==
    nccl = [comms |-> <<>>, args |-> <<>>, implicit |-> None, blocking |-> <<>>,
            started |-> FALSE, group |-> NoArray, num |-> 0]

NCCLCollectives ==
    {<<"ncclBroadcast", "bcast">>, <<"ncclBcast", "bcast">>, <<"ncclReduce", "reduce">>,
     <<"ncclAllGather", "allgather">>, <<"ncclAllReduce", "allreduce">>,
     <<"ncclReduceScatter", "reduceScatter">>}

NCCLMessages == {<<"ncclSend", "send">>, <<"ncclRecv", "recv">>}
NCCLQueries ==
    {<<"ncclCommUserRank", "rank">>, <<"ncclCommCuDevice", "device">>, <<"ncclCommCount", "size">>}
NCCLInits  == {"ncclCommInitRank", "ncclCommInitRankConfig"}
NCCLMemory == {"ncclMemAlloc", "ncclMemFree"}

NCCLCommunication == Listed(NCCLCollectives \union NCCLMessages)

SupportedNCCL ==
    {<<"datatype", "2">>, <<"reduceOp", "0">>, <<"stream", "variable">>, <<"config", "null">>}

-----------------------------------------------------------------------------
(* getNewCommNCCL, without and with implicitWorld                          *)
CommKnownNCCL(i) == source[i].comm \in DOMAIN nccl.comms
CommNCCL(i)      == nccl.comms[source[i].comm]
ImplicitNCCL     == IF nccl.implicit = None THEN NewWorld ELSE nccl.implicit

ConvertibleNCCL(i) == CommKnownNCCL(i) /\ ArgsKnown(nccl.args, source[i].args, SupportedNCCL)

-----------------------------------------------------------------------------
(***************************************************************************)
(* The communicator for all processes whose number the size argument is.   *)
(* It blocks unless a configuration says that it does not.  The operand    *)
(* that is searched for the store of 0 to blocking is operand 2, the first *)
(* of args and the unique id: the configuration itself is operand 4.       *)
(***************************************************************************)
UniqueId    == <<"id", "variable">>
Nonblocking == <<"config", "nonblocking">>

ConfigOperand(i) == source[i].args[1]
IsBlocking(i)    == source[i].fn = "ncclCommInitRankConfig" => ConfigOperand(i) # Nonblocking

InitRankNCCL(i) ==
    /\ source[i].fn \in NCCLInits
    /\ HoldsWorld(source[i].var, "size")
    /\ ReplaceBy(i, NewWorld, <<Op(i, "process", source[i].fn, None)>>)
    /\ nccl' = [nccl EXCEPT !.comms = Put(@, source[i].result, NewWorld),
                            !.blocking = Put(@, NewWorld, IsBlocking(i))]
    /\ UNCHANGED values

GroupStartNCCL(i) ==
    /\ source[i].fn = "ncclGroupStart"
    /\ ReplaceBy(i, None, <<>>)
    /\ nccl' = [nccl EXCEPT !.started = TRUE]
    /\ UNCHANGED values

(***************************************************************************)
(* The end of a group waits for the requests of all operations since the   *)
(* last end, and starts anew.                                              *)
(***************************************************************************)
(* Variants: without ncclGroupNumReqs = 0; without ncclGroupStarted = false.*)
GroupKeepsCount == [nccl EXCEPT !.started = FALSE, !.group = NoArray]
GroupStaysOpen  == [nccl EXCEPT !.group = NoArray, !.num = 0]

GroupClosed == [nccl EXCEPT !.started = FALSE, !.group = NoArray, !.num = 0]

GroupEndNCCL(i) ==
    /\ source[i].fn = "ncclGroupEnd"
    /\ nccl.group # NoArray
    /\ ReplaceBy(i, None, <<WaitFor(i, nccl.group, nccl.num)>>)
    /\ nccl' = GroupClosed
    /\ UNCHANGED values

(***************************************************************************)
(* Collectives, sends and receives.  In a group their requests are         *)
(* collected (handleGroupReqs); out of one they block if the communicator  *)
(* is a blocking one.                                                      *)
(***************************************************************************)
KindNCCL(fn) == IF fn \in Listed(NCCLMessages) THEN Entry(NCCLMessages, fn) ELSE "coll"
TypeNCCL(fn) == IF fn \in Listed(NCCLMessages) THEN NoName ELSE Entry(NCCLCollectives, fn)

OpNCCL(i) ==
    [Op(i, KindNCCL(source[i].fn), TypeNCCL(source[i].fn), CommNCCL(i)) EXCEPT
        !.args = ArgsConverted(nccl.args, source[i].args),
        !.blocking = nccl.blocking[CommNCCL(i)]]

GroupArray(i) == IF nccl.num = 0 THEN ArrayOf(i) ELSE nccl.group

CommunicateNCCL(i) ==
    /\ source[i].fn \in NCCLCommunication
    /\ ConvertibleNCCL(i)
    /\ LET mapped == [nccl EXCEPT !.args = ArgsMapped(@, source[i].args)] IN
        \/ /\ nccl.started
           /\ ReplaceBy(i, None, <<WithRequest(OpNCCL(i), GroupArray(i), nccl.num)>>)
           /\ nccl' = [mapped EXCEPT !.group = GroupArray(i), !.num = @ + 1]
        \/ /\ ~ nccl.started
           /\ ReplaceBy(i, None, <<OpNCCL(i)>>)
           /\ nccl' = mapped
    /\ UNCHANGED values

SplitNCCL(i) ==
    /\ source[i].fn = "ncclCommSplit"
    /\ ConvertibleNCCL(i)
    /\ ReplaceBy(i, None, <<Op(i, "split", NoName, CommNCCL(i))>>)
    /\ nccl' = [nccl EXCEPT !.comms = Put(@, source[i].result, <<i, 1>>),
                            !.blocking = Put(@, <<i, 1>>, nccl.blocking[CommNCCL(i)])]
    /\ UNCHANGED values

DestroyNCCL(i) ==
    /\ source[i].fn = "ncclCommDestroy"
    /\ CommKnownNCCL(i)
    /\ ReplaceBy(i, None, IF IsWorld(CommNCCL(i)) THEN <<>>
                          ELSE <<Op(i, "destroy", NoName, CommNCCL(i))>>)
    /\ UNCHANGED <<values, nccl>>

QueryNCCL(i) ==
    /\ source[i].fn \in Listed(NCCLQueries)
    /\ CommKnownNCCL(i)
    /\ ReplaceBy(i, None, <<Op(i, "query", source[i].var, CommNCCL(i))>>)
    /\ ReplaceLoads(source[i].var, Entry(NCCLQueries, source[i].fn), CommNCCL(i), i)
    /\ UNCHANGED nccl

MemoryNCCL(i) ==
    /\ source[i].fn \in NCCLMemory
    /\ ReplaceBy(i, ImplicitNCCL, <<Op(i, "memory", source[i].fn, ImplicitNCCL)>>)
    /\ nccl' = [nccl EXCEPT !.implicit = ImplicitNCCL]
    /\ UNCHANGED values

UnknownNCCL(i) ==
    \/ source[i].fn \in NCCLCommunication \union {"ncclCommSplit"} /\ ~ ConvertibleNCCL(i)
    \/ source[i].fn \in Listed(NCCLQueries) \union {"ncclCommDestroy"} /\ ~ CommKnownNCCL(i)
    \/ source[i].fn \in NCCLInits /\ ~ HoldsWorld(source[i].var, "size")

-----------------------------------------------------------------------------
(* "ncclCommGetAsyncError" is listed, too, though its calls are kept.      *)
CalleesNCCL ==
    NCCLCommunication \union Listed(NCCLQueries) \union NCCLInits \union NCCLMemory \union
    {"ncclGroupStart", "ncclGroupEnd", "ncclCommSplit", "ncclCommDestroy", "ncclCommGetAsyncError"}

ConvertNCCL(i) ==
    /\ Visit(i)
    /\ \/ InitRankNCCL(i) \/ GroupStartNCCL(i) \/ GroupEndNCCL(i) \/ CommunicateNCCL(i)
       \/ SplitNCCL(i) \/ DestroyNCCL(i) \/ QueryNCCL(i) \/ MemoryNCCL(i)
    /\ UNCHANGED <<mpi, shmem>>

(* A group without an operation has no array: null or erased.              *)
BreakOffNCCL(i) ==
    \/ UnknownNCCL(i) /\ BreakOff(i, "unreachable")
    \/ /\ source[i].fn = "ncclGroupEnd" /\ nccl.group = NoArray
       /\ BreakOff(i, "undefined")

=============================================================================
