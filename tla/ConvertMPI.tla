------------------------------ MODULE ConvertMPI ------------------------------
(***************************************************************************)
(* convertApiCallMPI: what becomes of a call of an MPI function.           *)
(*                                                                         *)
(* mpi is the static valueMapping, by what it maps, and the statics of     *)
(* getNewCommMPI:                                                          *)
(*   comms     the operation for each communicator variable, and for the   *)
(*             constant MPI_COMM_WORLD (one constant, as the pass runs on  *)
(*             canonicalized code)                                         *)
(*   requests  the request variables that an array of the dialect replaces *)
(*   args      the role in which each constant argument was first met      *)
(*   implicit  the commWorld for calls without a communicator              *)
(***************************************************************************)
EXTENDS Conversion

InitMPI == mpi = [comms |-> <<>>, requests |-> {}, args |-> <<>>, implicit |-> None]

(* Functions as <<blocking, with a request, what they become>>.            *)
MPIGathers ==
    {<<"MPI_Barrier", "MPI_Ibarrier", "barrier">>, <<"MPI_Bcast", "MPI_Ibcast", "bcast">>,
     <<"MPI_Gather", "MPI_Igather", "gather">>, <<"MPI_Allgather", "MPI_Iallgather", "allgather">>}

MPIReductions ==
    {<<"MPI_Alltoall", "MPI_Ialltoall", "alltoall">>, <<"MPI_Reduce", "MPI_Ireduce", "reduce">>,
     <<"MPI_Allreduce", "MPI_Iallreduce", "allreduce">>}

MPIScans == {<<"MPI_Scan", "MPI_Iscan", "scan">>, <<"MPI_Exscan", "MPI_Iexscan", "exscan">>}

MPIScatters ==
    {<<"MPI_Scatter", "MPI_Iscatter", "scatter">>,
     <<"MPI_Reduce_scatter_block", "MPI_Ireduce_scatter_block", "reduceScatter">>}

MPIMessages ==
    {<<"MPI_Send", "MPI_Isend", "send">>, <<"MPI_Ssend", "MPI_Issend", "send">>,
     <<"MPI_Bsend", "MPI_Ibsend", "send">>, <<"MPI_Recv", "MPI_Irecv", "recv">>}

Row(kind, type, blocking) == [kind |-> kind, type |-> type, blocking |-> blocking]

MPICommunication ==
    LET colls == MPIGathers \union MPIReductions \union MPIScans \union MPIScatters IN
        {<<r[1], Row("coll", r[3], TRUE)>> : r \in colls} \union
        {<<r[2], Row("coll", r[3], FALSE)>> : r \in colls} \union
        {<<r[1], Row(r[3], NoName, TRUE)>> : r \in MPIMessages} \union
        {<<r[2], Row(r[3], NoName, FALSE)>> : r \in MPIMessages}

MPICommunicating == Listed(MPICommunication)
MPIExchanges     == {"MPI_Sendrecv", "MPI_Sendrecv_replace"}
MPIStarted       == {"MPI_Isendrecv", "MPI_Isendrecv_replace"}
MPIQueries       == {<<"MPI_Comm_rank", "rank">>, <<"MPI_Comm_size", "size">>}
MPIProcess       == {"MPI_Init", "MPI_Finalize"}
MPIMemory        == {"MPI_Alloc_mem", "MPI_Free_mem"}
MPISingleWaits   == {<<"MPI_Wait", "waitAll">>, <<"MPI_Test", "testAll">>}
MPIWaits ==
    {<<"MPI_Waitall", "waitAll">>, <<"MPI_Waitsome", "waitSome">>, <<"MPI_Waitany", "waitAny">>,
     <<"MPI_Testall", "testAll">>, <<"MPI_Testsome", "testSome">>, <<"MPI_Testany", "testAny">>}
MPIWaiting == Listed(MPISingleWaits \union MPIWaits)

SupportedMPI == {<<"datatype", "MPI_INT">>, <<"datatype", "MPI_BYTE">>, <<"reduceOp", "MPI_SUM">>}

-----------------------------------------------------------------------------
(* getNewCommMPI, without and with implicitWorld                           *)
CommKnownMPI(i) == source[i].comm \in DOMAIN mpi.comms \union {World}
CommMPI(i) == IF source[i].comm \in DOMAIN mpi.comms THEN mpi.comms[source[i].comm] ELSE NewWorld
CommsMPI(i) == Put(mpi.comms, source[i].comm, CommMPI(i))

ImplicitMPI == IF mpi.implicit = None THEN NewWorld ELSE mpi.implicit

ConvertibleMPI(i) == CommKnownMPI(i) /\ ArgsKnown(mpi.args, source[i].args, SupportedMPI)

(* Variant: the element that a polygeist.subindex names is not looked at.  *)
StoreSlotZero(i) == 0

(* setNewReqMemref: a request variable named as a whole means element 0.   *)
StoreSlot(i) == IF source[i].idx = <<>> THEN 0 ELSE source[i].idx[1]

NextStaticMPI(i) ==
    [mpi EXCEPT !.comms = CommsMPI(i), !.args = ArgsMapped(@, source[i].args)]

OpMPI(i, kind, type) ==
    [Op(i, kind, type, CommMPI(i)) EXCEPT !.args = ArgsConverted(mpi.args, source[i].args)]

-----------------------------------------------------------------------------
ProcessMPI(i) ==
    /\ source[i].fn \in MPIProcess
    /\ ReplaceBy(i, None, <<Op(i, "process", source[i].fn, None)>>)
    /\ UNCHANGED <<values, mpi>>

QueryMPI(i) ==
    /\ source[i].fn \in Listed(MPIQueries)
    /\ CommKnownMPI(i)
    /\ ReplaceBy(i, CommMPI(i), <<Op(i, "query", source[i].var, CommMPI(i))>>)
    /\ ReplaceLoads(source[i].var, Entry(MPIQueries, source[i].fn), CommMPI(i), i)
    /\ mpi' = NextStaticMPI(i)

(***************************************************************************)
(* Collectives, sends and receives: those that are not blocking store      *)
(* their request to the array that replaces their request variable.        *)
(***************************************************************************)
CommunicateMPI(i) ==
    /\ source[i].fn \in MPICommunicating
    /\ ConvertibleMPI(i)
    /\ LET row == Entry(MPICommunication, source[i].fn)
           op  == OpMPI(i, row.kind, row.type)
       IN  IF row.blocking
           THEN /\ ReplaceBy(i, CommMPI(i), <<op>>)
                /\ mpi' = NextStaticMPI(i)
           ELSE /\ ReplaceBy(i, CommMPI(i),
                             <<WithRequest(op, ArrayFor(source[i].req), StoreSlot(i))>>)
                /\ mpi' = [NextStaticMPI(i) EXCEPT !.requests = @ \union {source[i].req}]
    /\ UNCHANGED values

(* A send and a receive whose requests are in an array of their own.       *)
Exchange(i) ==
    <<WithRequest(OpMPI(i, "send", NoName), ArrayOf(i), 0),
      WithRequest(OpMPI(i, "recv", NoName), ArrayOf(i), 1)>>

SendrecvMPI(i) ==
    /\ source[i].fn \in MPIExchanges
    /\ ConvertibleMPI(i)
    /\ ReplaceBy(i, CommMPI(i), Append(Exchange(i), WaitFor(i, ArrayOf(i), 2)))
    /\ mpi' = NextStaticMPI(i)
    /\ UNCHANGED values

(***************************************************************************)
(* createWaitAll: every MPI_Wait that is left and names the variable as a  *)
(* whole becomes a wait for the two requests, wherever it is.              *)
(***************************************************************************)
WaitsNaming(r) ==
    {j \in DOMAIN source : IsCall(j) /\ source[j].fn = "MPI_Wait" /\ source[j].req = r
                           /\ source[j].idx = <<>>}

IsendrecvMPI(i) ==
    /\ source[i].fn \in MPIStarted
    /\ ConvertibleMPI(i)
    /\ text' = [j \in DOMAIN text |->
                    IF j = i THEN Exchange(i)
                    ELSE IF j \in WaitsNaming(source[i].req) THEN <<WaitFor(j, ArrayOf(i), 2)>>
                    ELSE IF j = 0 /\ CommMPI(i) = NewWorld
                         THEN Append(text[0], Made(<<>>, "world", NoName, None))
                    ELSE text[j]]
    /\ mpi' = NextStaticMPI(i)
    /\ UNCHANGED <<values, status>>

(* It erases users while it iterates over them, maybe the walk's next call.*)
ErasedWhileIterating(i) ==
    /\ source[i].fn \in MPIStarted
    /\ ConvertibleMPI(i)
    /\ WaitsNaming(source[i].req) # {}

(***************************************************************************)
(* getMemref finds the element that the request argument names, but it is  *)
(* not looked at: the wait is for the first elements of the array.  The    *)
(* statuses must be a variable, too: getNewStatusesMPI looks for it, or, in*)
(* MPI_Waitany and MPI_Testany, replaceMemrefByValue, which breaks off at a*)
(* status that is none, such as MPI_STATUS_IGNORE.  (What the flags and    *)
(* counts become is left out.)                                             *)
(***************************************************************************)
WaitKnown(i) ==
    source[i].req \in mpi.requests /\ ArgsKnown(<<>>, source[i].args, {<<"status", "variable">>})

WaitMPI(i) ==
    /\ WaitKnown(i)
    /\ \/ /\ source[i].fn \in Listed(MPISingleWaits)
          /\ ReplaceBy(i, None, <<[WaitFor(i, ArrayFor(source[i].req), 1)
                                    EXCEPT !.type = Entry(MPISingleWaits, source[i].fn)]>>)
       \/ /\ source[i].fn \in Listed(MPIWaits)
          /\ ReplaceBy(i, None, <<[WaitFor(i, ArrayFor(source[i].req), source[i].count)
                                    EXCEPT !.type = Entry(MPIWaits, source[i].fn)]>>)
    /\ UNCHANGED <<values, mpi>>

(***************************************************************************)
(* A split by a constant color with the rank in a commWorld as the key is  *)
(* taken for all processes again.                                          *)
(***************************************************************************)
DuplicatesWorld(i) == source[i].constColor /\ HoldsWorld(source[i].var, "rank")

SplitMPI(i) ==
    /\ source[i].fn = "MPI_Comm_split"
    /\ \/ /\ DuplicatesWorld(i)
          /\ ReplaceBy(i, None, <<Op(i, "world", NoName, None)>>)
          /\ mpi' = [mpi EXCEPT !.comms = Put(@, source[i].result, <<i, 1>>)]
       \/ /\ ~ DuplicatesWorld(i) /\ CommKnownMPI(i)
          /\ ReplaceBy(i, CommMPI(i), <<Op(i, "split", NoName, CommMPI(i))>>)
          /\ mpi' = [mpi EXCEPT !.comms = Put(CommsMPI(i), source[i].result, <<i, 1>>)]
    /\ UNCHANGED values

FreeMPI(i) ==
    /\ source[i].fn = "MPI_Comm_free"
    /\ source[i].comm \in DOMAIN mpi.comms
    /\ ReplaceBy(i, None, <<Op(i, "destroy", NoName, CommMPI(i))>>)
    /\ UNCHANGED <<values, mpi>>

MemoryMPI(i) ==
    /\ source[i].fn \in MPIMemory
    /\ ReplaceBy(i, ImplicitMPI, <<Op(i, "memory", source[i].fn, ImplicitMPI)>>)
    /\ mpi' = [mpi EXCEPT !.implicit = ImplicitMPI]
    /\ UNCHANGED values

RequestFreeMPI(i) ==
    /\ source[i].fn = "MPI_Request_free"
    /\ ReplaceBy(i, None, <<>>)
    /\ UNCHANGED <<values, mpi>>

(* The communicator, an argument or the request is none that is supported. *)
UnknownMPI(i) ==
    \/ /\ source[i].fn \in MPICommunicating \union MPIExchanges \union MPIStarted
       /\ ~ ConvertibleMPI(i)
    \/ source[i].fn \in Listed(MPIQueries) /\ ~ CommKnownMPI(i)
    \/ /\ source[i].fn \in MPIWaiting
       /\ ~ WaitKnown(i)
    \/ source[i].fn = "MPI_Comm_split" /\ ~ DuplicatesWorld(i) /\ ~ CommKnownMPI(i)
    \/ source[i].fn = "MPI_Comm_free" /\ source[i].comm \notin DOMAIN mpi.comms

-----------------------------------------------------------------------------
CalleesMPI ==
    MPICommunicating \union MPIExchanges \union MPIStarted \union Listed(MPIQueries) \union
    MPIProcess \union MPIMemory \union MPIWaiting \union
    {"MPI_Comm_split", "MPI_Comm_free", "MPI_Request_free"}

ConvertMPI(i) ==
    /\ Visit(i)
    /\ \/ ProcessMPI(i) \/ QueryMPI(i) \/ CommunicateMPI(i) \/ SendrecvMPI(i) \/ IsendrecvMPI(i)
       \/ WaitMPI(i) \/ SplitMPI(i) \/ FreeMPI(i) \/ MemoryMPI(i) \/ RequestFreeMPI(i)
    /\ UNCHANGED <<nccl, shmem>>

BreakOffMPI(i) ==
    \/ UnknownMPI(i) /\ BreakOff(i, "unreachable")
    \/ ErasedWhileIterating(i) /\ BreakOff(i, "undefined")

=============================================================================
