---------------------------- MODULE ConvertApiCalls ----------------------------
(***************************************************************************)
(* The pass convert-apiCalls-to-spmd: its walk over the calls of @main,    *)
(* the conversion each call is given to, and the cleaning up after it.     *)
(***************************************************************************)
EXTENDS ConvertMPI, ConvertNCCL, ConvertSHMEM

(* The collectives that calls become are operations of the dialect.        *)
ASSUME ConversionAssumption == CollectiveNames \subseteq CollTypes

(* Functions that no conversion handles, one for each prefix and one for   *)
(* none: calls of them stay.                                               *)
NotHandled == {"MPI_Gatherv", "shmem_putmem", "ncclRedOpCreatePreMulSum", "printf"}

Converters(model) ==
    CASE model = "mpi"   -> {"mpi"}
      [] model = "shmem" -> {"shmem"}
      [] model \in {"nccl", "mpi+nccl"} -> {"mpi", "nccl"}
      [] model = "mpi+shmem"  -> {"mpi", "shmem"}
      [] model = "shmem+nccl" -> {"shmem", "nccl"}
      [] OTHER -> {}

Handles(converter) ==
    CASE converter = "mpi"   -> CalleesMPI
      [] converter = "shmem" -> (CalleesSHMEM \ {"shmem_alloc"}) \union {"shmem_malloc"}
      [] converter = "nccl"  -> CalleesNCCL \ {"ncclCommGetAsyncError"}

(* Variant: the declarations of all three models are erased.               *)
DeletesAll(converter) == CalleesMPI \union CalleesSHMEM \union CalleesNCCL

Deletes(converter) ==
    CASE converter = "mpi"   -> CalleesMPI
      [] converter = "shmem" -> CalleesSHMEM
      [] converter = "nccl"  -> CalleesNCCL

(***************************************************************************)
(* Where two conversions are in use, the prefix of the function's name     *)
(* tells which one gets the call; no call is handled by two.               *)
(***************************************************************************)
Converted(i, converter) ==
    /\ IsCall(i)
    /\ converter \in Converters(usedModel)
    /\ source[i].fn \in Handles(converter)

-----------------------------------------------------------------------------
(***************************************************************************)
(* applyPatternsAndFoldGreedily after the walk: operations without effects *)
(* whose results are not used are erased, and with them conditionals and   *)
(* loops with nothing else in them; so are the stores to arrays that only  *)
(* are stored to (MemrefErase), and functions that are not called          *)
(* (FuncErase).  A query whose value replaced the loads of its variable, or*)
(* the result of a call, is taken to be used by something with effects     *)
(* beside it.                                                              *)
(***************************************************************************)
CleansUp == usedModel \in {"mpi", "shmem", "nccl", "mpi+shmem"}

Places == UNION {{i} \X DOMAIN text[i] : i \in DOMAIN text}

IsNeeded(p) ==
    LET op == OpAt(p) IN
        \/ op.kind \notin PureKinds \union BranchKinds \union {"gone"}
        \/ /\ op.kind = "query"
           /\ \/ op.type \in DOMAIN values /\ values[op.type].by = p[1]
              \/ source[p[1]].fn \in SHMEMQuerying

(* Variant: a communicator that is only split is taken to be unused.       *)
LiveForNeeded ==
    {p \in Places :
        \/ IsNeeded(p)
        \/ OpAt(p).kind \in BranchKinds
        \/ OpAt(p).kind \in CommKinds /\ \E q \in Places : IsNeeded(q) /\ OpAt(q).comm = p}

LivePlaces ==
    LET Within(i) == {p \in Places : \E d \in DOMAIN OpAt(p).path : OpAt(p).path[d][1] = i}
        live[i \in 0 .. Len(source)] ==
            {p \in Places : p[1] = i /\
                \/ IsNeeded(p)
                \/ OpAt(p).kind \in BranchKinds /\ \E q \in Within(i) : IsNeeded(q)
                \/ /\ OpAt(p).kind \in CommKinds
                   /\ \E j \in (i + 1) .. Len(source) : \E q \in live[j] : OpAt(q).comm = p}
    IN  UNION {live[i] : i \in 0 .. Len(source)}

AwaitedArrays == {OpAt(p).mem : p \in {q \in Places : OpAt(q).kind = "wait"}}

Gone == Made(<<>>, "gone", NoName, None)

CleanedUp ==
    [i \in DOMAIN text |-> [k \in DOMAIN text[i] |->
        IF <<i, k>> \notin LivePlaces THEN Gone
        ELSE IF text[i][k].mem \notin AwaitedArrays
             THEN [text[i][k] EXCEPT !.mem = NoArray, !.slot = 0]
        ELSE text[i][k]]]

Called == {OpAt(p).type : p \in {q \in Places : OpAt(q).kind = "call"}}

-----------------------------------------------------------------------------
(***************************************************************************)
(* What a compiler checks of a source program: calls have the arguments of *)
(* their functions, and a communicator variable is of one library.  All    *)
(* functions that set a communicator are ones that are handled.            *)
(***************************************************************************)
Setting == {"MPI_Comm_split", "ncclCommSplit", "shmem_team_split_strided"} \union NCCLInits
WithoutComm == MPIMemory \union NCCLMemory \union WorldCalls

CallTyped(call) ==
    /\ call.fn # "shmem_alloc"
    /\ call.result # World
    /\ call.result # NoName <=> call.fn \in Setting
    /\ call.fn \in WithoutComm => call.comm = NoName
    /\ call.fn \in MPICommunicating =>
            (call.req = NoName <=> Entry(MPICommunication, call.fn).blocking)
    /\ call.fn \in MPIStarted => call.req # NoName
    /\ call.fn = "ncclCommInitRankConfig" =>
            Len(call.args) = 2 /\ call.args[1] = UniqueId /\ call.args[2][1] = "config"

OneLibrary(call, setting) ==
    setting.result # NoName /\ setting.result \in {call.comm, call.result} =>
        \A a, b \in {"mpi", "nccl", "shmem"} :
            call.fn \in Handles(a) /\ setting.fn \in Handles(b) => a = b

CallsTyped ==
    /\ source \in Seq(ApiCall)
    /\ \A i \in DOMAIN source : CallTyped(source[i])
    /\ \A i, d \in DOMAIN source : OneLibrary(source[i], source[d])

(* What MLIR's structure guarantees of @main, as of the other passes' input.*)
SourceNested ==
    LET prog == [i \in DOMAIN source |-> [kind |-> source[i].fn, path |-> source[i].path]] IN
        PathsNested(prog) /\ SubtreesConsecutive(prog)

InitStatics == InitMPI /\ InitNCCL /\ InitSHMEM

InitConversion ==
    /\ hasMain \in BOOLEAN /\ usedModel \in STRING
    /\ CallsTyped /\ SourceNested
    /\ text = InitialText(source)
    /\ at = 0
    /\ values = <<>>
    /\ InitStatics
    /\ status = "start"
    /\ declared = {source[i].fn : i \in DOMAIN source} \ BranchKinds

Unchanged == UNCHANGED <<hasMain, usedModel, source, values, mpi, nccl, shmem>>

StartWalk ==
    /\ status = "start" /\ hasMain /\ Converters(usedModel) # {}
    /\ status' = "walk"
    /\ Unchanged /\ UNCHANGED <<text, at, declared>>

(* signalPassFailure                                                       *)
FailConversion ==
    /\ status = "start" /\ (~ hasMain \/ Converters(usedModel) = {})
    /\ status' = "failed"
    /\ Unchanged /\ UNCHANGED <<text, at, declared>>

ConvertCall(i) ==
    \/ Converted(i, "mpi")   /\ (ConvertMPI(i) \/ BreakOffMPI(i))
    \/ Converted(i, "nccl")  /\ (ConvertNCCL(i) \/ BreakOffNCCL(i))
    \/ Converted(i, "shmem") /\ (ConvertSHMEM(i) \/ BreakOffSHMEM(i))

PassCall(i) ==
    /\ \A converter \in {"mpi", "nccl", "shmem"} : ~ Converted(i, converter)
    /\ Visit(i)
    /\ UNCHANGED <<text, values, mpi, nccl, shmem, status>>

Finish ==
    /\ status = "walk" /\ at = Len(source)
    /\ status' = "done"
    /\ LET kept == declared \ UNION {Deletes(c) : c \in Converters(usedModel)} IN
        IF CleansUp
        THEN text' = CleanedUp /\ declared' = kept \intersect Called
        ELSE declared' = kept /\ UNCHANGED text
    /\ Unchanged /\ UNCHANGED at

NextConversion ==
    \/ StartWalk \/ FailConversion \/ Finish
    \/ \E i \in DOMAIN source : ConvertCall(i) \/ PassCall(i)

SpecConversion == InitConversion /\ [][NextConversion]_convVars

-----------------------------------------------------------------------------
(***************************************************************************)
(* Types of the variables; communicators name operations of the text.      *)
(***************************************************************************)
TypeOKConversion ==
    /\ hasMain \in BOOLEAN /\ usedModel \in STRING
    /\ CallsTyped
    /\ DOMAIN text = 0 .. Len(source)
    /\ \A i \in DOMAIN text : text[i] \in Seq(TextOp)
    /\ at \in 0 .. Len(source)
    /\ \A v \in DOMAIN values : values[v].comm \in Places
    /\ \A v \in DOMAIN mpi.comms : mpi.comms[v] \in Places
    /\ \A v \in DOMAIN nccl.comms : nccl.comms[v] \in DOMAIN nccl.blocking
    /\ \A v \in DOMAIN shmem.comms : shmem.comms[v] \in Places
    /\ {mpi.implicit, nccl.implicit, shmem.world} \subseteq Places \union {None}
    /\ nccl.started \in BOOLEAN /\ nccl.num \in Nat /\ nccl.group \in Array
    /\ nccl.num = 0 <=> nccl.group = NoArray
    /\ status \in {"start", "walk", "done", "failed", "unreachable", "undefined"}
    /\ declared \subseteq STRING

-----------------------------------------------------------------------------
(***************************************************************************)
(* The program that the next passes get: the operations of the text that   *)
(* check-collectives looks at, numbered anew.                              *)
(***************************************************************************)
Before(p, q) == p[1] < q[1] \/ (p[1] = q[1] /\ p[2] <= q[2])

Checked == {p \in Places : OpAt(p).kind \in Kinds}
NumberOf(p) == Cardinality({q \in Checked : Before(q, p)})

ConvertedProgram ==
    [n \in 1 .. Cardinality(Checked) |->
        LET op == OpAt(CHOOSE p \in Checked : NumberOf(p) = n) IN
        [kind |-> op.kind,
         path |-> [d \in DOMAIN op.path |-> <<NumberOf(<<op.path[d][1], 1>>), op.path[d][2]>>],
         type |-> IF op.kind = "coll" THEN op.type ELSE TypeOrder[1],
         blocking |-> op.blocking,
         comm |-> IF op.comm \in Checked THEN NumberOf(op.comm) ELSE 0,
         bounds |-> <<>>, mv |-> FALSE, execKind |-> "All",
         executedBy |-> {}, executedNotBy |-> {}]]

(* Each communicator variable is set once, and where it is used it is set. *)
SetOnce ==
    \A i \in DOMAIN source : source[i].comm \notin {World, NoName} =>
        \E d \in 1 .. (i - 1) :
            /\ Encloses(source[d].path, source[i].path)
            /\ {e \in DOMAIN source : source[e].result = source[i].comm} = {d}

(***************************************************************************)
(* If each communicator variable of the source program is set once, what   *)
(* the conversion leaves is a program as the other passes take it for      *)
(* granted (WellFormed), also when unused operations have been erased; and *)
(* communicators dominate their uses: none is defined in a region that its *)
(* users are not in.                                                       *)
(***************************************************************************)
ConvertedWellFormed ==
    status = "done" /\ SetOnce =>
        /\ WellFormed(ConvertedProgram)
        /\ \A p \in Places : OpAt(p).comm # None =>
                LET c == OpAt(p).comm IN
                    /\ OpAt(c).kind \in CommKinds
                    /\ Before(c, p) /\ Encloses(OpAt(c).path, OpAt(p).path)

-----------------------------------------------------------------------------
(***************************************************************************)
(* What a program means by a communicator: the call that has set it last,  *)
(* and whether it consists of all processes: one that NCCL is to make for  *)
(* as many as there are, or a split of all by a constant color, does.      *)
(***************************************************************************)
Setters(calls, v, i) == {d \in 1 .. (i - 1) : calls[d].result = v}

LastSetter(calls, v, i) ==
    CHOOSE d \in Setters(calls, v, i) : \A e \in Setters(calls, v, i) : e <= d

Querying == Listed(MPIQueries \union NCCLQueries \union SHMEMQueries)

QueriesOf(calls, v) == {i \in DOMAIN calls : calls[i].var = v /\ calls[i].fn \in Querying}

MeansAllIf(calls, all, i) ==
    \/ calls[i].comm \in {World, NoName}
    \/ /\ Setters(calls, calls[i].comm, i) # {}
       /\ LET d == LastSetter(calls, calls[i].comm, i) IN
            \/ /\ calls[d].fn \in NCCLInits
               /\ \A q \in QueriesOf(calls, calls[d].var) : q < d /\ all[q]
            \/ calls[d].constColor /\ all[d]

MeansAll(calls) ==
    LET all[i \in 0 .. Len(calls)] == i = 0 \/ MeansAllIf(calls, all, i) IN all

(* A variable holds one rank or size, and a communicator that is split for *)
(* a constant color, with the rank in all processes as the key, has all.   *)
(* (The color is the same in all processes: no branch has another one.)    *)
NothingMisread(calls) ==
    /\ \A i \in DOMAIN calls : Cardinality(QueriesOf(calls, calls[i].var)) <= 1
    /\ \A i \in DOMAIN calls :
        calls[i].fn = "MPI_Comm_split" /\ calls[i].constColor => MeansAll(calls)[i]

(***************************************************************************)
(* An operation is on the communicator that its call named: the one made   *)
(* for the call that set the variable last, whichever conversions were     *)
(* used in between; and it is a commWorld only if all processes belong to  *)
(* it, where ranks and sizes are in variables of their own.                *)
(***************************************************************************)
CommunicatorMeant ==
    status \in {"walk", "done"} =>
        \A p \in Places : OpAt(p).comm # None =>
            LET i == p[1]
                c == OpAt(p).comm
            IN
                /\ source[i].comm = World => c[1] = 0
                /\ source[i].comm \notin {World, NoName} =>
                    c[1] = 0 \/ c[1] = LastSetter(source, source[i].comm, i)
                /\ NothingMisread(source) /\ IsWorld(c) => MeansAll(source)[i]

-----------------------------------------------------------------------------
(***************************************************************************)
(* What a program means by a wait: the calls whose requests are in the     *)
(* elements it names, or which are in the group that it ends.              *)
(***************************************************************************)
RequestCalls ==
    {i \in DOMAIN source : source[i].req # NoName /\
        (source[i].fn \in MPICommunicating \/ source[i].fn \in MPIStarted)}

FirstNamed(i) == IF source[i].idx = <<>> THEN 0 ELSE source[i].idx[1]

ElementsNamed(i) ==
    LET count == IF source[i].fn \in Listed(MPISingleWaits) THEN 1 ELSE source[i].count IN
    FirstNamed(i) .. (FirstNamed(i) + count - 1)

GroupOf(i) ==
    {j \in 1 .. (i - 1) : source[j].fn \in NCCLCommunication /\
        \E s \in 1 .. (j - 1) :
            /\ source[s].fn = "ncclGroupStart"
            /\ \A e \in s .. i : source[e].fn = "ncclGroupEnd" => e = i}

AwaitedBy(i) ==
    IF source[i].fn \in MPIExchanges THEN {i}
    ELSE IF source[i].fn = "ncclGroupEnd" THEN GroupOf(i)
    ELSE {j \in RequestCalls : /\ j < i /\ source[j].req = source[i].req
                               /\ FirstNamed(j) \in ElementsNamed(i)}

StoredFor(op, i) ==
    {q \in Places : /\ q[1] <= i /\ ~ OpAt(q).blocking
                    /\ OpAt(q).mem = op.mem /\ OpAt(q).slot \in 0 .. (op.count - 1)}

(* Waits that name an array from its start; variables of MPI_Isendrecv for *)
(* one such call alone, which names them from the start, too.              *)
PlainRequests ==
    \A i \in DOMAIN source :
        /\ source[i].fn \in MPIWaiting \union MPIStarted => source[i].idx \in {<<>>, <<0>>}
        /\ source[i].fn \in MPIStarted =>
            \A j \in RequestCalls : source[j].req = source[i].req => j = i

(***************************************************************************)
(* A wait is for the requests of exactly the calls that the program waits  *)
(* for there, though their operations share arrays across calls; and no    *)
(* two operations of a group share an element.                             *)
(***************************************************************************)
WaitsMeant ==
    status \in {"walk", "done"} /\ PlainRequests =>
        \A p \in Places : OpAt(p).kind = "wait" /\ p[1] <= at =>
            LET stored == StoredFor(OpAt(p), p[1]) IN
                /\ {q[1] : q \in stored} = AwaitedBy(p[1])
                /\ OpAt(p).mem.call # 0 =>
                    \A q, r \in stored : OpAt(q).slot = OpAt(r).slot => q = r

(***************************************************************************)
(* What a program means by a call's being blocking: it is not when the call*)
(* has a request or is in an open group of NCCL, nor on a communicator that*)
(* is configured not to block, or split from one that is.                  *)
(***************************************************************************)
InOpenGroup(i) ==
    /\ source[i].fn \in NCCLCommunication
    /\ \E s \in 1 .. (i - 1) :
        /\ source[s].fn = "ncclGroupStart"
        /\ \A e \in s .. (i - 1) : source[e].fn # "ncclGroupEnd"

HasRequest(i) ==
    i \in RequestCalls \/ source[i].fn \in MPIExchanges \/ InOpenGroup(i)

NonblockingIf(calls, nonblocking, i) ==
    /\ Setters(calls, calls[i].comm, i) # {}
    /\ LET d == LastSetter(calls, calls[i].comm, i) IN
        \/ calls[d].fn = "ncclCommInitRankConfig" /\ calls[d].args[2] = Nonblocking
        \/ calls[d].fn = "ncclCommSplit" /\ nonblocking[d]

MeansNonblocking(calls) ==
    LET nonblocking[i \in 1 .. Len(calls)] == NonblockingIf(calls, nonblocking, i) IN nonblocking

Communications == {p \in Places : OpAt(p).kind \in {"coll", "send", "recv"}}

(***************************************************************************)
(* An operation whose call has a request or is in an open group never      *)
(* blocks, whatever groups were opened and closed before it; and one whose *)
(* call has none does, on each communicator that is not configured to be   *)
(* non-blocking.                                                           *)
(***************************************************************************)
BlocksAsMeant ==
    status \in {"walk", "done"} =>
        \A p \in Communications :
            /\ HasRequest(p[1]) => ~ OpAt(p).blocking
            /\ ~ HasRequest(p[1]) /\ ~ MeansNonblocking(source)[p[1]] => OpAt(p).blocking

(***************************************************************************)
(* An operation on a communicator configured to be non-blocking does not   *)
(* block, as the search of ncclCommInitRankConfig for the configuration    *)
(* has it.                                                                 *)
(***************************************************************************)
ConfigurationKept ==
    status \in {"walk", "done"} =>
        \A p \in Communications : MeansNonblocking(source)[p[1]] => ~ OpAt(p).blocking

(***************************************************************************)
(* An argument keeps its role: no reduction operation that is not supported*)
(* gets past the conversion as something else of the same value.           *)
(***************************************************************************)
ArgumentsMeant ==
    status \in {"walk", "done"} =>
        \A p \in Places : OpAt(p).kind \in {"coll", "send", "recv"} =>
            OpAt(p).args = source[p[1]].args

(***************************************************************************)
(* A function that is still called is still declared, for each combination *)
(* of models, except for ncclCommGetAsyncError: its calls are kept.        *)
(***************************************************************************)
CallsDeclared == status = "done" => Called \ {"ncclCommGetAsyncError"} \subseteq declared

=============================================================================
