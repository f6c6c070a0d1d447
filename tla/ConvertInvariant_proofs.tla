----------------------- MODULE ConvertInvariant_proofs -----------------------
(***************************************************************************)
(* Proofs about convert-apiCalls-to-spmd, for every program of calls that a*)
(* compiler accepts (CallsTyped).                                          *)
(***************************************************************************)
EXTENDS ConvertApiCalls, FiniteSetTheorems, WellFoundedInduction, TLAPS

(* A non-empty set of natural numbers has a least element.                 *)
LEMMA LeastNumber ==
    ASSUME NEW T, T \subseteq Nat, T # {}
    PROVE  \E x \in T : \A y \in T : x <= y
<1>1. IsWellFoundedOn(OpToRel(<, Nat), Nat)
  BY NatLessThanWellFounded, Zenon
<1>2. \E x \in T : \A y \in T : ~ (<<y, x>> \in OpToRel(<, Nat))
  BY <1>1, WFMin, Zenon
<1>3. \A x, y \in Nat : x < y => <<x, y>> \in OpToRel(<, Nat)
  BY Zenon DEF OpToRel
<1>4. \E x \in T : \A y \in T : ~ (y < x)
  BY <1>2, <1>3, Zenon
<1> QED
  BY <1>4

(* A non-empty set of natural numbers with a bound has a greatest one.     *)
LEMMA GreatestNumber ==
    ASSUME NEW n \in Nat, NEW T, T \subseteq 0 .. n, T # {}
    PROVE  \E x \in T : \A y \in T : y <= x
<1> DEFINE U == {n - x : x \in T}
<1>1. U \subseteq Nat /\ U # {}
  <2>1. \A x \in T : n - x \in Nat
    OBVIOUS
  <2> QED
    BY <2>1
<1>2. PICK u \in U : \A w \in U : u <= w
  <2> HIDE DEF U
  <2> QED
    BY <1>1, LeastNumber
<1>3. PICK x \in T : u = n - x
  OBVIOUS
<1>4. ASSUME NEW y \in T PROVE y <= x
  <2>1. n - y \in U
    OBVIOUS
  <2>2. n - x <= n - y
    BY <1>2, <1>3, <2>1
  <2> QED
    BY <2>2
<1> QED
  BY <1>4

-----------------------------------------------------------------------------
(* The entries of a table are found by their names.                        *)
LEMMA EntryListed ==
    ASSUME NEW table, NEW fn \in Listed(table)
    PROVE  \E row \in table : row[1] = fn /\ Entry(table, fn) = row[2]
<1>1. \E row \in table : row[1] = fn
  BY DEF Listed
<1>2. (CHOOSE row \in table : row[1] = fn) \in table /\ (CHOOSE row \in table : row[1] = fn)[1] = fn
  BY <1>1, Zenon
<1> QED
  BY <1>2, Zenon DEF Entry

-----------------------------------------------------------------------------
(***************************************************************************)
(* The names of functions: those of one library are none of another.       *)
(***************************************************************************)
LEMMA InList ==
    ASSUME NEW table, NEW fn
    PROVE  fn \in Listed(table) <=> \E row \in table : fn = row[1]
BY DEF Listed

CommunicatingNames ==
    {"MPI_Barrier", "MPI_Ibarrier", "MPI_Bcast", "MPI_Ibcast", "MPI_Gather", "MPI_Igather",
     "MPI_Allgather", "MPI_Iallgather", "MPI_Alltoall", "MPI_Ialltoall", "MPI_Reduce",
     "MPI_Ireduce", "MPI_Allreduce", "MPI_Iallreduce", "MPI_Scan", "MPI_Iscan", "MPI_Exscan",
     "MPI_Iexscan", "MPI_Scatter", "MPI_Iscatter", "MPI_Reduce_scatter_block",
     "MPI_Ireduce_scatter_block", "MPI_Send", "MPI_Isend", "MPI_Ssend", "MPI_Issend",
     "MPI_Bsend", "MPI_Ibsend", "MPI_Recv", "MPI_Irecv"}

NCCLNames ==
    {"ncclBroadcast", "ncclBcast", "ncclReduce", "ncclAllGather", "ncclAllReduce",
     "ncclReduceScatter", "ncclSend", "ncclRecv", "ncclCommUserRank", "ncclCommCuDevice",
     "ncclCommCount", "ncclCommInitRank", "ncclCommInitRankConfig", "ncclMemAlloc",
     "ncclMemFree", "ncclGroupStart", "ncclGroupEnd", "ncclCommSplit", "ncclCommDestroy",
     "ncclCommGetAsyncError"}

SHMEMNames ==
    {"shmem_team_sync", "shmem_int_broadcast", "shmem_broadcastmem", "shmem_int_sum_reduce",
     "shmem_int_alltoall", "shmem_int_collect", "shmem_int_fcollect", "shmem_team_my_pe",
     "shmem_team_n_pes", "shmem_my_pe", "shmem_n_pes", "shmem_init", "shmem_finalize",
     "shmem_malloc", "shmem_alloc", "shmem_realloc", "shmem_free", "shmem_sync_all",
     "shmem_team_split_strided", "shmem_team_destroy"}

LEMMA CommunicatingNamed ==
    ASSUME NEW fn \in MPICommunicating
    PROVE  fn \in CommunicatingNames
<1> DEFINE colls == MPIGathers \union MPIReductions \union MPIScans \union MPIScatters
<1>1. PICK row \in MPICommunication : fn = row[1]
  BY InList, Zenon DEF MPICommunicating
<1>2. \/ \E r \in colls : \E n \in {r[1], r[2]} : \E w : row = <<n, w>>
      \/ \E r \in MPIMessages : \E n \in {r[1], r[2]} : \E w : row = <<n, w>>
  BY Zenon DEF MPICommunication
<1>3. \A r \in MPIGathers \union MPIReductions :
        r[1] \in CommunicatingNames /\ r[2] \in CommunicatingNames
  BY DEF MPIGathers, MPIReductions, CommunicatingNames
<1>4. \A r \in MPIScans \union MPIScatters :
        r[1] \in CommunicatingNames /\ r[2] \in CommunicatingNames
  BY DEF MPIScans, MPIScatters, CommunicatingNames
<1>5. \A r \in MPIMessages : r[1] \in CommunicatingNames /\ r[2] \in CommunicatingNames
  BY DEF MPIMessages, CommunicatingNames
<1>6. \/ \E r \in colls : row[1] \in {r[1], r[2]}
      \/ \E r \in MPIMessages : row[1] \in {r[1], r[2]}
  <2> HIDE DEF colls
  <2> QED
    BY <1>2
<1> QED
  BY <1>1, <1>3, <1>4, <1>5, <1>6

LEMMA NCCLNamed == CalleesNCCL \subseteq NCCLNames
<1>1. \A fn : fn \in Listed(NCCLCollectives \union NCCLMessages) =>
        fn \in {"ncclBroadcast", "ncclBcast", "ncclReduce", "ncclAllGather", "ncclAllReduce",
                "ncclReduceScatter", "ncclSend", "ncclRecv"}
  BY InList DEF NCCLCollectives, NCCLMessages
<1>2. \A fn : fn \in Listed(NCCLQueries) =>
        fn \in {"ncclCommUserRank", "ncclCommCuDevice", "ncclCommCount"}
  BY InList DEF NCCLQueries
<1> QED
  BY <1>1, <1>2 DEF CalleesNCCL, NCCLInits, NCCLMemory, NCCLNames, NCCLCommunication

LEMMA SHMEMNamed == CalleesSHMEM \subseteq SHMEMNames
<1>1. \A fn : fn \in Listed(TeamCollectives) => fn \in SHMEMNames
  BY InList DEF TeamCollectives, SHMEMNames
<1>2. \A fn : fn \in SHMEMQuerying => fn \in SHMEMNames
  BY InList DEF SHMEMQuerying, SHMEMQueries, TeamQueries, WorldQueries, SHMEMNames
<1> QED
  BY <1>1, <1>2 DEF CalleesSHMEM, SHMEMProcess, SHMEMNames

LEMMA MPINotNCCL == CalleesMPI \intersect NCCLNames = {}
<1>1. \A fn : fn \in MPIWaiting => fn \notin NCCLNames
  BY InList DEF MPIWaiting, MPISingleWaits, MPIWaits, NCCLNames
<1>2. \A fn : fn \in Listed(MPIQueries) => fn \notin NCCLNames
  BY InList DEF MPIQueries, NCCLNames
<1>3. CommunicatingNames \intersect NCCLNames = {}
  BY DEF CommunicatingNames, NCCLNames
<1> QED
  BY <1>1, <1>2, <1>3, CommunicatingNamed
  DEF CalleesMPI, MPIExchanges, MPIStarted, MPIProcess, MPIMemory, NCCLNames

LEMMA MPINotSHMEM == CalleesMPI \intersect SHMEMNames = {}
<1>1. \A fn : fn \in MPIWaiting => fn \notin SHMEMNames
  BY InList DEF MPIWaiting, MPISingleWaits, MPIWaits, SHMEMNames
<1>2. \A fn : fn \in Listed(MPIQueries) => fn \notin SHMEMNames
  BY InList DEF MPIQueries, SHMEMNames
<1>3. CommunicatingNames \intersect SHMEMNames = {}
  BY DEF CommunicatingNames, SHMEMNames
<1> QED
  BY <1>1, <1>2, <1>3, CommunicatingNamed
  DEF CalleesMPI, MPIExchanges, MPIStarted, MPIProcess, MPIMemory, SHMEMNames

LEMMA NCCLNotSHMEM == NCCLNames \intersect SHMEMNames = {}
BY DEF NCCLNames, SHMEMNames

LEMMA HandledNames ==
    /\ Handles("mpi") = CalleesMPI
    /\ Handles("nccl") \subseteq CalleesNCCL /\ "ncclCommGetAsyncError" \notin Handles("nccl")
    /\ Handles("shmem") \subseteq SHMEMNames
<1>1. /\ Handles("mpi") = CalleesMPI
      /\ Handles("nccl") = CalleesNCCL \ {"ncclCommGetAsyncError"}
      /\ Handles("shmem") = (CalleesSHMEM \ {"shmem_alloc"}) \union {"shmem_malloc"}
  BY DEF Handles
<1>2. "shmem_malloc" \in SHMEMNames
  BY DEF SHMEMNames
<1> QED
  BY <1>1, <1>2, SHMEMNamed

LEMMA LibrariesApart ==
    ASSUME NEW fn
    PROVE  /\ fn \in Handles("mpi") => fn \notin NCCLNames \union SHMEMNames
           /\ fn \in Handles("nccl") => fn \in NCCLNames /\ fn \notin CalleesMPI \union SHMEMNames
           /\ fn \in Handles("shmem") => fn \in SHMEMNames /\ fn \notin CalleesMPI \union NCCLNames
BY HandledNames, NCCLNamed, MPINotNCCL, MPINotSHMEM, NCCLNotSHMEM, Zenon

(* All functions that set a communicator are handled by their library.     *)
LEMMA SettersHandled ==
    /\ "MPI_Comm_split" \in Handles("mpi")
    /\ "ncclCommSplit" \in Handles("nccl") /\ NCCLInits \subseteq Handles("nccl")
    /\ "shmem_team_split_strided" \in Handles("shmem")
BY DEF Handles, CalleesMPI, CalleesNCCL, CalleesSHMEM, NCCLInits

-----------------------------------------------------------------------------
(* What each row of the table of MPI's communication says.                 *)
LEMMA MPIRows ==
    ASSUME NEW fn \in MPICommunicating
    PROVE  /\ Entry(MPICommunication, fn).kind \in {"coll", "send", "recv"}
           /\ Entry(MPICommunication, fn).type \in CollectiveNames \union {NoName}
           /\ Entry(MPICommunication, fn).kind = "coll" =>
                Entry(MPICommunication, fn).type \in CollectiveNames
           /\ Entry(MPICommunication, fn).blocking \in BOOLEAN
<1> DEFINE colls == MPIGathers \union MPIReductions \union MPIScans \union MPIScatters
<1>1. \A r \in colls : r[3] \in CollectiveNames
  BY DEF MPIGathers, MPIReductions, MPIScans, MPIScatters, CollectiveNames
<1>2. \A r \in MPIMessages : r[3] \in {"send", "recv"}
  BY DEF MPIMessages
<1>3. PICK row \in MPICommunication : Entry(MPICommunication, fn) = row[2]
  BY EntryListed, Zenon DEF MPICommunicating
<1>4. \/ \E r \in colls : \E b \in BOOLEAN : \E n : row = <<n, Row("coll", r[3], b)>>
      \/ \E r \in MPIMessages : \E b \in BOOLEAN : \E n : row = <<n, Row(r[3], NoName, b)>>
  BY Zenon DEF MPICommunication
<1> HIDE DEF colls
<1>5. ASSUME NEW r \in colls, NEW b \in BOOLEAN, NEW n, row = <<n, Row("coll", r[3], b)>>
      PROVE  row[2].kind = "coll" /\ row[2].type \in CollectiveNames /\ row[2].blocking \in BOOLEAN
  <2>1. row[2] = [kind |-> "coll", type |-> r[3], blocking |-> b]
    BY <1>5 DEF Row
  <2> QED
    BY <1>1, <2>1
<1>6. ASSUME NEW r \in MPIMessages, NEW b \in BOOLEAN, NEW n, row = <<n, Row(r[3], NoName, b)>>
      PROVE  row[2].kind \in {"send", "recv"} /\ row[2].type = NoName /\ row[2].blocking \in BOOLEAN
  <2>1. row[2] = [kind |-> r[3], type |-> NoName, blocking |-> b]
    BY <1>6 DEF Row
  <2>2. r[3] \in {"send", "recv"}
    BY <1>2
  <2> QED
    BY <2>1, <2>2
<1> QED
  BY <1>3, <1>4, <1>5, <1>6

-----------------------------------------------------------------------------
(***************************************************************************)
(* What the recursive definition of MeansAll says.                         *)
(***************************************************************************)

(* The last of the calls that set a variable is one of them.               *)
LEMMA LastSetterSet ==
    ASSUME NEW calls, NEW v, NEW i \in Nat, Setters(calls, v, i) # {}
    PROVE  /\ LastSetter(calls, v, i) \in Setters(calls, v, i)
           /\ LastSetter(calls, v, i) \in 1 .. (i - 1)
           /\ \A e \in Setters(calls, v, i) : e <= LastSetter(calls, v, i)
<1>1. Setters(calls, v, i) \subseteq 1 .. (i - 1)
  BY DEF Setters
<1>2. \E d \in Setters(calls, v, i) : \A e \in Setters(calls, v, i) : e <= d
  <2>1. Setters(calls, v, i) \subseteq 0 .. i
    BY <1>1
  <2> QED
    BY <2>1, GreatestNumber
<1>3. /\ LastSetter(calls, v, i) \in Setters(calls, v, i)
      /\ \A e \in Setters(calls, v, i) : e <= LastSetter(calls, v, i)
  BY <1>2, Zenon DEF LastSetter
<1> QED
  BY <1>1, <1>3

(* It depends on the calls before only.                                    *)
LEMMA MeansAllLocal ==
    ASSUME NEW calls \in Seq(ApiCall), NEW i \in DOMAIN calls, NEW f, NEW g,
           \A j \in 0 .. (i - 1) : f[j] <=> g[j],
           MeansAllIf(calls, f, i)
    PROVE  MeansAllIf(calls, g, i)
<1>1. CASE calls[i].comm \in {World, NoName}
  BY <1>1, Zenon DEF MeansAllIf
<1>2. CASE calls[i].comm \notin {World, NoName}
  <2> DEFINE S == Setters(calls, calls[i].comm, i)
             d == LastSetter(calls, calls[i].comm, i)
  <2>1. S # {} /\ (\/ /\ calls[d].fn \in NCCLInits
                      /\ \A q \in QueriesOf(calls, calls[d].var) : q < d /\ f[q]
                   \/ calls[d].constColor /\ f[d])
    BY <1>2, Zenon DEF MeansAllIf
  <2>2. d \in 1 .. (i - 1)
    BY <2>1, LastSetterSet
  <2>3. d \in 0 .. (i - 1) /\ f[d] <=> d \in 0 .. (i - 1) /\ g[d]
    BY Zenon
  <2>4. ASSUME NEW q \in QueriesOf(calls, calls[d].var), q < d
        PROVE  f[q] <=> g[q]
    <3>1. q \in DOMAIN calls
      BY DEF QueriesOf
    <3>2. q \in 0 .. (i - 1)
      BY <2>2, <2>4, <3>1
    <3> QED
      BY <3>2, Zenon
  <2>5. d \in 0 .. (i - 1)
    BY <2>2
  <2>6. \/ /\ calls[d].fn \in NCCLInits
           /\ \A q \in QueriesOf(calls, calls[d].var) : q < d /\ g[q]
        \/ calls[d].constColor /\ g[d]
    BY <2>1, <2>3, <2>4, <2>5, Zenon
  <2> QED
    BY <2>1, <2>6, Zenon DEF MeansAllIf
<1> QED
  BY <1>1, <1>2

LEMMA MeansAllExists ==
    ASSUME NEW calls \in Seq(ApiCall)
    PROVE  \E f : f = [i \in 0 .. Len(calls) |-> i = 0 \/ MeansAllIf(calls, f, i)]
<1> DEFINE Solved(n) == \E f : f = [i \in 0 .. n |-> i = 0 \/ MeansAllIf(calls, f, i)]
           T == {n \in 0 .. Len(calls) : ~ Solved(n)}
<1>1. SUFFICES ASSUME T # {} PROVE FALSE
  <2>1. Len(calls) \in 0 .. Len(calls)
    OBVIOUS
  <2> QED
    BY <1>1, <2>1, Zenon
<1>2. PICK n \in T : \A m \in T : n <= m
  <2>1. T \subseteq Nat
    OBVIOUS
  <2> HIDE DEF T
  <2> QED
    BY <1>1, <2>1, LeastNumber
<1>3. CASE n = 0
  <2> DEFINE f == [i \in 0 .. 0 |-> TRUE]
  <2>1. f = [i \in 0 .. 0 |-> i = 0 \/ MeansAllIf(calls, f, i)]
    <3>1. \A i \in 0 .. 0 : i = 0
      OBVIOUS
    <3>2. \A i \in 0 .. 0 : TRUE = (i = 0 \/ MeansAllIf(calls, f, i))
      BY <3>1, Zenon
    <3> QED
      BY <3>2, Zenon
  <2>2. Solved(0)
    BY <2>1, Zenon
  <2> QED
    BY <1>3, <2>2, Zenon
<1>4. CASE n # 0
  <2>1. n \in 1 .. Len(calls) /\ n - 1 \in 0 .. Len(calls) /\ ~ (n <= n - 1)
    BY <1>4
  <2>2. PICK f : f = [i \in 0 .. (n - 1) |-> i = 0 \/ MeansAllIf(calls, f, i)]
    BY <1>2, <2>1, Zenon
  <2> DEFINE g == [i \in 0 .. n |-> IF i = n THEN n = 0 \/ MeansAllIf(calls, f, n) ELSE f[i]]
  <2>3. \A j \in 0 .. (n - 1) : j \in 0 .. n /\ j # n
    BY <2>1
  <2>4. \A j \in 0 .. (n - 1) : g[j] = f[j]
    BY <2>3, Zenon
  <2>5. ASSUME NEW i \in 0 .. n
        PROVE  g[i] = (i = 0 \/ MeansAllIf(calls, g, i))
    <3>1. ASSUME NEW k \in 1 .. n PROVE MeansAllIf(calls, f, k) <=> MeansAllIf(calls, g, k)
      <4>1. \A j \in 0 .. (k - 1) : j \in 0 .. (n - 1)
        BY <2>1
      <4>2. \A j \in 0 .. (k - 1) : (f[j] <=> g[j]) /\ (g[j] <=> f[j])
        BY <2>4, <4>1, Zenon
      <4>3. k \in DOMAIN calls
        BY <2>1
      <4> HIDE DEF g
      <4> QED
        BY <4>2, <4>3, MeansAllLocal, Zenon
    <3>2. CASE i = n
      <4>1. g[n] = (n = 0 \/ MeansAllIf(calls, f, n)) /\ n # 0 /\ n \in 1 .. n
        BY <2>1
      <4>2. MeansAllIf(calls, f, n) <=> MeansAllIf(calls, g, n)
        BY <3>1, <4>1
      <4> HIDE DEF g
      <4>3. (n = 0 \/ MeansAllIf(calls, f, n)) = (i = 0 \/ MeansAllIf(calls, g, i))
        BY <3>2, <4>1, <4>2
      <4>4. g[i] = (n = 0 \/ MeansAllIf(calls, f, n))
        BY <3>2, <4>1, Zenon
      <4> QED
        BY <4>3, <4>4, Zenon
    <3>3. CASE i # n
      <4>1. i \in 0 .. (n - 1) /\ (i # 0 => i \in 1 .. n)
        BY <2>1, <3>3
      <4>2. g[i] = f[i]
        BY <2>4, <4>1, Zenon
      <4>3. f[i] = (i = 0 \/ MeansAllIf(calls, f, i))
        BY <2>2, <4>1, Zenon
      <4>4. i # 0 => (MeansAllIf(calls, f, i) <=> MeansAllIf(calls, g, i))
        BY <3>1, <4>1
      <4> HIDE DEF g
      <4>5. (i = 0 \/ MeansAllIf(calls, f, i)) = (i = 0 \/ MeansAllIf(calls, g, i))
        BY <4>4
      <4> QED
        BY <4>2, <4>3, <4>5, Zenon
    <3> HIDE DEF g
    <3> QED
      BY <3>2, <3>3
  <2>6. g = [i \in 0 .. n |-> i = 0 \/ MeansAllIf(calls, g, i)]
    BY <2>5, Zenon
  <2>7. Solved(n)
    <3> HIDE DEF g
    <3> QED
      BY <2>6, Zenon
  <2> QED
    BY <2>7, Zenon
<1> QED
  BY <1>3, <1>4, Zenon

LEMMA MeansAllSays ==
    ASSUME NEW calls \in Seq(ApiCall), NEW i \in DOMAIN calls, MeansAllIf(calls, MeansAll(calls), i)
    PROVE  MeansAll(calls)[i]
<1> DEFINE all == MeansAll(calls)
<1>1. all = [j \in 0 .. Len(calls) |-> j = 0 \/ MeansAllIf(calls, all, j)]
  BY MeansAllExists, Zenon DEF MeansAll
<1>2. i \in 0 .. Len(calls)
  OBVIOUS
<1>3. all[i] = (i = 0 \/ MeansAllIf(calls, all, i))
  <2> HIDE DEF all
  <2> QED
    BY <1>1, <1>2, Zenon
<1> QED
  BY <1>3, Zenon

-----------------------------------------------------------------------------
(***************************************************************************)
(* The inductive invariant.                                                *)
(***************************************************************************)

(* Roles of arguments, as a mapping of constants has them.                 *)
Roles == {"datatype", "reduceOp", "stream", "id", "config", "status"}
RolesKnown(map) == \A v \in DOMAIN map : map[v] \in Roles

StaticsTyped ==
    /\ mpi = [comms |-> mpi.comms, requests |-> mpi.requests, args |-> mpi.args,
              implicit |-> mpi.implicit]
    /\ nccl = [comms |-> nccl.comms, args |-> nccl.args, implicit |-> nccl.implicit,
               blocking |-> nccl.blocking, started |-> nccl.started, group |-> nccl.group,
               num |-> nccl.num]
    /\ shmem = [comms |-> shmem.comms, world |-> shmem.world]
    /\ RolesKnown(mpi.args) /\ RolesKnown(nccl.args)
    /\ mpi.requests \subseteq {source[i].req : i \in DOMAIN source}

(* An operation of the text that makes a communicator.                     *)
MakesComm(c) == c \in Places /\ c[1] <= at /\ OpAt(c).kind \in CommKinds

(* The calls ahead of the walk stand as they were, or are waits already.   *)
Untouched(i) ==
    \/ text[i] = InitialText(source)[i]
    \/ /\ source[i].fn = "MPI_Wait"
       /\ Len(text[i]) = 1 /\ text[i][1].kind = "wait" /\ text[i][1].comm = None

(* No conversion in use handles the call.                                  *)
Left(i) == \A c \in Converters(usedModel) : source[i].fn \notin Handles(c)

-----------------------------------------------------------------------------
(* What is known of the communicator c made for variable v in call d.      *)
AllOf(d) ==
    \/ source[d].fn \in NCCLInits /\ \A q \in QueriesOf(source, source[d].var) : q < d /\ MeansAll(source)[q]
    \/ source[d].constColor /\ MeansAll(source)[d]

LastSet(d, v, n) ==
    /\ d \in 1 .. n /\ source[d].result = v
    /\ \A e \in 1 .. n : source[e].result = v => e <= d

CommOfVariable(c, v, converter) ==
    \E d \in 1 .. at :
        /\ LastSet(d, v, at)
        /\ source[d].fn \in Handles(converter)
        /\ c[1] \in {0, d}
        /\ NothingMisread(source) /\ IsWorld(c) => AllOf(d)

CommsMeant(map, converter) ==
    \A v \in DOMAIN map :
        /\ MakesComm(map[v])
        /\ v # NoName
        /\ v = World => map[v][1] = 0
        /\ v # World => converter \in Converters(usedModel) /\ CommOfVariable(map[v], v, converter)

WorldKept(c) == c # None => MakesComm(c) /\ c[1] = 0

ValuesMeant ==
    \A v \in DOMAIN values :
        /\ MakesComm(values[v].comm)
        /\ values[v].by \in 1 .. at /\ values[v].by \in QueriesOf(source, v)
        /\ NothingMisread(source) /\ IsWorld(values[v].comm) => MeansAll(source)[values[v].by]

CommsBlock == \A c \in DOMAIN nccl.blocking : nccl.blocking[c] = TRUE

GroupMeant ==
    /\ CommsBlock
    /\ "nccl" \in Converters(usedModel) =>
        (nccl.started <=>
            \E s \in 1 .. at : /\ source[s].fn = "ncclGroupStart"
                               /\ \A e \in s .. at : source[e].fn # "ncclGroupEnd")

StaticsMeant ==
    /\ CommsMeant(mpi.comms, "mpi") /\ CommsMeant(nccl.comms, "nccl") /\ CommsMeant(shmem.comms, "shmem")
    /\ WorldKept(mpi.implicit) /\ WorldKept(nccl.implicit) /\ WorldKept(shmem.world)
    /\ ValuesMeant /\ GroupMeant

-----------------------------------------------------------------------------
(* What is known of the operations of the text.                            *)
CommMeant(i, c) ==
    /\ source[i].comm \in {World, NoName} => c[1] = 0
    /\ source[i].comm \notin {World, NoName} => c[1] = 0 \/ c[1] = LastSetter(source, source[i].comm, i)
    /\ NothingMisread(source) /\ IsWorld(c) => MeansAll(source)[i]

BlocksFor(i) ==
    ~ (i \in RequestCalls \/ source[i].fn \in MPIExchanges \/ InOpenGroup(i))

OpMeant(p) ==
    /\ OpAt(p).comm # None => CommMeant(p[1], OpAt(p).comm)
    /\ OpAt(p).kind \in {"coll", "send", "recv"} => (OpAt(p).blocking <=> BlocksFor(p[1]))
    /\ OpAt(p).kind = "call" =>
        /\ p[1] \in DOMAIN source
        /\ OpAt(p).type = source[p[1]].fn /\ source[p[1]].fn \notin BranchKinds
        /\ p[1] <= at => Left(p[1])

OpsMeant == \A p \in Places : OpMeant(p)

Walking ==
    /\ \A i \in DOMAIN source : i > at => Untouched(i)
    /\ \A p \in Places : OpAt(p).comm # None => MakesComm(OpAt(p).comm)
    /\ StaticsMeant
    /\ declared = {source[i].fn : i \in DOMAIN source} \ BranchKinds

ConvInv ==
    /\ TypeOKConversion /\ StaticsTyped
    /\ status \in {"start", "walk"} => Walking
    /\ status \in {"start", "walk", "done"} => OpsMeant
    /\ CallsDeclared

-----------------------------------------------------------------------------
(***************************************************************************)
(* Types of operations and arguments.                                      *)
(***************************************************************************)
LEMMA NoneTyped == None \in Nat \X Nat /\ None[1] = 0 /\ None[2] = 0
BY DEF None

(* Types that operations of handlers have.                                 *)
LEMMA OpTyped ==
    ASSUME CallsTyped, NEW i \in DOMAIN source,
           NEW k \in TextKinds, NEW t \in OpTypes, NEW c \in Nat \X Nat
    PROVE  /\ Op(i, k, t, c) \in TextOp
           /\ Op(i, k, t, c).kind = k
           /\ Op(i, k, t, c).type = t
           /\ Op(i, k, t, c).comm = c
           /\ Op(i, k, t, c).blocking
           /\ Op(i, k, t, c).mem = NoArray
<1>1. source[i] \in ApiCall
  BY DEF CallsTyped
<1>2. source[i].path \in Seq((Nat \ {0}) \X {1, 2})
  BY <1>1 DEF ApiCall
<1>3. NoArray \in Array
  BY DEF NoArray, Array
<1>4. <<>> \in Seq(Argument)
  OBVIOUS
<1> DEFINE op == Op(i, k, t, c)
<1>5. op = [kind |-> k, path |-> source[i].path, type |-> t, blocking |-> TRUE,
            comm |-> c, mem |-> NoArray, slot |-> 0, count |-> 0, args |-> <<>>]
  BY Zenon DEF Op, Made
<1> QED
  BY <1>2, <1>3, <1>4, <1>5 DEF TextOp

LEMMA WaitTyped ==
    ASSUME CallsTyped, NEW i \in DOMAIN source, NEW mem \in Array, NEW count \in Nat
    PROVE  /\ WaitFor(i, mem, count) \in TextOp
           /\ WaitFor(i, mem, count).kind = "wait"
           /\ WaitFor(i, mem, count).comm = None
<1> DEFINE kind == "wait"
           type == "waitAll"
           op == Op(i, kind, type, None)
<1>1. kind \in TextKinds /\ type \in OpTypes
  BY DEF TextKinds, OpTypes, WaitNames
<1>2. None \in Nat \X Nat
  BY NoneTyped
<1>3. op \in TextOp /\ op.kind = kind /\ op.comm = None
  <2> HIDE DEF kind, type
  <2> QED
    BY <1>1, <1>2, OpTyped, SMTT(30)
<1>4. WaitFor(i, mem, count) = [op EXCEPT !.mem = mem, !.count = count]
  BY Zenon DEF WaitFor
<1> HIDE DEF op
<1> QED
  BY <1>3, <1>4 DEF TextOp

LEMMA RequestTyped ==
    ASSUME NEW op \in TextOp, NEW mem \in Array, NEW slot \in Nat
    PROVE  /\ WithRequest(op, mem, slot) \in TextOp
           /\ WithRequest(op, mem, slot).kind = op.kind
           /\ WithRequest(op, mem, slot).comm = op.comm
           /\ ~ WithRequest(op, mem, slot).blocking
BY DEF WithRequest, TextOp

(* The commWorld at the start of @main.                                    *)
StartWorld == Made(<<>>, "world", NoName, None)

LEMMA WorldTyped ==
    StartWorld \in TextOp /\ StartWorld.kind = "world" /\ StartWorld.comm = None
<1>1. StartWorld = [kind |-> "world", path |-> <<>>, type |-> NoName, blocking |-> TRUE,
                    comm |-> None, mem |-> NoArray, slot |-> 0, count |-> 0, args |-> <<>>]
  BY Zenon DEF StartWorld, Made
<1>2. NoArray \in Array
  BY DEF NoArray, Array
<1>3. "world" \in TextKinds /\ NoName \in OpTypes
  BY DEF TextKinds, OpTypes, PureKinds
<1>4. <<>> \in Seq(Argument) /\ <<>> \in Seq((Nat \ {0}) \X {1, 2})
  OBVIOUS
<1> QED
  BY <1>1, <1>2, <1>3, <1>4, NoneTyped DEF TextOp

(* The mapping of arguments gives every argument a role.                   *)
LEMMA ArgsTyped ==
    ASSUME NEW map, RolesKnown(map), NEW args \in Seq(Argument)
    PROVE  RolesKnown(ArgsMapped(map, args)) /\ ArgsConverted(map, args) \in Seq(Argument)
<1> DEFINE new == {k \in DOMAIN args : Unmapped(map, args, k)}
           dom == DOMAIN map \union {args[k][2] : k \in new}
           mapped == ArgsMapped(map, args)
<1>1. mapped = [v \in dom |->
                    IF v \in DOMAIN map THEN map[v] ELSE args[CHOOSE k \in new : args[k][2] = v][1]]
  BY Zenon DEF ArgsMapped
<1>2. \A k \in DOMAIN args : args[k][1] \in Roles /\ args[k][2] \in STRING
  BY DEF Argument, Roles
<1>3. ASSUME NEW v \in dom PROVE mapped[v] \in Roles
  <2>1. CASE v \in DOMAIN map
    <3>1. mapped[v] = map[v]
      BY <1>1, <2>1, Zenon
    <3> QED
      BY <2>1, <3>1, Zenon DEF RolesKnown
  <2>2. CASE v \notin DOMAIN map
    <3>1. \E k \in new : args[k][2] = v
      BY <2>2, Zenon
    <3>2. PICK k \in new : mapped[v] = args[k][1]
      <4> HIDE DEF new
      <4> QED
        BY <1>1, <2>2, <3>1, Zenon
    <3> QED
      BY <1>2, <3>2
  <2> QED
    BY <2>1, <2>2
<1>4. ASSUME NEW k \in DOMAIN args PROVE args[k][2] \in dom
  <2> DEFINE same == {j \in DOMAIN args : args[j][2] = args[k][2]}
  <2>1. PICK j \in same : \A m \in same : j <= m
    <3>1. same \subseteq Nat /\ k \in same
      OBVIOUS
    <3> HIDE DEF same
    <3> QED
      BY <3>1, LeastNumber
  <2>2. \A m \in 1 .. (j - 1) : args[m][2] # args[k][2]
    BY <2>1
  <2>3. args[k][2] \notin DOMAIN map => j \in new
    BY <2>2 DEF Unmapped
  <2> QED
    BY <2>3
<1>5. DOMAIN mapped = dom
  BY <1>1, Zenon
<1>6. RolesKnown(mapped)
  BY <1>3, <1>5, Zenon DEF RolesKnown
<1>7. \A k \in DOMAIN args : <<mapped[args[k][2]], args[k][2]>> \in Argument
  <2> HIDE DEF mapped, dom
  <2> QED
    BY <1>2, <1>3, <1>4 DEF Argument, Roles
<1>8. ArgsConverted(map, args) = [k \in DOMAIN args |-> <<mapped[args[k][2]], args[k][2]>>]
  BY Zenon DEF ArgsConverted
<1>9. ArgsConverted(map, args) \in Seq(Argument)
  <2> HIDE DEF mapped
  <2> QED
    BY <1>7, <1>8
<1> QED
  BY <1>6, <1>9

-----------------------------------------------------------------------------
(***************************************************************************)
(* The walk comes to call i: the text of the calls before it, and what     *)
(* their operations are, stay.                                             *)
(***************************************************************************)

(* Places of operations.                                                   *)
LEMMA PlaceParts ==
    ASSUME NEW p
    PROVE  /\ p \in Places <=> p = <<p[1], p[2]>> /\ p[1] \in DOMAIN text /\ p[2] \in DOMAIN text[p[1]]
           /\ p \in Places' <=> p = <<p[1], p[2]>> /\ p[1] \in DOMAIN text' /\ p[2] \in DOMAIN text'[p[1]]
BY DEF Places

Comes(i) == ConvInv /\ Visit(i)

LEMMA ComesSays ==
    ASSUME NEW i, Comes(i)
    PROVE  /\ status = "walk" /\ i = at + 1 /\ i \in 1 .. Len(source) /\ i \in DOMAIN source
           /\ at \in Nat /\ at' = i
           /\ hasMain' = hasMain /\ usedModel' = usedModel /\ source' = source /\ declared' = declared
           /\ TypeOKConversion /\ StaticsTyped /\ Walking /\ OpsMeant
           /\ CallsTyped /\ source \in Seq(ApiCall) /\ source[i] \in ApiCall /\ CallTyped(source[i])
<1>1. status = "walk" /\ i = at + 1 /\ i \in DOMAIN source
  BY DEF Comes, Visit
<1>2. TypeOKConversion /\ StaticsTyped /\ Walking /\ OpsMeant
  BY <1>1 DEF Comes, ConvInv
<1>3. CallsTyped /\ at \in 0 .. Len(source)
  BY <1>2 DEF TypeOKConversion
<1>4. source \in Seq(ApiCall) /\ CallTyped(source[i])
  BY <1>1, <1>3 DEF CallsTyped
<1>5. /\ at' = i /\ hasMain' = hasMain /\ usedModel' = usedModel /\ source' = source
      /\ declared' = declared
  BY DEF Comes, Visit
<1>6. source[i] \in ApiCall /\ i \in 1 .. Len(source) /\ at \in Nat
  BY <1>1, <1>3, <1>4
<1> QED
  BY <1>1, <1>2, <1>3, <1>4, <1>5, <1>6, Zenon

(***************************************************************************)
(* What a handler does to the text: ops for the call, waits ahead of it    *)
(* perhaps, and a commWorld at the start perhaps.                          *)
(***************************************************************************)
TextAfter(i, ops) ==
    /\ DOMAIN text' = 0 .. Len(source)
    /\ \A j \in DOMAIN text' : text'[j] \in Seq(TextOp)
    /\ text'[i] = ops
    /\ \A p \in Places : p[1] <= at => p \in Places' /\ text'[p[1]][p[2]] = OpAt(p)
    /\ \A j \in DOMAIN source : j > i => Untouched(j)'
    /\ \A p \in Places' : p[1] # i =>
        \/ p \in Places /\ text'[p[1]][p[2]] = OpAt(p)
        \/ /\ text'[p[1]][p[2]].kind \in {"world", "wait"}
           /\ text'[p[1]][p[2]].comm = None

Rewritten(i, comm, ops, waits) ==
    text' = [j \in DOMAIN text |->
                IF j = i THEN ops
                ELSE IF j \in waits THEN <<WaitFor(j, ArrayOf(i), 2)>>
                ELSE IF j = 0 /\ comm = NewWorld THEN Append(text[0], StartWorld)
                ELSE text[j]]

LEMMA TextRewritten ==
    ASSUME NEW i, Comes(i), NEW comm, NEW ops \in Seq(TextOp),
           NEW waits \in SUBSET {j \in DOMAIN source : j > i /\ source[j].fn = "MPI_Wait"},
           Rewritten(i, comm, ops, waits)
    PROVE  TextAfter(i, ops)
<1>1. /\ i = at + 1 /\ i \in 1 .. Len(source) /\ at \in Nat /\ source' = source
      /\ DOMAIN source = 1 .. Len(source)
  BY ComesSays
<1>2. DOMAIN text = 0 .. Len(source) /\ \A j \in DOMAIN text : text[j] \in Seq(TextOp)
  BY ComesSays DEF TypeOKConversion
<1>3. ASSUME NEW j \in waits
      PROVE  /\ j \in DOMAIN text /\ j > i /\ j # 0 /\ j # i
             /\ source[j].fn = "MPI_Wait"
             /\ text'[j] = <<WaitFor(j, ArrayOf(i), 2)>>
             /\ <<WaitFor(j, ArrayOf(i), 2)>> \in Seq(TextOp)
             /\ Len(text'[j]) = 1 /\ text'[j][1].kind = "wait" /\ text'[j][1].comm = None
  <2>1. j \in DOMAIN source /\ j > i /\ source[j].fn = "MPI_Wait"
    BY <1>3
  <2>2. j \in DOMAIN text /\ j # 0 /\ j # i
    BY <1>1, <1>2, <2>1
  <2>3. text'[j] = <<WaitFor(j, ArrayOf(i), 2)>>
    BY <1>3, <2>2, Zenon DEF Rewritten
  <2>4. ArrayOf(i) \in Array
    BY <1>1 DEF ArrayOf, NoArray, Array
  <2>5. CallsTyped
    BY ComesSays
  <2>6. 2 \in Nat
    OBVIOUS
  <2> DEFINE w == WaitFor(j, ArrayOf(i), 2)
  <2>7. w \in TextOp /\ w.kind = "wait" /\ w.comm = None
    BY <2>1, <2>4, <2>5, <2>6, WaitTyped
  <2> HIDE DEF w
  <2>8. <<w>> \in Seq(TextOp) /\ Len(<<w>>) = 1 /\ <<w>>[1] = w
    BY <2>7
  <2>9. text'[j] = <<w>>
    BY <2>3 DEF w
  <2>10. Len(text'[j]) = 1 /\ text'[j][1] = w
    BY <2>8, <2>9
  <2> QED
    BY <2>1, <2>2, <2>3, <2>7, <2>8, <2>10 DEF w
<1>4. ASSUME NEW j \in DOMAIN text, j # i, j \notin waits, j # 0
      PROVE  text'[j] = text[j]
  BY <1>4, Zenon DEF Rewritten
<1>5. \/ text'[0] = text[0]
      \/ text'[0] = Append(text[0], StartWorld)
  <2>1. 0 \in DOMAIN text /\ 0 # i
    BY <1>1, <1>2
  <2>2. 0 \notin waits
    BY <1>1
  <2> QED
    BY <2>1, <2>2, Zenon DEF Rewritten
<1>6. DOMAIN text' = 0 .. Len(source)
  BY <1>2 DEF Rewritten
<1>7. text'[i] = ops
  <2>1. i \in DOMAIN text
    BY <1>1, <1>2
  <2> QED
    BY <2>1, Zenon DEF Rewritten
<1>8. /\ text[0] \in Seq(TextOp) /\ text'[0] \in Seq(TextOp)
      /\ \A k \in DOMAIN text[0] : k \in DOMAIN text'[0] /\ text'[0][k] = text[0][k]
      /\ \A k \in DOMAIN text'[0] : \/ k \in DOMAIN text[0]
                                    \/ text'[0][k].kind = "world" /\ text'[0][k].comm = None
  <2>1. text[0] \in Seq(TextOp)
    BY <1>2
  <2> DEFINE s == text[0]
  <2> HIDE DEF s
  <2>2. s \in Seq(TextOp)
    BY <2>1 DEF s
  <2>3. /\ Append(s, StartWorld) \in Seq(TextOp)
        /\ \A k \in DOMAIN s : k \in DOMAIN Append(s, StartWorld) /\ Append(s, StartWorld)[k] = s[k]
        /\ \A k \in DOMAIN Append(s, StartWorld) :
                k \in DOMAIN s \/ Append(s, StartWorld)[k] = StartWorld
    BY <2>2, WorldTyped
  <2> QED
    BY <1>5, <2>2, <2>3, WorldTyped DEF s
<1>9. ASSUME NEW j \in DOMAIN text' PROVE text'[j] \in Seq(TextOp)
  BY <1>2, <1>3, <1>4, <1>6, <1>7, <1>8, Zenon
<1>10. ASSUME NEW p \in Places, p[1] <= at
       PROVE  p \in Places' /\ text'[p[1]][p[2]] = OpAt(p)
  <2>1. p = <<p[1], p[2]>> /\ p[1] \in DOMAIN text /\ p[2] \in DOMAIN text[p[1]]
    BY PlaceParts
  <2>2. p[1] \in DOMAIN text'
    BY <1>2, <1>6, <2>1
  <2>3. CASE p[1] = 0
    <3>1. p[2] \in DOMAIN text'[p[1]] /\ text'[p[1]][p[2]] = text[p[1]][p[2]]
      BY <1>8, <2>1, <2>3
    <3> QED
      BY <2>1, <2>2, <3>1, PlaceParts DEF OpAt
  <2>4. CASE p[1] # 0
    <3>1. p[1] # i /\ \A j \in waits : j # p[1]
      BY <1>1, <1>2, <1>10, <2>1
    <3>2. text'[p[1]] = text[p[1]]
      BY <1>4, <2>1, <2>4, <3>1, Zenon
    <3> QED
      BY <2>1, <2>2, <3>2, PlaceParts DEF OpAt
  <2> QED
    BY <2>3, <2>4
<1>11. ASSUME NEW j \in DOMAIN source, j > i PROVE Untouched(j)'
  <2>1. j > at /\ j \in DOMAIN text /\ j # i /\ j # 0
    BY <1>1, <1>2, <1>11
  <2>2. Untouched(j)
    BY <2>1, ComesSays DEF Walking
  <2>3. CASE j \in waits
    BY <1>1, <1>3, <2>3, Zenon DEF Untouched
  <2>4. CASE j \notin waits
    <3>1. text'[j] = text[j]
      BY <1>4, <2>1, <2>4
    <3> QED
      BY <1>1, <2>2, <3>1, Zenon DEF Untouched
  <2> QED
    BY <2>3, <2>4
<1>12. ASSUME NEW p \in Places', p[1] # i
       PROVE  \/ p \in Places /\ text'[p[1]][p[2]] = OpAt(p)
              \/ /\ text'[p[1]][p[2]].kind \in {"world", "wait"}
                 /\ text'[p[1]][p[2]].comm = None
  <2>1. p = <<p[1], p[2]>> /\ p[1] \in DOMAIN text' /\ p[2] \in DOMAIN text'[p[1]]
    BY PlaceParts
  <2>2. p[1] \in DOMAIN text
    BY <1>2, <1>6, <2>1
  <2>3. CASE p[1] = 0
    <3>1. CASE p[2] \in DOMAIN text[0]
      BY <1>8, <2>1, <2>2, <2>3, <3>1, PlaceParts DEF OpAt
    <3>2. CASE p[2] \notin DOMAIN text[0]
      BY <1>8, <2>1, <2>3, <3>2
    <3> QED
      BY <3>1, <3>2
  <2>4. CASE p[1] \in waits
    <3>1. Len(text'[p[1]]) = 1 /\ text'[p[1]] \in Seq(TextOp)
      BY <1>3, <1>9, <2>1, <2>4
    <3>2. p[2] = 1
      BY <2>1, <3>1
    <3> QED
      BY <1>3, <2>4, <3>2
  <2>5. CASE p[1] # 0 /\ p[1] \notin waits
    <3>1. text'[p[1]] = text[p[1]]
      BY <1>4, <1>12, <2>2, <2>5
    <3> QED
      BY <2>1, <2>2, <3>1, PlaceParts DEF OpAt
  <2> QED
    BY <2>3, <2>4, <2>5
<1> QED
  BY <1>6, <1>7, <1>9, <1>10, <1>11, <1>12, Zenon DEF TextAfter

-----------------------------------------------------------------------------
(***************************************************************************)
(* Communicators: what the next state knows of the one at place c.         *)
(***************************************************************************)
MadeNext(c) == c \in Places' /\ c[1] <= at' /\ text'[c[1]][c[2]].kind \in CommKinds

WorldNext(c) == text'[c[1]][c[2]].kind = "world"

MeantNext(i, c) ==
    /\ source[i].comm \in {World, NoName} => c[1] = 0
    /\ source[i].comm \notin {World, NoName} =>
            c[1] = 0 \/ c[1] = LastSetter(source, source[i].comm, i)
    /\ NothingMisread(source) /\ WorldNext(c) => MeansAll(source)[i]

LEMMA CommKept ==
    ASSUME NEW i, Comes(i), NEW ops, TextAfter(i, ops), NEW c, MakesComm(c)
    PROVE  MadeNext(c) /\ (WorldNext(c) <=> IsWorld(c))
<1>1. c \in Places /\ c[1] <= at /\ OpAt(c).kind \in CommKinds
  BY DEF MakesComm
<1>2. c \in Places' /\ text'[c[1]][c[2]] = OpAt(c)
  BY <1>1, Zenon DEF TextAfter
<1>3. c[1] <= at'
  <2>1. c[1] \in 0 .. Len(source) /\ at \in Nat /\ at' = at + 1
    BY <1>1, PlaceParts, ComesSays DEF TypeOKConversion
  <2> QED
    BY <1>1, <2>1
<1> QED
  BY <1>1, <1>2, <1>3, Zenon DEF MadeNext, WorldNext, IsWorld

(* A commWorld is put at the start of @main.                               *)
LEMMA WorldMade ==
    ASSUME NEW i, Comes(i), NEW c, c = NewWorld, NEW ops, NEW waits \in SUBSET DOMAIN source,
           Rewritten(i, c, ops, waits)
    PROVE  /\ MadeNext(c) /\ WorldNext(c) /\ c[1] = 0
           /\ c \in Nat \X Nat /\ c # None
<1>1. /\ i \in 1 .. Len(source) /\ DOMAIN source = 1 .. Len(source) /\ at \in Nat
      /\ DOMAIN text = 0 .. Len(source) /\ text[0] \in Seq(TextOp) /\ at' = at + 1
  BY ComesSays DEF TypeOKConversion
<1> DEFINE s == text[0]
<1>2. text'[0] = Append(s, StartWorld)
  <2>1. 0 \in DOMAIN text /\ 0 # i /\ 0 \notin waits
    BY <1>1
  <2> QED
    BY <2>1, Zenon DEF Rewritten
<1> HIDE DEF s
<1>3. s \in Seq(TextOp)
  BY <1>1 DEF s
<1>4. c = <<0, Len(s) + 1>>
  BY DEF NewWorld, s
<1>5. c[1] = 0 /\ c[2] = Len(s) + 1 /\ c \in Nat \X Nat /\ c # None
  BY <1>3, <1>4 DEF None
<1>6. c[2] \in DOMAIN text'[0] /\ text'[0][c[2]] = StartWorld
  BY <1>2, <1>3, <1>5
<1>7. 0 \in DOMAIN text'
  BY <1>1 DEF Rewritten
<1>8. c \in Places'
  BY <1>4, <1>5, <1>6, <1>7, PlaceParts
<1>9. text'[c[1]][c[2]].kind = "world"
  BY <1>5, <1>6, WorldTyped
<1>10. c[1] <= at'
  BY <1>1, <1>5
<1> QED
  BY <1>5, <1>8, <1>9, <1>10 DEF MadeNext, WorldNext, CommKinds

(* What is set is set by a call, which is the last one to set it.          *)
LEMMA LastIsLastSetter ==
    ASSUME NEW i, Comes(i), NEW d, NEW v, LastSet(d, v, at)
    PROVE  /\ Setters(source, v, i) # {}
           /\ LastSetter(source, v, i) = d
<1>1. i = at + 1 /\ at \in Nat /\ i \in Nat
  BY ComesSays
<1>2. d \in 1 .. at /\ source[d].result = v /\ \A e \in 1 .. at : source[e].result = v => e <= d
  BY Zenon DEF LastSet
<1>3. d \in Setters(source, v, i) /\ \A e \in Setters(source, v, i) : e <= d
  BY <1>1, <1>2 DEF Setters
<1>4. /\ LastSetter(source, v, i) \in 1 .. at
      /\ LastSetter(source, v, i) <= d /\ d <= LastSetter(source, v, i)
  BY <1>1, <1>3, LastSetterSet
<1> QED
  BY <1>2, <1>3, <1>4

(* A communicator that is found under the variable's name is the one meant.*)
LEMMA CommFound ==
    ASSUME NEW i, Comes(i), NEW ops, TextAfter(i, ops),
           NEW map, NEW converter, CommsMeant(map, converter), source[i].comm \in DOMAIN map
    PROVE  MadeNext(map[source[i].comm]) /\ MeantNext(i, map[source[i].comm])
<1> DEFINE v == source[i].comm
           c == map[v]
<1>1. /\ MakesComm(c) /\ v # NoName /\ (v = World => c[1] = 0)
      /\ v # World => CommOfVariable(c, v, converter)
  BY Zenon DEF CommsMeant
<1>2. MadeNext(c) /\ (WorldNext(c) <=> IsWorld(c))
  BY <1>1, CommKept
<1>3. i \in DOMAIN source /\ source \in Seq(ApiCall)
  BY ComesSays
<1> HIDE DEF c
<1>4. CASE v = World
  <2>1. MeansAllIf(source, MeansAll(source), i)
    BY <1>4, Zenon DEF MeansAllIf
  <2>2. MeansAll(source)[i]
    BY <1>3, <2>1, MeansAllSays
  <2> QED
    BY <1>1, <1>2, <1>4, <2>2, Zenon DEF MeantNext, c
<1>5. CASE v # World
  <2>1. PICK d \in 1 .. at : /\ LastSet(d, v, at) /\ c[1] \in {0, d}
                             /\ NothingMisread(source) /\ IsWorld(c) => AllOf(d)
    BY <1>1, <1>5, Zenon DEF CommOfVariable
  <2>2. Setters(source, v, i) # {} /\ LastSetter(source, v, i) = d
    BY <2>1, LastIsLastSetter
  <2>3. AllOf(d) => MeansAllIf(source, MeansAll(source), i)
    BY <2>2, Zenon DEF AllOf, MeansAllIf
  <2>4. NothingMisread(source) /\ WorldNext(c) => MeansAll(source)[i]
    BY <1>2, <1>3, <2>1, <2>3, MeansAllSays, Zenon
  <2>5. c[1] = 0 \/ c[1] = LastSetter(source, v, i)
    BY <2>1, <2>2
  <2> QED
    BY <1>1, <1>2, <1>5, <2>4, <2>5, Zenon DEF MeantNext, c
<1> QED
  BY <1>4, <1>5

(* Any commWorld at the start is what a call means that names none or all. *)
LEMMA WorldMeant ==
    ASSUME NEW i, Comes(i), source[i].comm \in {World, NoName}, NEW c, c[1] = 0
    PROVE  MeantNext(i, c)
<1>1. MeansAllIf(source, MeansAll(source), i)
  BY Zenon DEF MeansAllIf
<1>2. i \in DOMAIN source /\ source \in Seq(ApiCall)
  BY ComesSays
<1>3. MeansAll(source)[i]
  BY <1>1, <1>2, MeansAllSays
<1> QED
  BY <1>3, Zenon DEF MeantNext

-----------------------------------------------------------------------------
(***************************************************************************)
(* The mappings of communicator variables in the next state.               *)
(***************************************************************************)
OfVariableNext(c, v, converter) ==
    \E d \in 1 .. at' :
        /\ LastSet(d, v, at')
        /\ source[d].fn \in Handles(converter)
        /\ c[1] \in {0, d}
        /\ NothingMisread(source) /\ WorldNext(c) => AllOf(d)

NameNext(c, v, converter) ==
    /\ MadeNext(c)
    /\ v # NoName
    /\ v = World => c[1] = 0
    /\ v # World => converter \in Converters(usedModel) /\ OfVariableNext(c, v, converter)

CommsNext(map, converter) == \A v \in DOMAIN map : NameNext(map[v], v, converter)

Libraries == {"mpi", "nccl", "shmem"}

(* A call that another library sets a communicator by, or none.            *)
LEMMA NameKept ==
    ASSUME NEW i, Comes(i), NEW ops, TextAfter(i, ops),
           NEW map, NEW converter \in Libraries, CommsMeant(map, converter),
           NEW v \in DOMAIN map,
           \/ source[i].result # v
           \/ \E other \in Libraries \ {converter} : source[i].fn \in Handles(other)
    PROVE  NameNext(map[v], v, converter)
<1> DEFINE c == map[v]
<1>1. /\ MakesComm(c) /\ v # NoName /\ (v = World => c[1] = 0)
      /\ v # World => converter \in Converters(usedModel) /\ CommOfVariable(c, v, converter)
  BY Zenon DEF CommsMeant
<1>2. MadeNext(c) /\ (WorldNext(c) <=> IsWorld(c))
  BY <1>1, CommKept
<1> HIDE DEF c
<1>3. ASSUME v # World PROVE OfVariableNext(c, v, converter)
  <2>1. PICK d \in 1 .. at : /\ LastSet(d, v, at) /\ source[d].fn \in Handles(converter)
                             /\ c[1] \in {0, d}
                             /\ NothingMisread(source) /\ IsWorld(c) => AllOf(d)
    BY <1>1, <1>3, Zenon DEF CommOfVariable
  <2>2. /\ source[d].result = v /\ \A e \in 1 .. at : source[e].result = v => e <= d
    BY Zenon, <2>1 DEF LastSet
  <2>3. at' = at + 1 /\ at' = i /\ at \in Nat /\ i \in DOMAIN source /\ i \in 1 .. Len(source)
    BY ComesSays
  <2>4. d \in DOMAIN source /\ d \in 1 .. at'
    BY <2>3, ComesSays
  <2>5. source[i].result # v
    <3>1. SUFFICES ASSUME source[i].result = v,
                          NEW other \in Libraries \ {converter}, source[i].fn \in Handles(other)
                   PROVE  FALSE
      BY Zenon
    <3>2. OneLibrary(source[d], source[i])
      BY <2>3, <2>4, ComesSays, Zenon DEF CallsTyped
    <3>3. source[i].result # NoName /\ source[i].result = source[d].result
      BY <1>1, <2>2, <3>1
    <3>4. \A a, b \in Libraries : source[d].fn \in Handles(a) /\ source[i].fn \in Handles(b) => a = b
      BY <3>2, <3>3 DEF OneLibrary, Libraries
    <3> QED
      BY <2>1, <3>1, <3>4
  <2>6. LastSet(d, v, at')
    <3>1. ASSUME NEW e \in 1 .. at', source[e].result = v PROVE e <= d
      <4>1. e \in 1 .. at
        BY <2>3, <2>5, <3>1
      <4> QED
        BY <2>2, <3>1, <4>1
    <3> QED
      BY <2>2, <2>4, <3>1 DEF LastSet
  <2> QED
    BY <1>2, <2>1, <2>4, <2>6, Zenon DEF OfVariableNext
<1> QED
  BY <1>1, <1>2, <1>3 DEF NameNext, c

(* A variable is set anew.                                                 *)
LEMMA NameSet ==
    ASSUME NEW i, Comes(i), NEW converter \in Libraries, source[i].result # NoName,
           source[i].fn \in Handles(converter), converter \in Converters(usedModel),
           NEW c, MadeNext(c), c[1] \in {0, i},
           NothingMisread(source) /\ WorldNext(c) => AllOf(i)
    PROVE  NameNext(c, source[i].result, converter)
<1>1. at' = i /\ i \in 1 .. at' /\ source[i].result # World
  BY ComesSays DEF CallTyped
<1>2. LastSet(i, source[i].result, at')
  BY <1>1 DEF LastSet
<1>3. OfVariableNext(c, source[i].result, converter)
  BY <1>1, <1>2, Zenon DEF OfVariableNext
<1> QED
  BY <1>1, <1>3, Zenon DEF NameNext

-----------------------------------------------------------------------------
(***************************************************************************)
(* A step keeps the invariant if the operations that it makes are good and *)
(* the statics are.                                                        *)
(***************************************************************************)
OpGood(i, op) ==
    /\ op.comm # None => MadeNext(op.comm) /\ MeantNext(i, op.comm)
    /\ op.kind \in {"coll", "send", "recv"} => (op.blocking <=> BlocksFor(i))
    /\ op.kind = "call" =>
            op.type = source[i].fn /\ source[i].fn \notin BranchKinds /\ Left(i)

KeptNext(c) == c # None => MadeNext(c) /\ c[1] = 0

ValueNext(value, v) ==
    /\ MadeNext(value.comm)
    /\ value.by \in 1 .. at' /\ value.by \in QueriesOf(source, v)
    /\ NothingMisread(source) /\ WorldNext(value.comm) => MeansAll(source)[value.by]

StaticsNext ==
    /\ CommsNext(mpi'.comms, "mpi") /\ CommsNext(nccl'.comms, "nccl")
    /\ CommsNext(shmem'.comms, "shmem")
    /\ KeptNext(mpi'.implicit) /\ KeptNext(nccl'.implicit) /\ KeptNext(shmem'.world)
    /\ \A v \in DOMAIN values' : ValueNext(values'[v], v)
    /\ GroupMeant'

NCCLTyped ==
    /\ \A v \in DOMAIN nccl.comms : nccl.comms[v] \in DOMAIN nccl.blocking
    /\ nccl.started \in BOOLEAN /\ nccl.num \in Nat /\ nccl.group \in Array
    /\ nccl.num = 0 <=> nccl.group = NoArray

(* The meaning of the source program stays.                                *)
LEMMA MeaningKept ==
    ASSUME source' = source, NEW i
    PROVE  /\ NothingMisread(source)' <=> NothingMisread(source)
           /\ AllOf(i)' <=> AllOf(i)
           /\ BlocksFor(i)' <=> BlocksFor(i)
           /\ \A c : CommMeant(i, c)' <=> MeantNext(i, c)
           /\ \A v, n : LastSet(i, v, n)' <=> LastSet(i, v, n)
<1>1. NothingMisread(source)' <=> NothingMisread(source)
  BY Zenon
<1>2. AllOf(i)' <=> AllOf(i)
  BY Zenon DEF AllOf
<1>3. BlocksFor(i)' <=> BlocksFor(i)
  BY Zenon DEF BlocksFor, RequestCalls, InOpenGroup
<1>4. ASSUME NEW c PROVE CommMeant(i, c)' <=> MeantNext(i, c)
  BY <1>1, Zenon DEF CommMeant, MeantNext, IsWorld, WorldNext, OpAt
<1>5. \A v, n : LastSet(i, v, n)' <=> LastSet(i, v, n)
  BY Zenon DEF LastSet
<1> QED
  BY <1>1, <1>2, <1>3, <1>4, <1>5, Zenon

LEMMA StaticsMeantNext ==
    ASSUME source' = source, usedModel' = usedModel, StaticsNext
    PROVE  StaticsMeant'
<1>1. \A c : /\ MakesComm(c)' <=> MadeNext(c)
             /\ IsWorld(c)' <=> WorldNext(c)
  BY Zenon DEF MakesComm, MadeNext, IsWorld, WorldNext, OpAt
<1>2. \A c, v, l : CommOfVariable(c, v, l)' <=> OfVariableNext(c, v, l)
  BY <1>1, MeaningKept, Zenon DEF CommOfVariable, OfVariableNext
<1>3. \A map, l : CommsMeant(map, l)' <=> CommsNext(map, l)
  BY <1>1, <1>2, Zenon DEF CommsMeant, CommsNext, NameNext
<1>4. CommsMeant(mpi.comms, "mpi")' /\ CommsMeant(nccl.comms, "nccl")' /\ CommsMeant(shmem.comms, "shmem")'
  BY <1>3, Zenon DEF StaticsNext
<1>5. WorldKept(mpi.implicit)' /\ WorldKept(nccl.implicit)' /\ WorldKept(shmem.world)'
  BY <1>1, Zenon DEF StaticsNext, WorldKept, KeptNext
<1>6. ValuesMeant'
  BY <1>1, Zenon DEF StaticsNext, ValuesMeant, ValueNext
<1> QED
  BY <1>4, <1>5, <1>6, Zenon DEF StaticsMeant, StaticsNext

LEMMA OpsAfter ==
    ASSUME NEW i, Comes(i), NEW ops, TextAfter(i, ops), \A k \in DOMAIN ops : OpGood(i, ops[k])
    PROVE  OpsMeant' /\ \A p \in Places' : OpAt(p)'.comm # None => MakesComm(OpAt(p).comm)'
<1>1. /\ at' = i /\ at \in Nat /\ i = at + 1 /\ source' = source /\ usedModel' = usedModel
      /\ OpsMeant /\ \A p \in Places : OpAt(p).comm # None => MakesComm(OpAt(p).comm)
  BY ComesSays DEF Walking
<1>2. \A c : (MakesComm(c)' <=> MadeNext(c)) /\ (IsWorld(c)' <=> WorldNext(c))
  BY Zenon DEF MakesComm, MadeNext, IsWorld, WorldNext, OpAt
<1>3. ASSUME NEW p \in Places'
      PROVE  OpMeant(p)' /\ (OpAt(p)'.comm # None => MakesComm(OpAt(p).comm)')
  <2> DEFINE op == text'[p[1]][p[2]]
  <2>1. OpAt(p)' = op
    BY Zenon DEF OpAt
  <2>2. p = <<p[1], p[2]>> /\ p[1] \in DOMAIN text' /\ p[2] \in DOMAIN text'[p[1]]
    BY PlaceParts
  <2>3. p[1] \in 0 .. Len(source)
    BY <2>2 DEF TextAfter
  <2> DEFINE Good == /\ op.comm # None => MadeNext(op.comm) /\ MeantNext(p[1], op.comm)
                     /\ op.kind \in {"coll", "send", "recv"} => (op.blocking <=> BlocksFor(p[1]))
                     /\ op.kind = "call" =>
                            /\ p[1] \in DOMAIN source
                            /\ op.type = source[p[1]].fn /\ source[p[1]].fn \notin BranchKinds
                            /\ p[1] <= at' => Left(p[1])
  <2>4. ASSUME p[1] = i PROVE Good
    <3>1. OpGood(i, op) /\ i \in DOMAIN source
      BY <2>2, <2>4, ComesSays DEF TextAfter
    <3> QED
      BY <2>4, <3>1, Zenon DEF OpGood
  <2>5. ASSUME p[1] # i PROVE Good
    <3>1. CASE op.kind \in {"world", "wait"} /\ op.comm = None
      BY <3>1
    <3>2. CASE p \in Places /\ op = OpAt(p)
      <4>1. OpMeant(p) /\ (op.comm # None => MakesComm(op.comm))
        BY <1>1, <3>2, Zenon DEF OpsMeant
      <4>2. op.comm # None => MadeNext(op.comm) /\ MeantNext(p[1], op.comm)
        <5>1. SUFFICES ASSUME op.comm # None
                       PROVE  MadeNext(op.comm) /\ MeantNext(p[1], op.comm)
          OBVIOUS
        <5> DEFINE c == op.comm
        <5>2. MadeNext(c) /\ (WorldNext(c) <=> IsWorld(c)) /\ CommMeant(p[1], c)
          BY <3>2, <4>1, <5>1, CommKept, Zenon DEF OpMeant
        <5> HIDE DEF c
        <5>3. MeantNext(p[1], c)
          BY <5>2, Zenon DEF MeantNext, CommMeant
        <5> QED
          BY <5>2, <5>3 DEF c
      <4>3. p[1] <= at' => p[1] <= at
        BY <1>1, <2>3, <2>5
      <4> QED
        BY <3>2, <4>1, <4>2, <4>3, Zenon DEF OpMeant
    <3> QED
      BY <2>5, <3>1, <3>2, Zenon DEF TextAfter
  <2>6. Good
    BY <2>4, <2>5
  <2>7. \A c : CommMeant(p[1], c)' <=> MeantNext(p[1], c)
    BY <1>1, MeaningKept
  <2> QED
    BY <1>1, <1>2, <2>1, <2>6, <2>7, MeaningKept, Zenon DEF OpMeant, Left
<1> QED
  BY <1>3, Zenon DEF OpsMeant

LEMMA TypesKept ==
    ASSUME source' = source
    PROVE  TextOp' = TextOp /\ Array' = Array /\ (CallsTyped' <=> CallsTyped)
<1>1. Array' = Array
  BY Zenon DEF Array
<1>2. OpTypes' = OpTypes
  BY Zenon DEF OpTypes
<1>3. TextOp' = TextOp
  BY <1>1, <1>2, Zenon DEF TextOp
<1>4. CallsTyped' <=> CallsTyped
  BY Zenon DEF CallsTyped
<1> QED
  BY <1>1, <1>3, <1>4

LEMMA HandledKeeps ==
    ASSUME NEW i, Comes(i), status' = status,
           NEW ops, TextAfter(i, ops), \A k \in DOMAIN ops : OpGood(i, ops[k]),
           StaticsTyped', NCCLTyped', StaticsNext
    PROVE  ConvInv'
<1>1. /\ status = "walk" /\ status' = "walk" /\ at' = i /\ i \in 1 .. Len(source)
      /\ source' = source /\ usedModel' = usedModel /\ hasMain' = hasMain /\ declared' = declared
      /\ TypeOKConversion /\ Walking
  BY ComesSays
<1>2. StaticsMeant'
  BY <1>1, StaticsMeantNext
<1>3. OpsMeant' /\ \A p \in Places' : OpAt(p)'.comm # None => MakesComm(OpAt(p).comm)'
  BY OpsAfter
<1>4. Walking'
  <2>1. ASSUME NEW j \in DOMAIN source', j > at' PROVE Untouched(j)'
    BY <1>1, <2>1 DEF TextAfter
  <2>2. declared' = {source'[j].fn : j \in DOMAIN source'} \ BranchKinds
    BY <1>1, Zenon DEF Walking
  <2> QED
    BY <1>2, <1>3, <2>1, <2>2, Zenon DEF Walking
<1>5. TypeOKConversion'
  <2>1. /\ hasMain' \in BOOLEAN /\ usedModel' \in STRING /\ CallsTyped'
        /\ declared' \subseteq STRING
    BY <1>1, TypesKept, Zenon DEF TypeOKConversion
  <2>2. at' \in 0 .. Len(source')
    BY <1>1
  <2>3. DOMAIN text' = 0 .. Len(source') /\ \A j \in DOMAIN text' : text'[j] \in Seq(TextOp')
    BY <1>1, TypesKept DEF TextAfter
  <2>4. /\ \A v \in DOMAIN values' : values'[v].comm \in Places'
        /\ \A v \in DOMAIN mpi'.comms : mpi'.comms[v] \in Places'
        /\ \A v \in DOMAIN shmem'.comms : shmem'.comms[v] \in Places'
    BY Zenon DEF StaticsNext, CommsNext, NameNext, ValueNext, MadeNext
  <2>5. {mpi'.implicit, nccl'.implicit, shmem'.world} \subseteq Places' \union {None}
    BY DEF StaticsNext, KeptNext, MadeNext
  <2>6. status' \in {"start", "walk", "done", "failed", "unreachable", "undefined"}
    BY <1>1
  <2> QED
    BY <2>1, <2>2, <2>3, <2>4, <2>5, <2>6, Zenon DEF TypeOKConversion, NCCLTyped
<1>6. CallsDeclared'
  BY <1>1 DEF CallsDeclared
<1> QED
  BY <1>3, <1>4, <1>5, <1>6, Zenon DEF ConvInv

-----------------------------------------------------------------------------
(***************************************************************************)
(* The pass breaks off, fails or begins its walk.                          *)
(***************************************************************************)
LEMMA SameText ==
    ASSUME text' = text
    PROVE  /\ Places' = Places
           /\ \A p : OpAt(p)' = OpAt(p)
BY Zenon DEF Places, OpAt

LEMMA TypeOKKept ==
    ASSUME TypeOKConversion, StaticsTyped, text' = text, source' = source, hasMain' = hasMain,
           usedModel' = usedModel, declared' = declared, values' = values,
           mpi' = mpi, nccl' = nccl, shmem' = shmem, at' \in 0 .. Len(source),
           status' \in {"start", "walk", "done", "failed", "unreachable", "undefined"}
    PROVE  TypeOKConversion' /\ StaticsTyped'
<1>1. Places' = Places /\ TextOp' = TextOp /\ Array' = Array /\ (CallsTyped' <=> CallsTyped)
  BY SameText, TypesKept
<1>2. TypeOKConversion'
  BY <1>1, Zenon DEF TypeOKConversion
<1>3. StaticsTyped'
  BY Zenon DEF StaticsTyped, RolesKnown
<1> QED
  BY <1>2, <1>3

LEMMA BreakOffKeeps ==
    ASSUME ConvInv, NEW i, NEW how \in {"unreachable", "undefined"}, BreakOff(i, how)
    PROVE  ConvInv'
<1>1. Comes(i) /\ status' = how
  BY DEF BreakOff, Comes
<1>2. /\ text' = text /\ values' = values /\ mpi' = mpi /\ nccl' = nccl /\ shmem' = shmem
  BY DEF BreakOff
<1>3. TypeOKConversion' /\ StaticsTyped'
  <2>1. at' \in 0 .. Len(source)
    BY <1>1, ComesSays
  <2> QED
    BY <1>1, <1>2, <2>1, ComesSays, TypeOKKept
<1>4. status' \notin {"start", "walk", "done"}
  BY <1>1
<1> QED
  BY <1>3, <1>4 DEF ConvInv, CallsDeclared

LEMMA SameMeaning ==
    ASSUME source' = source, usedModel' = usedModel, text' = text, at' = at
    PROVE  /\ OpsMeant' <=> OpsMeant
           /\ (\A p \in Places : OpAt(p).comm # None => MakesComm(OpAt(p).comm))' <=>
              (\A p \in Places : OpAt(p).comm # None => MakesComm(OpAt(p).comm))
<1>1. Places' = Places /\ \A p : OpAt(p)' = OpAt(p)
  BY SameText
<1>2. ASSUME NEW p PROVE OpMeant(p)' <=> OpMeant(p)
  <2>1. \A c : CommMeant(p[1], c)' <=> CommMeant(p[1], c)
    BY Zenon DEF CommMeant, IsWorld, OpAt
  <2> QED
    BY <1>1, <2>1, MeaningKept, Zenon DEF OpMeant, Left
<1>3. \A c : MakesComm(c)' <=> MakesComm(c)
  BY <1>1, Zenon DEF MakesComm
<1> QED
  BY <1>1, <1>2, <1>3, Zenon DEF OpsMeant

LEMMA SameKeeps ==
    ASSUME ConvInv, text' = text, at' = at, declared' = declared, hasMain' = hasMain,
           usedModel' = usedModel, source' = source, values' = values,
           mpi' = mpi, nccl' = nccl, shmem' = shmem,
           status' = status \/ (status = "start" /\ status' = "walk")
    PROVE  ConvInv'
<1>1. TypeOKConversion /\ StaticsTyped
  BY DEF ConvInv
<1>2. TypeOKConversion' /\ StaticsTyped'
  <2>1. at' \in 0 .. Len(source) /\ status' \in {"start", "walk", "done", "failed", "unreachable", "undefined"}
    BY <1>1 DEF TypeOKConversion
  <2> QED
    BY <1>1, <2>1, TypeOKKept
<1>3. ASSUME Walking PROVE StaticsMeant'
  <2>1. StaticsMeant
    BY <1>3 DEF Walking
  <2>2. \A c : MakesComm(c)' <=> MakesComm(c)
    BY SameText, Zenon DEF MakesComm
  <2>3. \A c : IsWorld(c)' <=> IsWorld(c)
    BY SameText, Zenon DEF IsWorld
  <2>4. \A c, v, l : CommOfVariable(c, v, l)' <=> CommOfVariable(c, v, l)
    BY <2>3, MeaningKept, Zenon DEF CommOfVariable
  <2>5. \A map, l : CommsMeant(map, l)' <=> CommsMeant(map, l)
    BY <2>2, <2>4, Zenon DEF CommsMeant
  <2>6. ValuesMeant' /\ GroupMeant'
    BY <2>1, <2>2, <2>3, Zenon DEF StaticsMeant, ValuesMeant, GroupMeant, CommsBlock
  <2>7. WorldKept(mpi.implicit)' /\ WorldKept(nccl.implicit)' /\ WorldKept(shmem.world)'
    BY <2>1, <2>2, Zenon DEF StaticsMeant, WorldKept
  <2> QED
    BY <2>1, <2>5, <2>6, <2>7, Zenon DEF StaticsMeant
<1>4. Walking => Walking'
  <2>1. \A j : Untouched(j)' <=> Untouched(j)
    BY Zenon DEF Untouched
  <2> QED
    BY <1>3, <2>1, SameMeaning, Zenon DEF Walking
<1>5. OpsMeant' <=> OpsMeant
  BY SameMeaning
<1>6. CallsDeclared'
  <2>1. Called' = Called
    BY SameText, Zenon DEF Called
  <2>2. status' = "done" => status = "done"
    OBVIOUS
  <2> QED
    BY <2>1, <2>2 DEF ConvInv, CallsDeclared
<1> QED
  BY <1>2, <1>4, <1>5, <1>6 DEF ConvInv

LEMMA StartKeeps ==
    ASSUME ConvInv, StartWalk
    PROVE  ConvInv'
BY SameKeeps DEF StartWalk, Unchanged

LEMMA FailKeeps ==
    ASSUME ConvInv, FailConversion
    PROVE  ConvInv'
<1>1. /\ status' = "failed" /\ text' = text /\ at' = at /\ declared' = declared
      /\ hasMain' = hasMain /\ usedModel' = usedModel /\ source' = source /\ values' = values
      /\ mpi' = mpi /\ nccl' = nccl /\ shmem' = shmem
  BY DEF FailConversion, Unchanged
<1>2. TypeOKConversion /\ StaticsTyped
  BY DEF ConvInv
<1>3. at' \in 0 .. Len(source) /\ status' \in {"start", "walk", "done", "failed", "unreachable", "undefined"}
  BY <1>1, <1>2 DEF TypeOKConversion
<1>4. TypeOKConversion' /\ StaticsTyped'
  BY <1>1, <1>2, <1>3, TypeOKKept
<1> QED
  BY <1>1, <1>4 DEF ConvInv, CallsDeclared

-----------------------------------------------------------------------------
(***************************************************************************)
(* What a step leaves of the statics.                                      *)
(***************************************************************************)
LEMMA KeptStays ==
    ASSUME NEW i, Comes(i), NEW ops, TextAfter(i, ops), NEW c, WorldKept(c)
    PROVE  KeptNext(c)
BY CommKept, Zenon DEF WorldKept, KeptNext

LEMMA ValuesStay ==
    ASSUME NEW i, Comes(i), NEW ops, TextAfter(i, ops), NEW v \in DOMAIN values
    PROVE  ValueNext(values[v], v)
<1>1. ValuesMeant /\ at \in Nat /\ at' = at + 1
  BY ComesSays DEF Walking, StaticsMeant
<1> DEFINE value == values[v]
<1>2. /\ MakesComm(value.comm) /\ value.by \in 1 .. at /\ value.by \in QueriesOf(source, v)
      /\ NothingMisread(source) /\ IsWorld(value.comm) => MeansAll(source)[value.by]
  BY <1>1, Zenon DEF ValuesMeant
<1>3. MadeNext(value.comm) /\ (WorldNext(value.comm) <=> IsWorld(value.comm))
  BY <1>2, CommKept
<1> HIDE DEF value
<1>4. value.by \in 1 .. at'
  BY <1>1, <1>2
<1> QED
  BY <1>2, <1>3, <1>4, Zenon DEF ValueNext, value

LEMMA GroupStays ==
    ASSUME NEW i, Comes(i), nccl'.started = nccl.started, CommsBlock',
           "nccl" \in Converters(usedModel) => source[i].fn \notin {"ncclGroupStart", "ncclGroupEnd"}
    PROVE  GroupMeant'
<1>1. GroupMeant /\ at \in Nat /\ at' = at + 1 /\ at' = i /\ source' = source /\ usedModel' = usedModel
  BY ComesSays DEF Walking, StaticsMeant
<1> DEFINE Open(n) == \E s \in 1 .. n : /\ source[s].fn = "ncclGroupStart"
                                        /\ \A e \in s .. n : source[e].fn # "ncclGroupEnd"
<1>2. ASSUME "nccl" \in Converters(usedModel)
      PROVE  Open(at') <=> Open(at)
  <2>1. source[at'].fn # "ncclGroupStart" /\ source[at'].fn # "ncclGroupEnd"
    BY <1>1, <1>2
  <2>2. ASSUME NEW s \in 1 .. at', source[s].fn = "ncclGroupStart",
               \A e \in s .. at' : source[e].fn # "ncclGroupEnd"
        PROVE  Open(at)
    <3>1. s \in 1 .. at
      BY <1>1, <2>1, <2>2
    <3>2. \A e \in s .. at : source[e].fn # "ncclGroupEnd"
      BY <1>1, <2>2
    <3> QED
      BY <2>2, <3>1, <3>2, Zenon
  <2>3. ASSUME NEW s \in 1 .. at, source[s].fn = "ncclGroupStart",
               \A e \in s .. at : source[e].fn # "ncclGroupEnd"
        PROVE  Open(at')
    <3>1. s \in 1 .. at'
      BY <1>1
    <3>2. \A e \in s .. at' : source[e].fn # "ncclGroupEnd"
      BY <1>1, <2>1, <2>3
    <3> QED
      BY <2>3, <3>1, <3>2, Zenon
  <2> QED
    BY <2>2, <2>3, Zenon
<1>3. GroupMeant' <=>
        /\ CommsBlock'
        /\ "nccl" \in Converters(usedModel) => (nccl'.started <=> Open(at'))
  BY <1>1, Zenon DEF GroupMeant
<1> QED
  BY <1>1, <1>2, <1>3, Zenon DEF GroupMeant

(* The mapping of a library that the call is not of, or sets nothing for.  *)
LEMMA CommsStay ==
    ASSUME NEW i, Comes(i), NEW ops, TextAfter(i, ops),
           NEW map, NEW converter \in Libraries, CommsMeant(map, converter),
           \/ source[i].fn \notin Setting
           \/ \E other \in Libraries \ {converter} : source[i].fn \in Handles(other)
    PROVE  CommsNext(map, converter)
<1>1. ASSUME NEW v \in DOMAIN map PROVE NameNext(map[v], v, converter)
  <2>1. v # NoName
    BY Zenon DEF CommsMeant
  <2>2. source[i].fn \notin Setting => source[i].result = NoName
    BY ComesSays, Zenon DEF CallTyped
  <2>3. \/ source[i].result # v
        \/ \E other \in Libraries \ {converter} : source[i].fn \in Handles(other)
    BY <2>1, <2>2, Zenon
  <2> QED
    BY <2>3, NameKept
<1> QED
  BY <1>1, Zenon DEF CommsNext

(***************************************************************************)
(* A call that no conversion in use handles.                               *)
(***************************************************************************)
LEMMA ConvertersAre == \A model : Converters(model) \subseteq Libraries
BY Zenon DEF Converters, Libraries

LEMMA PassKeeps ==
    ASSUME ConvInv, NEW i \in DOMAIN source, PassCall(i)
    PROVE  ConvInv'
<1>1. Comes(i)
  BY DEF PassCall, Comes
<1>2. /\ text' = text /\ values' = values /\ mpi' = mpi /\ nccl' = nccl /\ shmem' = shmem
      /\ status' = status /\ \A l \in Libraries : ~ Converted(i, l)
  BY DEF PassCall, Libraries
<1>3. /\ i = at + 1 /\ at \in Nat /\ i \in 1 .. Len(source) /\ source' = source
      /\ usedModel' = usedModel /\ Untouched(i) /\ StaticsMeant /\ CallTyped(source[i])
  BY <1>1, ComesSays DEF Walking
<1>4. DOMAIN text = 0 .. Len(source) /\ \A j \in DOMAIN text : text[j] \in Seq(TextOp)
  BY <1>1, ComesSays DEF TypeOKConversion
<1>5. TextAfter(i, text[i])
  <2>1. \A j \in DOMAIN source : j > i => Untouched(j)'
    <3>1. \A j \in DOMAIN source : j > at => Untouched(j)
      BY <1>1, ComesSays DEF Walking
    <3>2. \A j : Untouched(j)' <=> Untouched(j)
      BY <1>2, <1>3, Zenon DEF Untouched
    <3>3. \A j \in DOMAIN source : j > i => j > at
      BY <1>3
    <3> QED
      BY <3>1, <3>2, <3>3, Zenon
  <2>2. Places' = Places /\ \A p : text'[p[1]][p[2]] = OpAt(p)
    BY <1>2, SameText, Zenon DEF OpAt
  <2> QED
    BY <1>2, <1>4, <2>1, <2>2, Zenon DEF TextAfter
<1>6. \/ text[i] = <<Made(source[i].path,
                          IF source[i].fn \in BranchKinds THEN source[i].fn ELSE "call",
                          source[i].fn, None)>>
      \/ /\ source[i].fn = "MPI_Wait"
         /\ Len(text[i]) = 1 /\ text[i][1].kind = "wait" /\ text[i][1].comm = None
  BY <1>3 DEF Untouched, InitialText
<1>7. /\ DOMAIN text[i] = {1} /\ text[i][1].comm = None /\ text[i] # <<>>
      /\ \/ text[i][1].kind = "wait" /\ source[i].fn = "MPI_Wait"
         \/ text[i][1].kind = source[i].fn /\ source[i].fn \in BranchKinds
         \/ /\ text[i][1].kind = "call" /\ text[i][1].type = source[i].fn
            /\ source[i].fn \notin BranchKinds
  <2>1. text[i] \in Seq(TextOp)
    BY <1>3, <1>4
  <2> DEFINE op == Made(source[i].path,
                        IF source[i].fn \in BranchKinds THEN source[i].fn ELSE "call",
                        source[i].fn, None)
  <2>2. /\ op.comm = None /\ op.type = source[i].fn
        /\ op.kind = IF source[i].fn \in BranchKinds THEN source[i].fn ELSE "call"
    BY DEF Made
  <2> HIDE DEF op
  <2>3. CASE text[i] = <<op>>
    BY <2>2, <2>3
  <2>4. CASE /\ source[i].fn = "MPI_Wait"
             /\ Len(text[i]) = 1 /\ text[i][1].kind = "wait" /\ text[i][1].comm = None
    BY <2>1, <2>4
  <2> QED
    BY <1>6, <2>3, <2>4 DEF op
<1>8. text[i][1].kind = "call" => Left(i)
  BY <1>2, <1>7, ConvertersAre, Zenon DEF Converted, IsCall, Left
<1>9. ASSUME NEW k \in DOMAIN text[i] PROVE OpGood(i, text[i][k])
  <2>1. k = 1
    BY <1>7
  <2>2. \A kind \in BranchKinds : kind \notin {"coll", "send", "recv", "call"}
    BY DEF BranchKinds
  <2>3. "wait" \notin {"coll", "send", "recv", "call"} /\ "call" \notin {"coll", "send", "recv"}
    OBVIOUS
  <2> QED
    BY <1>7, <1>8, <2>1, <2>2, <2>3 DEF OpGood
<1>10. \A l \in Libraries : l \in Converters(usedModel) =>
         /\ source[i].fn \in Setting \union {"ncclGroupStart", "ncclGroupEnd"} =>
                source[i].fn \notin Handles(l)
  <2>1. ASSUME source[i].fn \in Setting \union {"ncclGroupStart", "ncclGroupEnd"}
        PROVE  source[i].fn \notin BranchKinds /\ source[i].fn # "MPI_Wait"
    BY <2>1 DEF Setting, NCCLInits, BranchKinds
  <2> QED
    BY <1>7, <1>8, <2>1 DEF Left
<1>11. ASSUME NEW map, NEW l \in Libraries, CommsMeant(map, l)
       PROVE  CommsNext(map, l)
  <2>1. CASE source[i].fn \notin Setting
    BY <1>1, <1>5, <1>11, <2>1, CommsStay
  <2>2. CASE source[i].fn \in Setting
    <3>1. PICK b \in Libraries : source[i].fn \in Handles(b)
      BY <2>2, SettersHandled DEF Setting, Libraries
    <3>2. CASE b # l
      BY <1>1, <1>5, <1>11, <3>1, <3>2, CommsStay
    <3>3. CASE b = l
      <4>1. l \notin Converters(usedModel)
        BY <1>10, <2>2, <3>1, <3>3
      <4>2. ASSUME NEW v \in DOMAIN map PROVE NameNext(map[v], v, l)
        <5>1. v = World
          BY <1>11, <4>1, Zenon DEF CommsMeant
        <5>2. source[i].result # v
          BY <1>3, <5>1, Zenon DEF CallTyped
        <5> QED
          BY <1>1, <1>5, <1>11, <5>2, NameKept
      <4> QED
        BY <4>2, Zenon DEF CommsNext
    <3> QED
      BY <3>2, <3>3
  <2> QED
    BY <2>1, <2>2
<1>12. StaticsNext
  <2>1. CommsNext(mpi.comms, "mpi") /\ CommsNext(nccl.comms, "nccl") /\ CommsNext(shmem.comms, "shmem")
    BY <1>3, <1>11 DEF StaticsMeant, Libraries
  <2>2. KeptNext(mpi.implicit) /\ KeptNext(nccl.implicit) /\ KeptNext(shmem.world)
    BY <1>1, <1>3, <1>5, KeptStays, Zenon DEF StaticsMeant
  <2>3. \A v \in DOMAIN values : ValueNext(values[v], v)
    BY <1>1, <1>5, ValuesStay, Zenon
  <2>4. GroupMeant'
    <3>1. "ncclGroupStart" \in Handles("nccl") /\ "ncclGroupEnd" \in Handles("nccl") /\ "nccl" \in Libraries
      BY DEF Handles, CalleesNCCL, Libraries
    <3>2. "nccl" \in Converters(usedModel) => source[i].fn \notin {"ncclGroupStart", "ncclGroupEnd"}
      BY <1>10, <3>1
    <3>3. CommsBlock'
      BY <1>2, <1>3, Zenon DEF StaticsMeant, GroupMeant, CommsBlock
    <3> QED
      BY <1>1, <1>2, <3>2, <3>3, GroupStays
  <2> QED
    BY <1>2, <2>1, <2>2, <2>3, <2>4, Zenon DEF StaticsNext
<1>13. StaticsTyped' /\ NCCLTyped'
  <2>1. StaticsTyped /\ NCCLTyped
    BY <1>1, ComesSays DEF TypeOKConversion, NCCLTyped
  <2> QED
    BY <1>2, <1>3, <2>1, TypesKept, Zenon DEF StaticsTyped, RolesKnown, NCCLTyped
<1> QED
  BY <1>1, <1>2, <1>5, <1>9, <1>12, <1>13, HandledKeeps

-----------------------------------------------------------------------------
(***************************************************************************)
(* The end of the pass.                                                    *)
(***************************************************************************)
LEMMA GoneTyped == Gone \in TextOp /\ Gone.kind = "gone" /\ Gone.comm = None
<1>1. Gone = [kind |-> "gone", path |-> <<>>, type |-> NoName, blocking |-> TRUE,
              comm |-> None, mem |-> NoArray, slot |-> 0, count |-> 0, args |-> <<>>]
  BY Zenon DEF Gone, Made
<1>2. NoArray \in Array
  BY DEF NoArray, Array
<1>3. "gone" \in TextKinds /\ NoName \in OpTypes
  BY DEF TextKinds, OpTypes
<1>4. <<>> \in Seq(Argument) /\ <<>> \in Seq((Nat \ {0}) \X {1, 2})
  OBVIOUS
<1> QED
  BY <1>1, <1>2, <1>3, <1>4, NoneTyped DEF TextOp

(* Cleaning up erases operations, and lets others be as they are except for*)
(* their arrays.                                                           *)
Cleaned(new, old) ==
    \/ new = Gone
    \/ new = old
    \/ new = [old EXCEPT !.mem = NoArray, !.slot = 0]

LEMMA CleanedUpIs ==
    ASSUME TypeOKConversion
    PROVE  /\ DOMAIN CleanedUp = DOMAIN text
           /\ \A j \in DOMAIN text :
                /\ CleanedUp[j] \in Seq(TextOp) /\ DOMAIN CleanedUp[j] = DOMAIN text[j]
                /\ \A k \in DOMAIN text[j] : Cleaned(CleanedUp[j][k], text[j][k])
<1> DEFINE New(j, k) == IF <<j, k>> \notin LivePlaces THEN Gone
                        ELSE IF text[j][k].mem \notin AwaitedArrays
                             THEN [text[j][k] EXCEPT !.mem = NoArray, !.slot = 0]
                        ELSE text[j][k]
<1>1. CleanedUp = [j \in DOMAIN text |-> [k \in DOMAIN text[j] |-> New(j, k)]]
  BY Zenon DEF CleanedUp
<1>2. ASSUME NEW j \in DOMAIN text, NEW k \in DOMAIN text[j]
      PROVE  Cleaned(New(j, k), text[j][k]) /\ New(j, k) \in TextOp
  <2>1. text[j] \in Seq(TextOp)
    BY DEF TypeOKConversion
  <2>2. text[j][k] \in TextOp
    BY <2>1
  <2>3. NoArray \in Array
    BY DEF NoArray, Array
  <2>4. [text[j][k] EXCEPT !.mem = NoArray, !.slot = 0] \in TextOp
    BY <2>2, <2>3 DEF TextOp
  <2> QED
    BY <2>2, <2>4, GoneTyped, Zenon DEF Cleaned
<1> HIDE DEF New
<1>3. ASSUME NEW j \in DOMAIN text
      PROVE  /\ CleanedUp[j] \in Seq(TextOp) /\ DOMAIN CleanedUp[j] = DOMAIN text[j]
             /\ \A k \in DOMAIN text[j] : Cleaned(CleanedUp[j][k], text[j][k])
  <2>1. CleanedUp[j] = [k \in DOMAIN text[j] |-> New(j, k)]
    BY <1>1, Zenon
  <2>2. text[j] \in Seq(TextOp)
    BY DEF TypeOKConversion
  <2>3. [k \in DOMAIN text[j] |-> New(j, k)] \in Seq(TextOp)
    <3> DEFINE n == Len(text[j])
    <3>1. n \in Nat /\ DOMAIN text[j] = 1 .. n
      BY <2>2
    <3> HIDE DEF n
    <3>2. \A k \in 1 .. n : New(j, k) \in TextOp
      BY <1>2, <3>1
    <3>3. [k \in 1 .. n |-> New(j, k)] \in Seq(TextOp)
      BY <3>1, <3>2
    <3> QED
      BY <3>1, <3>3
  <2> QED
    BY <1>2, <2>1, <2>3, Zenon
<1> QED
  BY <1>1, <1>3, Zenon

LEMMA FinishKeeps ==
    ASSUME ConvInv, Finish
    PROVE  ConvInv'
<1>1. /\ status = "walk" /\ status' = "done" /\ at = Len(source) /\ at' = at
      /\ hasMain' = hasMain /\ usedModel' = usedModel /\ source' = source /\ values' = values
      /\ mpi' = mpi /\ nccl' = nccl /\ shmem' = shmem
  BY DEF Finish, Unchanged
<1>2. TypeOKConversion /\ StaticsTyped /\ Walking /\ OpsMeant
  BY <1>1 DEF ConvInv
<1> DEFINE kept == declared \ UNION {Deletes(c) : c \in Converters(usedModel)}
<1>3. \/ CleansUp /\ text' = CleanedUp /\ declared' = kept \intersect Called
      \/ ~ CleansUp /\ text' = text /\ declared' = kept
  BY Zenon DEF Finish
<1>4. DOMAIN text = 0 .. Len(source) /\ \A j \in DOMAIN text : text[j] \in Seq(TextOp)
  BY <1>2 DEF TypeOKConversion
<1>5. /\ DOMAIN text' = DOMAIN text
      /\ \A j \in DOMAIN text : text'[j] \in Seq(TextOp) /\ DOMAIN text'[j] = DOMAIN text[j]
      /\ \A j \in DOMAIN text : \A k \in DOMAIN text[j] : Cleaned(text'[j][k], text[j][k])
  BY <1>2, <1>3, <1>4, CleanedUpIs, Zenon DEF Cleaned
<1>6. Places' = Places
  BY <1>5, PlaceParts
<1>7. ASSUME NEW p \in Places
      PROVE  \/ OpAt(p)'.kind = "gone" /\ OpAt(p)'.comm = None
             \/ /\ OpAt(p)'.kind = OpAt(p).kind /\ OpAt(p)'.comm = OpAt(p).comm
                /\ OpAt(p)'.type = OpAt(p).type /\ OpAt(p)'.blocking = OpAt(p).blocking
  <2>1. p[1] \in DOMAIN text /\ p[2] \in DOMAIN text[p[1]]
    BY PlaceParts
  <2>2. Cleaned(text'[p[1]][p[2]], text[p[1]][p[2]])
    BY <1>5, <2>1
  <2>3. text[p[1]][p[2]] \in TextOp
    BY <1>4, <2>1
  <2> QED
    BY <2>2, <2>3, GoneTyped DEF Cleaned, OpAt, TextOp
<1>8. TypeOKConversion'
  <2>1. /\ hasMain' \in BOOLEAN /\ usedModel' \in STRING /\ CallsTyped'
        /\ at' \in 0 .. Len(source')
    BY <1>1, <1>2, TypesKept, Zenon DEF TypeOKConversion
  <2>2. DOMAIN text' = 0 .. Len(source') /\ \A j \in DOMAIN text' : text'[j] \in Seq(TextOp')
    BY <1>1, <1>4, <1>5, TypesKept
  <2>3. declared' \subseteq STRING
    BY <1>2, <1>3 DEF TypeOKConversion
  <2>4. status' \in {"start", "walk", "done", "failed", "unreachable", "undefined"}
    BY <1>1
  <2> QED
    BY <1>1, <1>2, <1>6, <2>1, <2>2, <2>3, <2>4, TypesKept, Zenon DEF TypeOKConversion
<1>9. StaticsTyped'
  BY <1>1, <1>2, Zenon DEF StaticsTyped, RolesKnown
<1>10. ASSUME NEW p \in Places PROVE OpMeant(p)'
  <2>1. OpMeant(p)
    BY <1>2 DEF OpsMeant
  <2>2. CASE OpAt(p)'.kind = "gone" /\ OpAt(p)'.comm = None
    BY <2>2 DEF OpMeant
  <2>3. CASE /\ OpAt(p)'.kind = OpAt(p).kind /\ OpAt(p)'.comm = OpAt(p).comm
             /\ OpAt(p)'.type = OpAt(p).type /\ OpAt(p)'.blocking = OpAt(p).blocking
    <3>1. ASSUME NEW c, c = OpAt(p).comm, c # None
          PROVE  CommMeant(p[1], c)'
      <4>1. MakesComm(c) /\ CommMeant(p[1], c)
        BY <1>2, <2>1, <3>1, Zenon DEF Walking, OpMeant
      <4>2. IsWorld(c)' => IsWorld(c)
        <5>1. c \in Places
          BY <4>1 DEF MakesComm
        <5> QED
          BY <1>7, <5>1 DEF IsWorld
      <4> QED
        BY <1>1, <4>1, <4>2, Zenon DEF CommMeant
    <3> QED
      BY <1>1, <2>1, <2>3, <3>1, MeaningKept, Zenon DEF OpMeant, Left
  <2> QED
    BY <1>7, <2>2, <2>3
<1>11. OpsMeant'
  BY <1>6, <1>10, Zenon DEF OpsMeant
<1>12. ASSUME NEW p \in Places, OpAt(p)'.kind = "call", OpAt(p)'.type # "ncclCommGetAsyncError"
       PROVE  OpAt(p)'.type \in declared'
  <2>1. OpAt(p).kind = "call" /\ OpAt(p)'.type = OpAt(p).type
    BY <1>7, <1>12
  <2>2. /\ p[1] \in DOMAIN source /\ OpAt(p).type = source[p[1]].fn
        /\ source[p[1]].fn \notin BranchKinds /\ (p[1] <= at => Left(p[1]))
    BY <1>2, <2>1 DEF OpsMeant, OpMeant
  <2> DEFINE fn == source[p[1]].fn
  <2>3. Left(p[1]) /\ fn # "shmem_alloc"
    BY <1>1, <1>2, <2>2 DEF TypeOKConversion, CallsTyped, CallTyped
  <2>4. fn \in declared
    BY <1>2, <2>2, Zenon DEF Walking
  <2>5. ASSUME NEW c \in Converters(usedModel), fn \in Deletes(c) PROVE FALSE
    <3>1. fn \notin Handles(c) /\ c \in Libraries
      BY <2>3, ConvertersAre, Zenon DEF Left
    <3>2. fn # "ncclCommGetAsyncError"
      BY <1>12, <2>1, <2>2
    <3>3. CASE c = "mpi"
      BY <2>5, <3>1, <3>3 DEF Deletes, Handles
    <3>4. CASE c = "nccl"
      BY <2>5, <3>1, <3>2, <3>4 DEF Deletes, Handles
    <3>5. CASE c = "shmem"
      BY <2>3, <2>5, <3>1, <3>5 DEF Deletes, Handles
    <3> QED
      BY <3>1, <3>3, <3>4, <3>5 DEF Libraries
  <2>6. fn \in kept
    BY <2>4, <2>5
  <2>7. fn \in Called
    BY <2>1, <2>2 DEF Called
  <2> QED
    BY <1>3, <2>1, <2>2, <2>6, <2>7
<1>13. CallsDeclared'
  <2>1. \A p \in Places' : /\ OpAt(p)'.kind = "call" /\ OpAt(p)'.type # "ncclCommGetAsyncError"
                           => OpAt(p)'.type \in declared'
    BY <1>6, <1>12
  <2> QED
    BY <2>1 DEF CallsDeclared, Called
<1> QED
  BY <1>1, <1>8, <1>9, <1>11, <1>13 DEF ConvInv

-----------------------------------------------------------------------------
(* At the start all calls stand as they are, and nothing is known.         *)
LEMMA InitKeeps ==
    ASSUME InitConversion
    PROVE  ConvInv
<1>1. /\ hasMain \in BOOLEAN /\ usedModel \in STRING /\ CallsTyped /\ text = InitialText(source)
      /\ at = 0 /\ values = <<>> /\ status = "start"
      /\ declared = {source[i].fn : i \in DOMAIN source} \ BranchKinds
  BY DEF InitConversion
<1>2. /\ mpi = [comms |-> <<>>, requests |-> {}, args |-> <<>>, implicit |-> None]
      /\ nccl = [comms |-> <<>>, args |-> <<>>, implicit |-> None, blocking |-> <<>>,
                 started |-> FALSE, group |-> NoArray, num |-> 0]
      /\ shmem = [comms |-> <<>>, world |-> None]
  BY DEF InitConversion, InitStatics, InitMPI, InitNCCL, InitSHMEM
<1>3. source \in Seq(ApiCall) /\ \A i \in DOMAIN source : source[i] \in ApiCall
  BY <1>1 DEF CallsTyped
<1>4. DOMAIN text = 0 .. Len(source) /\ text[0] = <<>>
  BY <1>1, <1>3 DEF InitialText
<1> DEFINE Kept(i) == Made(source[i].path,
                           IF source[i].fn \in BranchKinds THEN source[i].fn ELSE "call",
                           source[i].fn, None)
<1>5. ASSUME NEW i \in DOMAIN source
      PROVE  /\ text[i] = <<Kept(i)>> /\ Kept(i) \in TextOp /\ Kept(i).comm = None
             /\ Kept(i).kind \in BranchKinds \/ (/\ Kept(i).kind = "call" /\ Kept(i).type = source[i].fn
                                                 /\ source[i].fn \notin BranchKinds)
  <2>1. text[i] = <<Kept(i)>>
    BY <1>1, <1>3 DEF InitialText
  <2>2. source[i].path \in Seq((Nat \ {0}) \X {1, 2}) /\ source[i].fn \in OpTypes
    BY <1>3 DEF ApiCall, OpTypes
  <2>3. NoArray \in Array /\ BranchKinds \subseteq TextKinds /\ "call" \in TextKinds
    BY DEF NoArray, Array, TextKinds
  <2> DEFINE kind == IF source[i].fn \in BranchKinds THEN source[i].fn ELSE "call"
  <2>4. kind \in TextKinds /\ (kind \in BranchKinds \/ (kind = "call" /\ source[i].fn \notin BranchKinds))
    BY <2>3
  <2>5. Kept(i) = [kind |-> kind, path |-> source[i].path, type |-> source[i].fn, blocking |-> TRUE,
                   comm |-> None, mem |-> NoArray, slot |-> 0, count |-> 0, args |-> <<>>]
    BY Zenon DEF Made
  <2>6. <<>> \in Seq(Argument)
    OBVIOUS
  <2> HIDE DEF kind, Kept
  <2> QED
    BY <2>1, <2>2, <2>3, <2>4, <2>5, <2>6, NoneTyped DEF TextOp
<1> HIDE DEF Kept
<1>6. ASSUME NEW p \in Places
      PROVE  p[1] \in DOMAIN source /\ OpAt(p) = Kept(p[1])
  <2>1. p[1] \in DOMAIN text /\ p[2] \in DOMAIN text[p[1]]
    BY PlaceParts
  <2>2. p[1] # 0
    BY <1>4, <2>1
  <2>3. p[1] \in DOMAIN source
    BY <1>3, <1>4, <2>1, <2>2
  <2>4. p[2] = 1
    BY <1>5, <2>1, <2>3
  <2> QED
    BY <1>5, <2>3, <2>4 DEF OpAt
<1>7. DOMAIN <<>> = {} /\ None \in Places \union {None}
  OBVIOUS
<1>8. TypeOKConversion
  <2>1. \A i \in DOMAIN text : text[i] \in Seq(TextOp)
    <3>1. \A i \in DOMAIN text : i = 0 \/ i \in DOMAIN source
      BY <1>3, <1>4
    <3>2. ASSUME NEW i \in DOMAIN source PROVE text[i] \in Seq(TextOp)
      <4>1. <<Kept(i)>> \in Seq(TextOp)
        BY <1>5
      <4> QED
        BY <1>5, <4>1, Zenon
    <3>3. text[0] \in Seq(TextOp)
      BY <1>4
    <3> QED
      BY <3>1, <3>2, <3>3
  <2>2. /\ mpi.comms = <<>> /\ nccl.comms = <<>> /\ shmem.comms = <<>>
        /\ mpi.implicit = None /\ nccl.implicit = None /\ shmem.world = None
        /\ nccl.started = FALSE /\ nccl.num = 0 /\ nccl.group = NoArray
    BY <1>2
  <2>3. NoArray \in Array
    BY DEF NoArray, Array
  <2>4. declared \subseteq STRING
    BY <1>1, <1>3 DEF ApiCall
  <2>5. /\ \A v \in DOMAIN values : values[v].comm \in Places
        /\ \A v \in DOMAIN mpi.comms : mpi.comms[v] \in Places
        /\ \A v \in DOMAIN nccl.comms : nccl.comms[v] \in DOMAIN nccl.blocking
        /\ \A v \in DOMAIN shmem.comms : shmem.comms[v] \in Places
    BY <1>1, <1>7, <2>2
  <2>6. /\ {mpi.implicit, nccl.implicit, shmem.world} \subseteq Places \union {None}
        /\ nccl.started \in BOOLEAN /\ nccl.num \in Nat /\ nccl.group \in Array
        /\ nccl.num = 0 <=> nccl.group = NoArray
    <3>1. {mpi.implicit, nccl.implicit, shmem.world} \subseteq Places \union {None}
      BY <2>2
    <3>2. nccl.started \in BOOLEAN
      BY <2>2, Zenon
    <3>3. nccl.num \in Nat /\ nccl.group \in Array /\ (nccl.num = 0 <=> nccl.group = NoArray)
      BY <2>2, <2>3
    <3> QED
      BY <3>1, <3>2, <3>3, Zenon
  <2>7. at \in 0 .. Len(source) /\ status \in {"start", "walk", "done", "failed", "unreachable", "undefined"}
    BY <1>1, <1>3
  <2> QED
    BY <1>1, <1>4, <2>1, <2>4, <2>5, <2>6, <2>7, Zenon DEF TypeOKConversion
<1>9. StaticsTyped
  <2>1. RolesKnown(<<>>)
    BY <1>7 DEF RolesKnown
  <2> QED
    BY <1>2, <2>1 DEF StaticsTyped
<1>10. StaticsMeant
  <2>1. \A l : CommsMeant(<<>>, l)
    BY <1>7, Zenon DEF CommsMeant
  <2>2. WorldKept(None) /\ ValuesMeant
    BY <1>1, <1>7, Zenon DEF WorldKept, ValuesMeant
  <2>3. GroupMeant
    BY <1>1, <1>2, <1>7 DEF GroupMeant, CommsBlock
  <2>4. mpi.comms = <<>> /\ nccl.comms = <<>> /\ shmem.comms = <<>>
        /\ mpi.implicit = None /\ nccl.implicit = None /\ shmem.world = None
    BY <1>2
  <2> QED
    BY <2>1, <2>2, <2>3, <2>4, Zenon DEF StaticsMeant
<1>11. Walking
  <2>1. \A i \in DOMAIN source : Untouched(i)
    BY <1>1 DEF Untouched
  <2>2. \A p \in Places : OpAt(p).comm = None
    BY <1>5, <1>6
  <2> QED
    BY <1>1, <1>10, <2>1, <2>2, Zenon DEF Walking
<1>12. OpsMeant
  <2>1. ASSUME NEW p \in Places PROVE OpMeant(p)
    <3>1. \A kind \in BranchKinds : kind \notin {"coll", "send", "recv", "call"}
      BY DEF BranchKinds
    <3>2. ~ (p[1] <= at)
      BY <1>1, <1>3, <1>6
    <3> QED
      BY <1>5, <1>6, <3>1, <3>2 DEF OpMeant
  <2> QED
    BY <2>1 DEF OpsMeant
<1> QED
  BY <1>1, <1>8, <1>9, <1>11, <1>12 DEF ConvInv, CallsDeclared

-----------------------------------------------------------------------------
(***************************************************************************)
(* What all handlers have in common.                                       *)
(***************************************************************************)
LEMMA Replaced ==
    ASSUME NEW i, Comes(i), NEW comm, NEW ops, ReplaceBy(i, comm, ops)
    PROVE  Rewritten(i, comm, ops, {}) /\ status' = status
<1>1. i \in 1 .. Len(source) /\ DOMAIN text = 0 .. Len(source)
  BY ComesSays DEF TypeOKConversion
<1>2. i # 0 /\ i \in DOMAIN text /\ 0 \in DOMAIN text
  BY <1>1
<1>3. text' = [text EXCEPT ![i] = ops,
                           ![0] = IF comm = NewWorld THEN Append(@, StartWorld) ELSE @]
  BY Zenon DEF ReplaceBy, StartWorld
<1>4. status' = status
  BY DEF ReplaceBy
<1>5. \A j \in DOMAIN text :
        text'[j] = IF j = i THEN ops
                   ELSE IF j \in {} THEN <<WaitFor(j, ArrayOf(i), 2)>>
                   ELSE IF j = 0 /\ comm = NewWorld THEN Append(text[0], StartWorld)
                   ELSE text[j]
  BY <1>2, <1>3
<1>6. text' = [j \in DOMAIN text |-> text'[j]]
  BY <1>3, Zenon
<1> QED
  BY <1>4, <1>5, <1>6, Zenon DEF Rewritten

LEMMA TextReplaced ==
    ASSUME NEW i, Comes(i), NEW comm, NEW ops \in Seq(TextOp), ReplaceBy(i, comm, ops)
    PROVE  TextAfter(i, ops)
<1>1. Rewritten(i, comm, ops, {})
  BY Replaced
<1>2. {} \in SUBSET {j \in DOMAIN source : j > i /\ source[j].fn = "MPI_Wait"}
  OBVIOUS
<1> QED
  BY <1>1, <1>2, TextRewritten

LEMMA OneOp ==
    ASSUME NEW op \in TextOp
    PROVE  /\ <<op>> \in Seq(TextOp)
           /\ \A k \in DOMAIN <<op>> : <<op>>[k] = op
OBVIOUS

LEMMA PlaceTyped ==
    ASSUME TypeOKConversion, NEW p \in Places
    PROVE  p \in Nat \X Nat
<1>1. p = <<p[1], p[2]>> /\ p[1] \in DOMAIN text /\ p[2] \in DOMAIN text[p[1]]
  BY PlaceParts
<1>2. DOMAIN text = 0 .. Len(source) /\ text[p[1]] \in Seq(TextOp) /\ source \in Seq(ApiCall)
  BY <1>1 DEF TypeOKConversion, CallsTyped
<1>3. p[1] \in Nat /\ p[2] \in Nat
  BY <1>1, <1>2
<1> QED
  BY <1>1, <1>3

LEMMA NewWorldTyped ==
    ASSUME TypeOKConversion
    PROVE  NewWorld \in Nat \X Nat /\ NewWorld # None
<1>1. text[0] \in Seq(TextOp)
  <2>1. 0 \in DOMAIN text
    BY DEF TypeOKConversion, CallsTyped
  <2> QED
    BY <2>1 DEF TypeOKConversion
<1> DEFINE n == Len(text[0])
<1>2. n \in Nat
  BY <1>1
<1> HIDE DEF n
<1>3. NewWorld = <<0, n + 1>>
  BY DEF NewWorld, n
<1> QED
  BY <1>2, <1>3 DEF None

(* An operation of a handler that has no communicator.                     *)
LEMMA PlainGood ==
    ASSUME NEW i, NEW op, op.comm = None, op.kind \notin {"coll", "send", "recv", "call"}
    PROVE  OpGood(i, op)
BY DEF OpGood

(* One on a communicator that is no collective and no message.             *)
LEMMA OnCommGood ==
    ASSUME NEW i, NEW op, MadeNext(op.comm), MeantNext(i, op.comm),
           op.kind \notin {"coll", "send", "recv", "call"}
    PROVE  OpGood(i, op)
BY DEF OpGood

LEMMA CommunicationGood ==
    ASSUME NEW i, NEW op, MadeNext(op.comm), MeantNext(i, op.comm), op.kind # "call",
           op.blocking <=> BlocksFor(i)
    PROVE  OpGood(i, op)
BY DEF OpGood

(* The value of a query.                                                   *)
LEMMA ValueFound ==
    ASSUME NEW i, Comes(i), NEW comm, MadeNext(comm), MeantNext(i, comm), source[i].fn \in Querying,
           NEW what
    PROVE  ValueNext([what |-> what, comm |-> comm, by |-> i], source[i].var)
<1>1. i \in 1 .. at' /\ i \in DOMAIN source
  BY ComesSays
<1>2. i \in QueriesOf(source, source[i].var)
  BY <1>1 DEF QueriesOf
<1> DEFINE value == [what |-> what, comm |-> comm, by |-> i]
<1>3. value.comm = comm /\ value.by = i
  OBVIOUS
<1> HIDE DEF value
<1> QED
  BY <1>1, <1>2, <1>3, Zenon DEF ValueNext, MeantNext, value

LEMMA LoadsReplaced ==
    ASSUME NEW i, Comes(i), NEW ops, TextAfter(i, ops),
           NEW comm, MadeNext(comm), MeantNext(i, comm), source[i].fn \in Querying, NEW what,
           \/ ReplaceLoads(source[i].var, what, comm, i)
           \/ ReplaceResult(source[i].var, what, comm, i)
    PROVE  \A v \in DOMAIN values' : ValueNext(values'[v], v)
<1> DEFINE value == [what |-> what, comm |-> comm, by |-> i]
           var == source[i].var
<1>1. ValueNext(value, var)
  BY ValueFound
<1>2. \A v \in DOMAIN values : ValueNext(values[v], v)
  BY ValuesStay
<1>3. values' = values \/ values' = Put(values, var, value)
  BY Zenon DEF ReplaceLoads, ReplaceResult
<1> HIDE DEF value
<1>4. CASE values' = values
  BY <1>2, <1>4
<1>5. CASE values' = Put(values, var, value)
  <2>1. /\ DOMAIN values' = DOMAIN values \union {var} /\ values'[var] = value
        /\ \A k \in DOMAIN values : k # var => values'[k] = values[k]
    <3> DEFINE put == Put(values, var, value)
    <3>1. /\ DOMAIN put = DOMAIN values \union {var} /\ put[var] = value
          /\ \A k \in DOMAIN values : k # var => put[k] = values[k]
      BY DEF Put
    <3> HIDE DEF put
    <3>2. values' = put
      BY <1>5 DEF put
    <3> QED
      BY <3>1, <3>2
  <2>2. ASSUME NEW v \in DOMAIN values' PROVE ValueNext(values'[v], v)
    <3>1. CASE v = var
      BY <1>1, <2>1, <3>1
    <3>2. CASE v # var
      <4>1. v \in DOMAIN values /\ values'[v] = values[v]
        BY <2>1, <3>2
      <4> QED
        BY <1>2, <4>1
    <3> QED
      BY <3>1, <3>2
  <2> QED
    BY <2>2
<1> QED
  BY <1>3, <1>4, <1>5

LEMMA ValuesSame ==
    ASSUME NEW i, Comes(i), NEW ops, TextAfter(i, ops), values' = values
    PROVE  \A v \in DOMAIN values' : ValueNext(values'[v], v)
BY ValuesStay, Zenon

(* The communicator that the first operation for a call makes.             *)
LEMMA NewMade ==
    ASSUME NEW i, Comes(i), NEW op, TextAfter(i, <<op>>), op.kind \in CommKinds
    PROVE  /\ MadeNext(<<i, 1>>)
           /\ WorldNext(<<i, 1>>) <=> op.kind = "world"
<1> DEFINE c == <<i, 1>>
<1>1. c[1] = i /\ c[2] = 1 /\ c = <<c[1], c[2]>>
  OBVIOUS
<1>2. i \in 1 .. Len(source) /\ at' = i
  BY ComesSays
<1> HIDE DEF c
<1>3. i \in DOMAIN text'
  BY <1>2 DEF TextAfter
<1>4. text'[i] = <<op>>
  BY DEF TextAfter
<1>5. 1 \in DOMAIN text'[i] /\ text'[i][1] = op
  BY <1>4
<1>6. c \in Places'
  BY <1>1, <1>3, <1>5, PlaceParts
<1>7. c[1] <= at'
  BY <1>1, <1>2
<1>8. text'[c[1]][c[2]] = op
  BY <1>1, <1>5
<1>9. MadeNext(c) /\ (WorldNext(c) <=> op.kind = "world")
  BY <1>6, <1>7, <1>8, Zenon DEF MadeNext, WorldNext
<1> QED
  BY <1>9 DEF c

(* A mapping in which a call sets its result.                              *)
LEMMA ResultSet ==
    ASSUME NEW i, NEW converter, NEW c, NameNext(c, source[i].result, converter),
           NEW map, \A v \in DOMAIN map : v # source[i].result => NameNext(map[v], v, converter)
    PROVE  CommsNext(Put(map, source[i].result, c), converter)
<1> DEFINE r == source[i].result
           new == Put(map, r, c)
<1>1. /\ DOMAIN new = DOMAIN map \union {r} /\ new[r] = c
      /\ \A v \in DOMAIN map : v # r => new[v] = map[v]
  BY DEF Put
<1> HIDE DEF new
<1>2. \A v \in DOMAIN new : NameNext(new[v], v, converter)
  BY <1>1, Zenon
<1> QED
  BY <1>2, Zenon DEF CommsNext, new

(* The world for calls without a communicator, made for the first of them. *)
LEMMA ImplicitMeant ==
    ASSUME NEW i, Comes(i), source[i].comm \in {World, NoName},
           NEW kept, WorldKept(kept), NEW c, c = IF kept = None THEN NewWorld ELSE kept,
           NEW ops, Rewritten(i, c, ops, {}), TextAfter(i, ops)
    PROVE  MadeNext(c) /\ MeantNext(i, c) /\ KeptNext(c) /\ c[1] = 0
<1>1. MadeNext(c) /\ c[1] = 0
  <2>1. CASE kept = None
    <3>1. c = NewWorld /\ {} \in SUBSET DOMAIN source
      BY <2>1
    <3> QED
      BY <3>1, WorldMade
  <2>2. CASE kept # None
    <3>1. c = kept /\ MakesComm(c) /\ c[1] = 0
      BY <2>2 DEF WorldKept
    <3> QED
      BY <3>1, CommKept
  <2> QED
    BY <2>1, <2>2
<1>2. MeantNext(i, c)
  BY <1>1, WorldMeant
<1> QED
  BY <1>1, <1>2 DEF KeptNext

LEMMA ImplicitTyped ==
    ASSUME TypeOKConversion, NEW kept, WorldKept(kept), NEW c, c = IF kept = None THEN NewWorld ELSE kept
    PROVE  c \in Nat \X Nat /\ c # None
<1>1. CASE kept = None
  BY <1>1, NewWorldTyped
<1>2. CASE kept # None
  BY <1>2, PlaceTyped DEF WorldKept, MakesComm
<1> QED
  BY <1>1, <1>2

=============================================================================
