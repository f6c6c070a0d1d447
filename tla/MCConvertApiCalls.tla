--------------------------- MODULE MCConvertApiCalls ---------------------------
(***************************************************************************)
(* ConvertApiCalls on every small program over the calls named in the      *)
(* .cfg, after a few calls that each of them starts with.                  *)
(***************************************************************************)
EXTENDS ConvertApiCalls

CONSTANTS
    Programs,   \* the families of programs, see Prefix and Templates
    MaxCalls    \* calls of a program besides its prefix

Blank ==
    [fn |-> "", path |-> <<>>, comm |-> "", result |-> "", var |-> "", req |-> "",
     idx |-> <<>>, count |-> 0, constColor |-> FALSE, args |-> <<>>]

Call(fn) == [Blank EXCEPT !.fn = fn]
On(fn, comm) == [Call(fn) EXCEPT !.comm = comm]
Query(fn, comm, var) == [On(fn, comm) EXCEPT !.var = var]
Split(fn, comm, result, var, constColor) ==
    [Query(fn, comm, var) EXCEPT !.result = result, !.constColor = constColor]
InitRank(fn, result, var) == [Query(fn, "", var) EXCEPT !.result = result]
Request(fn, req, idx) == [On(fn, World) EXCEPT !.req = req, !.idx = idx]
Wait(fn, req, idx, count) ==
    [Call(fn) EXCEPT !.req = req, !.idx = idx, !.count = count,
                     !.args = <<<<"status", "variable">>>>]
Args(call, args) == [call EXCEPT !.args = args]

MPIInt == <<"datatype", "MPI_INT">>
NCCLInt == <<"datatype", "2">>
NCCLSum == <<"reduceOp", "0">>
NCCLMax == <<"reduceOp", "2">>
Stream == <<"stream", "variable">>
Null == <<"config", "null">>
Default == <<"config", "default">>

Model(program) ==
    CASE program \in {"splits", "requests", "noMain"} -> "mpi"
      [] program \in {"devices", "memory"} -> "mpi+nccl"
      [] program \in {"groups", "regroups"} -> "nccl"
      [] program = "teams" -> "shmem"
      [] program = "mixedTeams" -> "mpi+shmem"
      [] program = "teamDevices" -> "shmem+nccl"
      [] OTHER -> program

Prefix(program) ==
    CASE program = "splits" -> <<Call("MPI_Init"), Query("MPI_Comm_rank", World, "r")>>
      [] program = "devices" ->
            <<Query("MPI_Comm_size", World, "n"), InitRank("ncclCommInitRank", "c", "n")>>
      [] program = "groups" ->
            <<Query("MPI_Comm_size", World, "n"),
              Args(InitRank("ncclCommInitRankConfig", "c", "n"), <<UniqueId, Default>>)>>
      [] program = "regroups" ->
            <<Query("MPI_Comm_size", World, "n"), InitRank("ncclCommInitRank", "c", "n"),
              Call("ncclGroupStart"), Args(On("ncclSend", "c"), <<NCCLInt, Stream>>),
              Call("ncclGroupEnd")>>
      [] program = "teamDevices" ->
            <<Query("shmem_n_pes", "", "n"), InitRank("ncclCommInitRank", "c", "n")>>
      [] program = "mixedTeams" -> <<Query("shmem_my_pe", "", "r")>>
      [] OTHER -> <<Call("printf")>>

Templates(program) ==
    CASE program = "splits" ->
            {Call("if"), On("MPI_Comm_free", "c"),
             Query("MPI_Comm_rank", "c", "r"), Query("MPI_Comm_rank", "c", "s"),
             Split("MPI_Comm_split", World, "c", "r", TRUE),
             Split("MPI_Comm_split", World, "c", "r", FALSE),
             Split("MPI_Comm_split", "c", "d", "s", TRUE),
             Args(On("MPI_Bcast", "c"), <<MPIInt>>), On("MPI_Barrier", "d")}
      [] program = "requests" ->
            {Call("if"),
             Args(Request("MPI_Isend", "q", <<0>>), <<MPIInt>>),
             Args(Request("MPI_Irecv", "q", <<1>>), <<MPIInt>>),
             Request("MPI_Ibarrier", "q", <<>>), Args(Request("MPI_Ibcast", "p", <<>>), <<MPIInt>>),
             Args(Request("MPI_Isendrecv", "p", <<>>), <<MPIInt, MPIInt>>),
             Wait("MPI_Wait", "q", <<>>, 0), Wait("MPI_Wait", "p", <<>>, 0),
             Wait("MPI_Test", "q", <<1>>, 0), Wait("MPI_Waitall", "q", <<>>, 2)}
      [] program = "devices" ->
            {Call("if"), Query("ncclCommCount", "c", "m"), Query("ncclCommCount", "d", "m"),
             Args(InitRank("ncclCommInitRankConfig", "e", "m"), <<UniqueId, Nonblocking>>),
             Args(On("ncclBcast", "e"), <<NCCLInt, Stream>>),
             Args(Split("ncclCommSplit", "c", "d", "", FALSE), <<Null>>),
             Args(On("ncclAllReduce", "d"), <<NCCLInt, NCCLSum, Stream>>),
             Args(On("ncclReduce", "c"), <<NCCLInt, NCCLMax, Stream>>),
             On("ncclCommDestroy", "d"), On("MPI_Barrier", World),
             Split("MPI_Comm_split", World, "w", "n", TRUE)}
      [] program = "groups" ->
            {Call("for"), Call("ncclGroupStart"), Call("ncclGroupEnd"),
             Args(Split("ncclCommSplit", "c", "d", "", FALSE), <<Null>>),
             Args(On("ncclSend", "c"), <<NCCLInt, Stream>>),
             Args(On("ncclRecv", "c"), <<NCCLInt, Stream>>), Args(On("ncclBcast", "d"), <<NCCLInt, Stream>>),
             On("ncclCommGetAsyncError", "c"), On("ncclCommDestroy", "c")}
      [] program = "regroups" ->
            {Call("for"), Call("ncclGroupStart"), Call("ncclGroupEnd"),
             Args(Split("ncclCommSplit", "c", "d", "", FALSE), <<Null>>),
             Args(On("ncclSend", "c"), <<NCCLInt, Stream>>),
             Args(On("ncclRecv", "c"), <<NCCLInt, Stream>>), Args(On("ncclBcast", "d"), <<NCCLInt, Stream>>)}
      [] program = "teams" ->
            {Call("if"), Call("shmem_init"), Call("shmem_malloc"), Call("shmem_sync_all"),
             Args(Split("shmem_team_split_strided", World, "t", "", FALSE), <<Null>>),
             Args(Split("shmem_team_split_strided", "t", "u", "", FALSE), <<Null>>),
             On("shmem_team_sync", World), On("shmem_int_sum_reduce", "u")}
      [] program = "mixedTeams" ->
            {Call("if"), Call("shmem_sync_all"),
             Args(Split("shmem_team_split_strided", World, "t", "", FALSE), <<Null>>),
             Args(Split("shmem_team_split_strided", "t", "u", "", FALSE), <<Null>>),
             On("shmem_team_sync", "u"),
             Query("shmem_team_my_pe", "t", "s"), On("shmem_team_destroy", "u"),
             Split("MPI_Comm_split", World, "e", "r", TRUE)}
      [] program = "teamDevices" ->
            {Call("if"), On("shmem_team_sync", World), Args(On("ncclBcast", "c"), <<NCCLInt, Stream>>),
             Call("ncclGroupStart"), Call("ncclGroupEnd"), Call("MPI_Barrier")}
      [] program = "memory" ->
            {Call("if"), Call("MPI_Alloc_mem"), Call("ncclMemAlloc"), Call("MPI_Request_free"), Call("MPI_Gatherv"),
             Args(On("MPI_Sendrecv", World), <<MPIInt, MPIInt>>)}
      [] OTHER -> {Call("MPI_Init")}

(***************************************************************************)
(* Where the next item can be: in any region around the last one, in an    *)
(* else region beside one of them, or in the last one itself.              *)
(***************************************************************************)
NextRegions(p) ==
    LET n    == Len(p)
        path == p[n].path
        cuts == {SubSeq(path, 1, k) : k \in 0 .. Len(path)}
        else == {Append(SubSeq(path, 1, k - 1), <<path[k][1], 2>>) :
                    k \in {j \in DOMAIN path : path[j][2] = 1 /\ p[path[j][1]].fn = "if"}}
        in   == IF p[n].fn \in BranchKinds THEN {Append(path, <<n, 1>>)} ELSE {}
    IN  cuts \union else \union in

Longer(p, program) ==
    {Append(p, [t EXCEPT !.path = r]) : t \in Templates(program), r \in NextRegions(p)}

StepTo(p, k, n, program) == IF k <= n THEN Longer(p, program) ELSE {p}

MCInitConversion ==
    /\ \E program \in Programs : \E n \in 1 .. MaxCalls :
        /\ usedModel = Model(program)
        /\ hasMain = (program # "noMain")
        /\ \E p1 \in StepTo(Prefix(program), 1, n, program) : \E p2 \in StepTo(p1, 2, n, program) :
           \E p3 \in StepTo(p2, 3, n, program) : \E p4 \in StepTo(p3, 4, n, program) :
           \E p5 \in StepTo(p4, 5, n, program) : source = p5
    /\ InitConversion

MCSpecConversion == MCInitConversion /\ [][NextConversion]_convVars

AllTypes ==
    <<"barrier", "bcast", "reduce", "allreduce", "reduceScatter", "scan", "exscan",
      "scatter", "gather", "allgather", "alltoall">>

=============================================================================
