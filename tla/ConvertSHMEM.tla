------------------------------ MODULE ConvertSHMEM ------------------------------
(***************************************************************************)
(* convertApiCallSHMEM: what becomes of a call of a SHMEM function.        *)
(*                                                                         *)
(* shmem is the static valueMapping (comms, see ConvertMPI) and the static *)
(* worldComm, which SHMEM_TEAM_WORLD and the functions without a team      *)
(* share.  Datatypes and reduction operations are in the functions' names. *)
(***************************************************************************)
EXTENDS Conversion

InitSHMEM == shmem = [comms |-> <<>>, world |-> None]

TeamCollectives ==
    {<<"shmem_team_sync", "barrier">>, <<"shmem_int_broadcast", "bcast">>,
     <<"shmem_broadcastmem", "bcast">>, <<"shmem_int_sum_reduce", "allreduce">>,
     <<"shmem_int_alltoall", "alltoall">>, <<"shmem_int_collect", "allgather">>,
     <<"shmem_int_fcollect", "allgather">>}

TeamQueries  == {<<"shmem_team_my_pe", "rank">>, <<"shmem_team_n_pes", "size">>}
WorldQueries == {<<"shmem_my_pe", "rank">>, <<"shmem_n_pes", "size">>}
SHMEMQueries  == TeamQueries \union WorldQueries
SHMEMQuerying == Listed(SHMEMQueries)
SHMEMProcess == {"shmem_init", "shmem_finalize"}
SHMEMMemory  == {"shmem_malloc", "shmem_realloc", "shmem_free"}
WorldCalls   == Listed(WorldQueries) \union SHMEMMemory \union {"shmem_sync_all"}
TeamCalls ==
    Listed(TeamCollectives \union TeamQueries) \union
    {"shmem_team_split_strided", "shmem_team_destroy"}

-----------------------------------------------------------------------------
(* getNewCommSHMEM                                                         *)
WorldSHMEM == IF shmem.world = None THEN NewWorld ELSE shmem.world

CommKnownSHMEM(i) == source[i].fn \in WorldCalls \/ source[i].comm \in DOMAIN shmem.comms \union {World}

CommSHMEM(i) ==
    IF source[i].fn \in WorldCalls \/ source[i].comm = World THEN WorldSHMEM
    ELSE shmem.comms[source[i].comm]

WithWorld(i) == [shmem EXCEPT !.world = IF CommSHMEM(i) = NewWorld THEN NewWorld ELSE @]

-----------------------------------------------------------------------------
ProcessSHMEM(i) ==
    /\ source[i].fn \in SHMEMProcess
    /\ ReplaceBy(i, None, <<Op(i, "process", source[i].fn, None)>>)
    /\ UNCHANGED <<values, shmem>>

QuerySHMEM(i) ==
    /\ source[i].fn \in SHMEMQuerying
    /\ CommKnownSHMEM(i)
    /\ ReplaceBy(i, CommSHMEM(i), <<Op(i, "query", source[i].var, CommSHMEM(i))>>)
    /\ ReplaceResult(source[i].var, Entry(SHMEMQueries, source[i].fn), CommSHMEM(i), i)
    /\ shmem' = WithWorld(i)

CollectiveSHMEM(i) ==
    /\ source[i].fn \in Listed(TeamCollectives) \union {"shmem_sync_all"}
    /\ CommKnownSHMEM(i)
    /\ LET type == IF source[i].fn = "shmem_sync_all" THEN "barrier"
                   ELSE Entry(TeamCollectives, source[i].fn)
       IN  ReplaceBy(i, CommSHMEM(i), <<Op(i, "coll", type, CommSHMEM(i))>>)
    /\ shmem' = WithWorld(i)
    /\ UNCHANGED values

MemorySHMEM(i) ==
    /\ source[i].fn \in SHMEMMemory
    /\ ReplaceBy(i, CommSHMEM(i), <<Op(i, "memory", source[i].fn, CommSHMEM(i))>>)
    /\ shmem' = WithWorld(i)
    /\ UNCHANGED values

ConfigIsNull(i) == ArgsKnown(<<>>, source[i].args, {<<"config", "null">>})

SplitSHMEM(i) ==
    /\ source[i].fn = "shmem_team_split_strided"
    /\ ConfigIsNull(i)
    /\ CommKnownSHMEM(i)
    /\ ReplaceBy(i, CommSHMEM(i), <<Op(i, "split", "strided", CommSHMEM(i))>>)
    /\ shmem' = [WithWorld(i) EXCEPT !.comms = Put(@, source[i].result, <<i, 1>>)]
    /\ UNCHANGED values

DestroySHMEM(i) ==
    /\ source[i].fn = "shmem_team_destroy"
    /\ CommKnownSHMEM(i)
    /\ ReplaceBy(i, CommSHMEM(i), <<Op(i, "destroy", NoName, CommSHMEM(i))>>)
    /\ shmem' = WithWorld(i)
    /\ UNCHANGED values

UnknownSHMEM(i) ==
    \/ source[i].fn \in TeamCalls /\ ~ CommKnownSHMEM(i)
    \/ source[i].fn = "shmem_team_split_strided" /\ ~ ConfigIsNull(i)

-----------------------------------------------------------------------------
(* The list has "shmem_alloc" for shmem_malloc, whose declaration stays.   *)
CalleesSHMEM ==
    SHMEMProcess \union SHMEMQuerying \union Listed(TeamCollectives) \union
    {"shmem_sync_all", "shmem_team_split_strided", "shmem_team_destroy",
     "shmem_alloc", "shmem_realloc", "shmem_free"}

ConvertSHMEM(i) ==
    /\ Visit(i)
    /\ \/ ProcessSHMEM(i) \/ QuerySHMEM(i) \/ CollectiveSHMEM(i) \/ MemorySHMEM(i)
       \/ SplitSHMEM(i) \/ DestroySHMEM(i)
    /\ UNCHANGED <<mpi, nccl>>

BreakOffSHMEM(i) == UnknownSHMEM(i) /\ BreakOff(i, "unreachable")

=============================================================================
