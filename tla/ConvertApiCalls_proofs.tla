------------------------ MODULE ConvertApiCalls_proofs ------------------------
(***************************************************************************)
(* What holds of convert-apiCalls-to-spmd in all states: each handler of   *)
(* the three conversions keeps the invariant of ConvertInvariant_proofs,   *)
(* and the text its shape, which is a well-formed program in the end.      *)
(***************************************************************************)
EXTENDS ConvertInvariant_proofs

-----------------------------------------------------------------------------
(***************************************************************************)
(* The handlers of the MPI conversion.                                     *)
(***************************************************************************)
MPITyped ==
    /\ mpi = [comms |-> mpi.comms, requests |-> mpi.requests, args |-> mpi.args,
              implicit |-> mpi.implicit]
    /\ RolesKnown(mpi.args)
    /\ mpi.requests \subseteq {source[i].req : i \in DOMAIN source}

ComesMPI(i) ==
    /\ Comes(i) /\ Converted(i, "mpi")
    /\ nccl' = nccl /\ shmem' = shmem

LEMMA ComesMPISays ==
    ASSUME NEW i, ComesMPI(i)
    PROVE  /\ Comes(i) /\ source[i].fn \in Handles("mpi") /\ "mpi" \in Converters(usedModel)
           /\ source[i].fn \notin NCCLNames \union SHMEMNames
           /\ source[i].fn \in Setting => source[i].fn = "MPI_Comm_split"
           /\ MPITyped /\ StaticsMeant
<1>1. Comes(i) /\ source[i].fn \in Handles("mpi") /\ "mpi" \in Converters(usedModel)
  BY DEF ComesMPI, Converted
<1>2. source[i].fn \notin NCCLNames \union SHMEMNames
  BY <1>1, LibrariesApart
<1>3. Setting \subseteq {"MPI_Comm_split"} \union NCCLNames \union SHMEMNames
  BY DEF Setting, NCCLInits, NCCLNames, SHMEMNames
<1>4. MPITyped /\ StaticsMeant
  BY <1>1, ComesSays DEF StaticsTyped, MPITyped, Walking
<1> QED
  BY <1>1, <1>2, <1>3, <1>4

LEMMA MPIKeeps ==
    ASSUME NEW i, ComesMPI(i), status' = status,
           NEW ops, TextAfter(i, ops), \A k \in DOMAIN ops : OpGood(i, ops[k]),
           MPITyped', CommsNext(mpi'.comms, "mpi"), KeptNext(mpi'.implicit),
           \A v \in DOMAIN values' : ValueNext(values'[v], v)
    PROVE  ConvInv'
<1>1. /\ Comes(i) /\ source[i].fn \in Handles("mpi") /\ source[i].fn \notin NCCLNames
      /\ StaticsMeant /\ nccl' = nccl /\ shmem' = shmem
  BY ComesMPISays DEF ComesMPI
<1>2. CommsNext(nccl.comms, "nccl") /\ CommsNext(shmem.comms, "shmem")
  <2>1. /\ "nccl" \in Libraries /\ "shmem" \in Libraries
        /\ "mpi" \in Libraries \ {"nccl"} /\ "mpi" \in Libraries \ {"shmem"}
    BY DEF Libraries
  <2>2. CommsMeant(nccl.comms, "nccl") /\ CommsMeant(shmem.comms, "shmem")
    BY <1>1 DEF StaticsMeant
  <2> QED
    BY <1>1, <2>1, <2>2, CommsStay
<1>3. KeptNext(nccl.implicit) /\ KeptNext(shmem.world)
  BY <1>1, KeptStays DEF StaticsMeant
<1>4. GroupMeant'
  <2>1. source[i].fn \notin {"ncclGroupStart", "ncclGroupEnd"}
    BY <1>1 DEF NCCLNames
  <2>2. CommsBlock'
    BY <1>1, Zenon DEF StaticsMeant, GroupMeant, CommsBlock
  <2> QED
    BY <1>1, <2>1, <2>2, GroupStays
<1>5. StaticsNext
  BY <1>1, <1>2, <1>3, <1>4, Zenon DEF StaticsNext
<1>6. StaticsTyped' /\ NCCLTyped'
  <2>1. StaticsTyped /\ NCCLTyped /\ source' = source
    BY <1>1, ComesSays DEF TypeOKConversion, NCCLTyped
  <2>2. NCCLTyped'
    BY <1>1, <2>1, TypesKept, Zenon DEF NCCLTyped
  <2>3. StaticsTyped'
    BY <1>1, <2>1, Zenon DEF StaticsTyped, MPITyped, RolesKnown
  <2> QED
    BY <2>2, <2>3
<1> QED
  BY <1>1, <1>5, <1>6, HandledKeeps

(* A handler that leaves the statics alone.                                *)
LEMMA MPISameKeeps ==
    ASSUME NEW i, ComesMPI(i), status' = status, source[i].fn # "MPI_Comm_split",
           NEW ops, TextAfter(i, ops), \A k \in DOMAIN ops : OpGood(i, ops[k]),
           mpi' = mpi, values' = values
    PROVE  ConvInv'
<1>1. Comes(i) /\ StaticsMeant /\ MPITyped /\ source[i].fn \notin Setting
  BY ComesMPISays
<1>2. source' = source
  BY <1>1, ComesSays
<1>3. MPITyped'
  BY <1>1, <1>2, Zenon DEF MPITyped, RolesKnown
<1>4. CommsNext(mpi'.comms, "mpi")
  <2>1. "mpi" \in Libraries /\ CommsMeant(mpi.comms, "mpi")
    BY <1>1 DEF Libraries, StaticsMeant
  <2>2. CommsNext(mpi.comms, "mpi")
    BY <1>1, <2>1, CommsStay
  <2> QED
    BY <2>2
<1>5. KeptNext(mpi'.implicit)
  <2>1. KeptNext(mpi.implicit)
    BY <1>1, KeptStays DEF StaticsMeant
  <2> QED
    BY <2>1
<1>6. \A v \in DOMAIN values' : ValueNext(values'[v], v)
  BY <1>1, ValuesSame
<1> QED
  BY <1>3, <1>4, <1>5, <1>6, MPIKeeps

(* The communicator that a call names.                                     *)
LEMMA CommMPITyped ==
    ASSUME TypeOKConversion, NEW i
    PROVE  CommMPI(i) \in Nat \X Nat
<1>1. CASE source[i].comm \in DOMAIN mpi.comms
  <2>1. mpi.comms[source[i].comm] \in Places
    BY <1>1 DEF TypeOKConversion
  <2> QED
    BY <1>1, <2>1, PlaceTyped DEF CommMPI
<1>2. CASE source[i].comm \notin DOMAIN mpi.comms
  BY <1>2, NewWorldTyped DEF CommMPI
<1> QED
  BY <1>1, <1>2

LEMMA CommMPIFound ==
    ASSUME NEW i, ComesMPI(i), CommKnownMPI(i),
           NEW ops, NEW waits \in SUBSET DOMAIN source, Rewritten(i, CommMPI(i), ops, waits),
           TextAfter(i, ops)
    PROVE  /\ MadeNext(CommMPI(i)) /\ MeantNext(i, CommMPI(i))
           /\ \A v \in DOMAIN CommsMPI(i) :
                \/ v \in DOMAIN mpi.comms /\ CommsMPI(i)[v] = mpi.comms[v]
                \/ NameNext(CommsMPI(i)[v], v, "mpi")
<1> DEFINE c == CommMPI(i)
           v == source[i].comm
<1>1. Comes(i) /\ CommsMeant(mpi.comms, "mpi")
  BY ComesMPISays DEF StaticsMeant
<1>2. CASE v \in DOMAIN mpi.comms
  <2>1. c = mpi.comms[v]
    BY <1>2 DEF CommMPI
  <2>2. MadeNext(mpi.comms[v]) /\ MeantNext(i, mpi.comms[v])
    BY <1>1, <1>2, CommFound
  <2>3. MadeNext(c) /\ MeantNext(i, c)
    BY <2>1, <2>2
  <2>4. DOMAIN CommsMPI(i) = DOMAIN mpi.comms /\ \A k \in DOMAIN mpi.comms : CommsMPI(i)[k] = mpi.comms[k]
    BY <1>2, <2>1 DEF CommsMPI, Put
  <2> QED
    BY <2>3, <2>4
<1>3. CASE v \notin DOMAIN mpi.comms
  <2>1. c = NewWorld /\ v = World
    BY <1>3 DEF CommMPI, CommKnownMPI
  <2>2. MadeNext(c) /\ c[1] = 0
    BY <1>1, <2>1, WorldMade
  <2>3. MeantNext(i, c)
    BY <1>1, <2>1, <2>2, WorldMeant
  <2>4. NameNext(c, World, "mpi")
    BY <2>2 DEF NameNext, World, NoName
  <2> HIDE DEF c
  <2>5. /\ DOMAIN CommsMPI(i) = DOMAIN mpi.comms \union {v} /\ CommsMPI(i)[v] = c
        /\ \A k \in DOMAIN mpi.comms : k # v => CommsMPI(i)[k] = mpi.comms[k]
    BY DEF CommsMPI, Put, c
  <2>6. ASSUME NEW k \in DOMAIN CommsMPI(i)
        PROVE  \/ k \in DOMAIN mpi.comms /\ CommsMPI(i)[k] = mpi.comms[k]
               \/ NameNext(CommsMPI(i)[k], k, "mpi")
    BY <2>1, <2>4, <2>5
  <2> QED
    BY <2>2, <2>3, <2>6 DEF c
<1> QED
  BY <1>2, <1>3

LEMMA CommMPIGood ==
    ASSUME NEW i, ComesMPI(i), CommKnownMPI(i), source[i].fn # "MPI_Comm_split",
           NEW ops, NEW waits \in SUBSET DOMAIN source, Rewritten(i, CommMPI(i), ops, waits),
           TextAfter(i, ops)
    PROVE  /\ MadeNext(CommMPI(i)) /\ MeantNext(i, CommMPI(i))
           /\ CommsNext(CommsMPI(i), "mpi")
<1>1. Comes(i) /\ CommsMeant(mpi.comms, "mpi") /\ "mpi" \in Libraries /\ source[i].fn \notin Setting
  BY ComesMPISays DEF StaticsMeant, Libraries
<1>2. CommsNext(mpi.comms, "mpi")
  BY <1>1, CommsStay
<1>3. /\ MadeNext(CommMPI(i)) /\ MeantNext(i, CommMPI(i))
      /\ \A v \in DOMAIN CommsMPI(i) :
            \/ v \in DOMAIN mpi.comms /\ CommsMPI(i)[v] = mpi.comms[v]
            \/ NameNext(CommsMPI(i)[v], v, "mpi")
  BY CommMPIFound
<1>4. \A v \in DOMAIN CommsMPI(i) : NameNext(CommsMPI(i)[v], v, "mpi")
  BY <1>2, <1>3 DEF CommsNext
<1> QED
  BY <1>3, <1>4, Zenon DEF CommsNext

(* The operation and the statics that most handlers make.                  *)
LEMMA OpMPITyped ==
    ASSUME NEW i, ComesMPI(i), NEW k \in TextKinds, NEW t \in OpTypes
    PROVE  /\ OpMPI(i, k, t) \in TextOp
           /\ OpMPI(i, k, t).kind = k
           /\ OpMPI(i, k, t).comm = CommMPI(i)
           /\ OpMPI(i, k, t).blocking
<1> DEFINE op == Op(i, k, t, CommMPI(i))
           args == ArgsConverted(mpi.args, source[i].args)
<1>1. /\ Comes(i) /\ MPITyped /\ TypeOKConversion /\ CallsTyped /\ i \in DOMAIN source
      /\ source[i] \in ApiCall
  BY ComesMPISays, ComesSays
<1>2. CommMPI(i) \in Nat \X Nat
  BY <1>1, CommMPITyped
<1>3. op \in TextOp /\ op.kind = k /\ op.comm = CommMPI(i) /\ op.blocking
  BY <1>1, <1>2, OpTyped
<1>4. args \in Seq(Argument)
  <2>1. source[i].args \in Seq(Argument)
    BY <1>1 DEF ApiCall
  <2> QED
    BY <1>1, <2>1, ArgsTyped DEF MPITyped
<1>5. OpMPI(i, k, t) = [op EXCEPT !.args = args]
  BY Zenon DEF OpMPI
<1> HIDE DEF op, args
<1> QED
  BY <1>3, <1>4, <1>5 DEF TextOp

LEMMA StaticMPITyped ==
    ASSUME NEW i, ComesMPI(i),
           \/ mpi' = NextStaticMPI(i)
           \/ mpi' = [NextStaticMPI(i) EXCEPT !.requests = @ \union {source[i].req}]
    PROVE  /\ MPITyped'
           /\ mpi'.comms = CommsMPI(i) /\ mpi'.implicit = mpi.implicit
<1> DEFINE args == ArgsMapped(mpi.args, source[i].args)
           comms == CommsMPI(i)
<1>1. /\ Comes(i) /\ MPITyped /\ i \in DOMAIN source /\ source' = source
      /\ source[i] \in ApiCall
  BY ComesMPISays, ComesSays
<1>2. RolesKnown(args)
  <2>1. source[i].args \in Seq(Argument)
    BY <1>1 DEF ApiCall
  <2> QED
    BY <1>1, <2>1, ArgsTyped DEF MPITyped
<1>3. NextStaticMPI(i) = [mpi EXCEPT !.comms = comms, !.args = args]
  BY Zenon DEF NextStaticMPI
<1>4. mpi.requests \union {source[i].req} \subseteq {source[j].req : j \in DOMAIN source}
  BY <1>1 DEF MPITyped
<1> HIDE DEF args, comms
<1>5. /\ mpi' = [comms |-> mpi'.comms, requests |-> mpi'.requests, args |-> mpi'.args,
                 implicit |-> mpi'.implicit]
      /\ mpi'.comms = comms /\ mpi'.implicit = mpi.implicit /\ mpi'.args = args
      /\ mpi'.requests \in {mpi.requests, mpi.requests \union {source[i].req}}
  BY <1>1, <1>3 DEF MPITyped
<1>6. mpi'.requests \subseteq {source'[j].req : j \in DOMAIN source'}
  BY <1>1, <1>4, <1>5 DEF MPITyped
<1>7. RolesKnown(mpi.args)'
  BY <1>2, <1>5 DEF RolesKnown
<1> QED
  BY <1>5, <1>6, <1>7 DEF MPITyped, comms

(* A handler that looks up a communicator and puts ops for the call.       *)
LEMMA CommMPIKeeps ==
    ASSUME NEW i, ComesMPI(i), CommKnownMPI(i), source[i].fn # "MPI_Comm_split",
           status' = status, NEW ops, NEW waits \in SUBSET DOMAIN source,
           Rewritten(i, CommMPI(i), ops, waits), TextAfter(i, ops),
           \A k \in DOMAIN ops : OpGood(i, ops[k]),
           \/ mpi' = NextStaticMPI(i)
           \/ mpi' = [NextStaticMPI(i) EXCEPT !.requests = @ \union {source[i].req}],
           \A v \in DOMAIN values' : ValueNext(values'[v], v)
    PROVE  ConvInv'
<1>1. Comes(i) /\ StaticsMeant
  BY ComesMPISays
<1>2. MPITyped' /\ mpi'.comms = CommsMPI(i) /\ mpi'.implicit = mpi.implicit
  BY StaticMPITyped
<1>3. CommsNext(CommsMPI(i), "mpi")
  BY CommMPIGood
<1>4. CommsNext(mpi'.comms, "mpi")
  BY <1>2, <1>3
<1>5. KeptNext(mpi'.implicit)
  <2>1. KeptNext(mpi.implicit)
    BY <1>1, KeptStays DEF StaticsMeant
  <2> QED
    BY <1>2, <2>1
<1> QED
  BY <1>2, <1>4, <1>5, MPIKeeps

LEMMA ProcessMPIKeeps ==
    ASSUME NEW i, ComesMPI(i), ProcessMPI(i)
    PROVE  ConvInv'
<1> DEFINE kind == "process"
           op == Op(i, kind, source[i].fn, None)
<1>1. /\ Comes(i) /\ CallsTyped /\ i \in DOMAIN source
  BY ComesMPISays, ComesSays
<1>2. kind \in TextKinds /\ source[i].fn \in OpTypes /\ None \in Nat \X Nat
  BY <1>1, NoneTyped DEF TextKinds, OpTypes
<1>3. op \in TextOp /\ op.kind = kind /\ op.comm = None
  <2> HIDE DEF kind
  <2> QED
    BY <1>1, <1>2, OpTyped, SMTT(30)
<1>4. source[i].fn # "MPI_Comm_split" /\ mpi' = mpi /\ values' = values
  BY DEF ProcessMPI, MPIProcess
<1>5. ReplaceBy(i, None, <<op>>)
  BY DEF ProcessMPI
<1> HIDE DEF op
<1>6. <<op>> \in Seq(TextOp) /\ \A k \in DOMAIN <<op>> : <<op>>[k] = op
  BY <1>3, OneOp
<1>7. TextAfter(i, <<op>>) /\ status' = status
  BY <1>1, <1>5, <1>6, TextReplaced, Replaced
<1>8. OpGood(i, op)
  BY <1>3, PlainGood
<1>9. \A k \in DOMAIN <<op>> : OpGood(i, <<op>>[k])
  BY <1>6, <1>8
<1> QED
  BY <1>4, <1>7, <1>9, MPISameKeeps

LEMMA QueryMPIKeeps ==
    ASSUME NEW i, ComesMPI(i), QueryMPI(i)
    PROVE  ConvInv'
<1> DEFINE kind == "query"
           op == Op(i, kind, source[i].var, CommMPI(i))
<1>1. /\ Comes(i) /\ TypeOKConversion /\ CallsTyped /\ i \in DOMAIN source
  BY ComesMPISays, ComesSays
<1>2. kind \in TextKinds /\ source[i].var \in OpTypes /\ CommMPI(i) \in Nat \X Nat
  BY <1>1, CommMPITyped DEF TextKinds, PureKinds, OpTypes
<1>3. op \in TextOp /\ op.kind = kind /\ op.comm = CommMPI(i)
  <2> HIDE DEF kind
  <2> QED
    BY <1>1, <1>2, OpTyped, SMTT(30)
<1>4. /\ source[i].fn # "MPI_Comm_split" /\ source[i].fn \in Querying
      /\ CommKnownMPI(i) /\ mpi' = NextStaticMPI(i)
  <2>1. source[i].fn \in Listed(MPIQueries) /\ CommKnownMPI(i) /\ mpi' = NextStaticMPI(i)
    BY DEF QueryMPI
  <2>2. \A fn \in Listed(MPIQueries) : fn # "MPI_Comm_split"
    BY InList DEF MPIQueries
  <2>3. Listed(MPIQueries) \subseteq Querying
    BY DEF Listed, Querying
  <2> QED
    BY <2>1, <2>2, <2>3
<1>5. ReplaceBy(i, CommMPI(i), <<op>>)
  BY DEF QueryMPI
<1> HIDE DEF op
<1>6. <<op>> \in Seq(TextOp) /\ \A k \in DOMAIN <<op>> : <<op>>[k] = op
  BY <1>3, OneOp
<1>7. TextAfter(i, <<op>>) /\ Rewritten(i, CommMPI(i), <<op>>, {}) /\ status' = status
  BY <1>1, <1>5, <1>6, TextReplaced, Replaced
<1>8. {} \in SUBSET DOMAIN source
  OBVIOUS
<1>9. MadeNext(CommMPI(i)) /\ MeantNext(i, CommMPI(i))
  BY <1>4, <1>7, <1>8, CommMPIGood
<1>10. OpGood(i, op)
  BY <1>3, <1>9, OnCommGood
<1>11. \A k \in DOMAIN <<op>> : OpGood(i, <<op>>[k])
  BY <1>6, <1>10
<1>12. \A v \in DOMAIN values' : ValueNext(values'[v], v)
  <2>1. ReplaceLoads(source[i].var, Entry(MPIQueries, source[i].fn), CommMPI(i), i)
    BY DEF QueryMPI
  <2> QED
    BY <1>1, <1>4, <1>7, <1>9, <2>1, LoadsReplaced
<1> QED
  BY <1>4, <1>7, <1>8, <1>11, <1>12, CommMPIKeeps

(* A call blocks if its request has no name.                               *)
LEMMA CommunicateMPIBlocks ==
    ASSUME NEW i, ComesMPI(i), source[i].fn \in MPICommunicating
    PROVE  Entry(MPICommunication, source[i].fn).blocking <=> BlocksFor(i)
<1>1. Comes(i) /\ source[i].fn \notin NCCLNames /\ i \in DOMAIN source /\ CallTyped(source[i])
  BY ComesMPISays, ComesSays
<1>2. source[i].fn \notin MPIExchanges
  BY CommunicatingNamed DEF CommunicatingNames, MPIExchanges
<1>3. source[i].fn \notin NCCLCommunication
  BY <1>1, NCCLNamed DEF CalleesNCCL
<1>4. ~ InOpenGroup(i)
  BY <1>3, Zenon DEF InOpenGroup
<1>5. i \in RequestCalls <=> source[i].req # NoName
  BY <1>1 DEF RequestCalls
<1>6. source[i].req = NoName <=> Entry(MPICommunication, source[i].fn).blocking
  BY <1>1, Zenon DEF CallTyped
<1> QED
  BY <1>2, <1>4, <1>5, <1>6, Zenon DEF BlocksFor

LEMMA CommunicateMPIKeeps ==
    ASSUME NEW i, ComesMPI(i), CommunicateMPI(i)
    PROVE  ConvInv'
<1> DEFINE row == Entry(MPICommunication, source[i].fn)
           plain == OpMPI(i, row.kind, row.type)
           stored == WithRequest(plain, ArrayFor(source[i].req), StoreSlot(i))
           op == IF row.blocking THEN plain ELSE stored
<1>1. /\ Comes(i) /\ CallsTyped /\ i \in DOMAIN source /\ source[i] \in ApiCall
      /\ source[i].fn \in MPICommunicating /\ CommKnownMPI(i)
      /\ source[i].fn # "MPI_Comm_split"
  <2>1. source[i].fn \in MPICommunicating /\ CommKnownMPI(i)
    BY DEF CommunicateMPI, ConvertibleMPI
  <2>2. source[i].fn # "MPI_Comm_split"
    BY <2>1, CommunicatingNamed DEF CommunicatingNames
  <2> QED
    BY <2>1, <2>2, ComesMPISays, ComesSays
<1>2. /\ row.kind \in {"coll", "send", "recv"} /\ row.type \in CollectiveNames \union {NoName}
      /\ row.blocking \in BOOLEAN
  BY <1>1, MPIRows
<1>3. plain \in TextOp /\ plain.kind = row.kind /\ plain.comm = CommMPI(i) /\ plain.blocking
  <2>1. row.kind \in TextKinds /\ row.type \in OpTypes
    BY <1>2 DEF TextKinds, OpTypes
  <2> HIDE DEF row
  <2> QED
    BY <2>1, OpMPITyped
<1>4. ArrayFor(source[i].req) \in Array /\ StoreSlot(i) \in Nat
  <2>1. ArrayFor(source[i].req) \in Array
    BY <1>1 DEF ArrayFor, NoArray, Array
  <2>2. source[i].idx \in Seq(Nat)
    BY <1>1 DEF ApiCall
  <2>3. StoreSlot(i) \in Nat
    BY <2>2 DEF StoreSlot
  <2> QED
    BY <2>1, <2>3
<1>5. stored \in TextOp /\ stored.kind = row.kind /\ stored.comm = CommMPI(i) /\ ~ stored.blocking
  <2> HIDE DEF plain, row
  <2> QED
    BY <1>3, <1>4, RequestTyped
<1>6. /\ op \in TextOp /\ op.kind = row.kind /\ op.comm = CommMPI(i)
      /\ op.blocking <=> row.blocking
  <2> HIDE DEF plain, stored, row
  <2> QED
    BY <1>2, <1>3, <1>5
<1>7. /\ ReplaceBy(i, CommMPI(i), <<op>>) /\ values' = values
      /\ \/ mpi' = NextStaticMPI(i)
         \/ mpi' = [NextStaticMPI(i) EXCEPT !.requests = @ \union {source[i].req}]
  BY Zenon DEF CommunicateMPI
<1> HIDE DEF op, plain, stored
<1>8. <<op>> \in Seq(TextOp) /\ \A k \in DOMAIN <<op>> : <<op>>[k] = op
  BY <1>6, OneOp
<1>9. TextAfter(i, <<op>>) /\ Rewritten(i, CommMPI(i), <<op>>, {}) /\ status' = status
  BY <1>1, <1>7, <1>8, TextReplaced, Replaced
<1>10. {} \in SUBSET DOMAIN source
  OBVIOUS
<1>11. MadeNext(CommMPI(i)) /\ MeantNext(i, CommMPI(i))
  BY <1>1, <1>9, <1>10, CommMPIGood
<1>12. OpGood(i, op)
  <2>1. op.blocking <=> BlocksFor(i)
    BY <1>1, <1>6, CommunicateMPIBlocks
  <2>2. op.kind # "call"
    BY <1>2, <1>6
  <2> QED
    BY <1>6, <1>11, <2>1, <2>2, CommunicationGood
<1>13. \A k \in DOMAIN <<op>> : OpGood(i, <<op>>[k])
  BY <1>8, <1>12
<1>14. \A v \in DOMAIN values' : ValueNext(values'[v], v)
  BY <1>1, <1>7, <1>9, ValuesSame
<1> QED
  BY <1>1, <1>7, <1>9, <1>10, <1>13, <1>14, CommMPIKeeps

(* The send and the receive of an exchange.                                *)
LEMMA ExchangeTyped ==
    ASSUME NEW i, ComesMPI(i), source[i].fn \in MPIExchanges \union MPIStarted
    PROVE  /\ Exchange(i) \in Seq(TextOp) /\ Len(Exchange(i)) = 2
           /\ \A k \in {1, 2} : /\ Exchange(i)[k].kind \in {"send", "recv"}
                                /\ Exchange(i)[k].comm = CommMPI(i)
                                /\ Exchange(i)[k].blocking <=> BlocksFor(i)
<1> DEFINE sent == OpMPI(i, "send", NoName)
           received == OpMPI(i, "recv", NoName)
           s == WithRequest(sent, ArrayOf(i), 0)
           r == WithRequest(received, ArrayOf(i), 1)
<1>1. Comes(i) /\ i \in DOMAIN source /\ i \in 1 .. Len(source) /\ CallTyped(source[i])
  BY ComesMPISays, ComesSays
<1>2. "send" \in TextKinds /\ "recv" \in TextKinds /\ NoName \in OpTypes
  BY DEF TextKinds, OpTypes
<1>3. /\ sent \in TextOp /\ sent.kind = "send" /\ sent.comm = CommMPI(i)
      /\ received \in TextOp /\ received.kind = "recv" /\ received.comm = CommMPI(i)
  BY <1>2, OpMPITyped
<1>4. ArrayOf(i) \in Array
  BY <1>1 DEF ArrayOf, NoArray, Array
<1>5. /\ s \in TextOp /\ s.kind = "send" /\ s.comm = CommMPI(i) /\ ~ s.blocking
      /\ r \in TextOp /\ r.kind = "recv" /\ r.comm = CommMPI(i) /\ ~ r.blocking
  <2>1. 0 \in Nat /\ 1 \in Nat
    OBVIOUS
  <2> HIDE DEF sent, received
  <2> QED
    BY <1>3, <1>4, <2>1, RequestTyped
<1>6. ~ BlocksFor(i)
  <2>1. source[i].fn \in MPIStarted => i \in RequestCalls
    BY <1>1 DEF CallTyped, RequestCalls
  <2> QED
    BY <2>1, Zenon DEF BlocksFor
<1>7. Exchange(i) = <<s, r>>
  BY DEF Exchange
<1> HIDE DEF s, r
<1>8. <<s, r>> \in Seq(TextOp) /\ Len(<<s, r>>) = 2 /\ <<s, r>>[1] = s /\ <<s, r>>[2] = r
  BY <1>5
<1> QED
  BY <1>5, <1>6, <1>7, <1>8

LEMMA ExchangeGood ==
    ASSUME NEW i, ComesMPI(i), source[i].fn \in MPIExchanges \union MPIStarted,
           MadeNext(CommMPI(i)), MeantNext(i, CommMPI(i)), NEW k \in {1, 2}
    PROVE  OpGood(i, Exchange(i)[k])
<1> DEFINE op == Exchange(i)[k]
<1>1. op.kind \in {"send", "recv"} /\ op.comm = CommMPI(i) /\ (op.blocking <=> BlocksFor(i))
  BY ExchangeTyped
<1> HIDE DEF op
<1>2. op.kind # "call"
  BY <1>1
<1>3. OpGood(i, op)
  BY <1>1, <1>2, CommunicationGood
<1> QED
  BY <1>3 DEF op

LEMMA SendrecvMPIKeeps ==
    ASSUME NEW i, ComesMPI(i), SendrecvMPI(i)
    PROVE  ConvInv'
<1> DEFINE wait == WaitFor(i, ArrayOf(i), 2)
           both == Exchange(i)
           ops == Append(both, wait)
<1>1. /\ Comes(i) /\ CallsTyped /\ i \in DOMAIN source /\ i \in 1 .. Len(source)
      /\ CommKnownMPI(i) /\ source[i].fn \in MPIExchanges
      /\ ReplaceBy(i, CommMPI(i), ops) /\ mpi' = NextStaticMPI(i) /\ values' = values
  BY ComesMPISays, ComesSays DEF SendrecvMPI, ConvertibleMPI
<1>2. source[i].fn # "MPI_Comm_split"
  BY <1>1 DEF MPIExchanges
<1>3. wait \in TextOp /\ wait.kind = "wait" /\ wait.comm = None
  <2>1. ArrayOf(i) \in Array /\ 2 \in Nat
    BY <1>1 DEF ArrayOf, NoArray, Array
  <2> QED
    BY <1>1, <2>1, WaitTyped
<1>4. both \in Seq(TextOp) /\ Len(both) = 2
  BY <1>1, ExchangeTyped
<1> HIDE DEF wait, both
<1>5. /\ ops \in Seq(TextOp) /\ Len(ops) = Len(both) + 1 /\ ops[Len(both) + 1] = wait
      /\ \A k \in 1 .. Len(both) : ops[k] = both[k]
  <2> DEFINE S == TextOp
  <2>1. both \in Seq(S) /\ wait \in S
    BY <1>3, <1>4
  <2> HIDE DEF S
  <2>2. ops \in Seq(S)
    BY <2>1
  <2>3. Len(ops) = Len(both) + 1
    BY <2>1
  <2>4. ops[Len(both) + 1] = wait
    BY <2>1
  <2>5. \A k \in 1 .. Len(both) : ops[k] = both[k]
    BY <2>1
  <2> QED
    BY <2>2, <2>3, <2>4, <2>5, Zenon DEF S
<1> HIDE DEF ops
<1>6. DOMAIN ops = 1 .. 3 /\ ops[3] = wait /\ \A k \in {1, 2} : ops[k] = both[k]
  BY <1>4, <1>5
<1>7. TextAfter(i, ops) /\ Rewritten(i, CommMPI(i), ops, {}) /\ status' = status
  BY <1>1, <1>5, TextReplaced, Replaced
<1>8. {} \in SUBSET DOMAIN source
  OBVIOUS
<1>9. MadeNext(CommMPI(i)) /\ MeantNext(i, CommMPI(i))
  BY <1>1, <1>2, <1>7, <1>8, CommMPIGood
<1>10. ASSUME NEW k \in DOMAIN ops PROVE OpGood(i, ops[k])
  <2>1. CASE k = 3
    <3>1. OpGood(i, wait)
      BY <1>3, PlainGood
    <3> QED
      BY <1>6, <2>1, <3>1
  <2>2. CASE k \in {1, 2}
    <3>1. OpGood(i, both[k])
      BY <1>1, <1>9, <2>2, ExchangeGood DEF both
    <3> QED
      BY <1>6, <2>2, <3>1
  <2> QED
    BY <1>6, <2>1, <2>2
<1>11. \A v \in DOMAIN values' : ValueNext(values'[v], v)
  BY <1>1, <1>7, ValuesSame
<1> QED
  BY <1>1, <1>2, <1>7, <1>8, <1>10, <1>11, CommMPIKeeps

(* The waits that are left are ahead of the walk.                          *)
LEMMA WaitsAhead ==
    ASSUME NEW i, ComesMPI(i), source[i].fn \in MPIStarted, NEW r
    PROVE  WaitsNaming(r) \in SUBSET {j \in DOMAIN source : j > i /\ source[j].fn = "MPI_Wait"}
<1>1. /\ Comes(i) /\ OpsMeant /\ "mpi" \in Converters(usedModel) /\ i = at + 1 /\ at \in Nat
      /\ source \in Seq(ApiCall) /\ TypeOKConversion
  BY ComesMPISays, ComesSays
<1>2. ASSUME NEW j \in WaitsNaming(r) PROVE j > i
  <2>1. /\ j \in DOMAIN source /\ source[j].fn = "MPI_Wait"
        /\ text[j] # <<>> /\ text[j][1].kind = "call"
    BY DEF WaitsNaming, IsCall
  <2>2. j \in DOMAIN text /\ text[j] \in Seq(TextOp)
    BY <1>1, <2>1 DEF TypeOKConversion
  <2> DEFINE p == <<j, 1>>
  <2>3. 1 \in DOMAIN text[j]
    BY <2>1, <2>2
  <2>4. p[1] = j /\ p[2] = 1 /\ p = <<p[1], p[2]>>
    OBVIOUS
  <2> HIDE DEF p
  <2>5. p \in Places
    BY <2>2, <2>3, <2>4, PlaceParts
  <2>6. j <= at => Left(j)
    BY <1>1, <2>1, <2>4, <2>5 DEF OpsMeant, OpMeant, OpAt
  <2>7. "MPI_Wait" \in Handles("mpi")
    <3> DEFINE row == <<"MPI_Wait", "waitAll">>
    <3>1. row \in MPISingleWaits \union MPIWaits /\ row[1] = "MPI_Wait"
      BY DEF MPISingleWaits
    <3>2. "MPI_Wait" \in MPIWaiting
      BY <3>1, Zenon DEF MPIWaiting, Listed
    <3> QED
      BY <3>2, HandledNames DEF CalleesMPI
  <2>8. ~ (j <= at)
    BY <1>1, <2>1, <2>6, <2>7 DEF Left
  <2>9. j # i
    BY <2>1 DEF MPIStarted
  <2>10. j \in Nat
    BY <1>1, <2>1
  <2> QED
    BY <1>1, <2>8, <2>9, <2>10
<1> QED
  BY <1>2 DEF WaitsNaming

LEMMA IsendrecvMPIKeeps ==
    ASSUME NEW i, ComesMPI(i), IsendrecvMPI(i)
    PROVE  ConvInv'
<1> DEFINE waits == WaitsNaming(source[i].req)
           ops == Exchange(i)
<1>1. /\ Comes(i) /\ CommKnownMPI(i) /\ source[i].fn \in MPIStarted
      /\ mpi' = NextStaticMPI(i) /\ values' = values /\ status' = status
  BY ComesMPISays DEF IsendrecvMPI, ConvertibleMPI
<1>2. source[i].fn # "MPI_Comm_split"
  BY <1>1 DEF MPIStarted
<1>3. Rewritten(i, CommMPI(i), ops, waits)
  BY Zenon DEF IsendrecvMPI, Rewritten, StartWorld
<1>4. waits \in SUBSET {j \in DOMAIN source : j > i /\ source[j].fn = "MPI_Wait"}
  BY <1>1, WaitsAhead
<1>5. /\ ops \in Seq(TextOp) /\ DOMAIN ops = {1, 2}
  <2>1. ops \in Seq(TextOp) /\ Len(ops) = 2
    BY <1>1, ExchangeTyped
  <2> HIDE DEF ops
  <2> QED
    BY <2>1
<1> HIDE DEF waits
<1>6. TextAfter(i, ops)
  <2> HIDE DEF ops
  <2> QED
    BY <1>1, <1>3, <1>4, <1>5, TextRewritten
<1>7. waits \in SUBSET DOMAIN source
  BY <1>4
<1>8. MadeNext(CommMPI(i)) /\ MeantNext(i, CommMPI(i))
  BY <1>1, <1>2, <1>3, <1>6, <1>7, CommMPIGood
<1>9. \A k \in DOMAIN ops : OpGood(i, ops[k])
  BY <1>1, <1>5, <1>8, ExchangeGood
<1>10. \A v \in DOMAIN values' : ValueNext(values'[v], v)
  BY <1>1, <1>6, ValuesSame
<1> QED
  BY <1>1, <1>2, <1>3, <1>6, <1>7, <1>9, <1>10, CommMPIKeeps

(* The types of waits.                                                     *)
LEMMA WaitRows ==
    ASSUME NEW table \in {MPISingleWaits, MPIWaits}, NEW fn \in Listed(table)
    PROVE  Entry(table, fn) \in WaitNames /\ fn # "MPI_Comm_split"
<1>1. \A row \in MPISingleWaits \union MPIWaits : row[2] \in WaitNames /\ row[1] # "MPI_Comm_split"
  BY DEF MPISingleWaits, MPIWaits, WaitNames
<1>2. PICK row \in table : row[1] = fn /\ Entry(table, fn) = row[2]
  BY EntryListed, Zenon
<1> QED
  BY <1>1, <1>2

LEMMA WaitMPIKeeps ==
    ASSUME NEW i, ComesMPI(i), WaitMPI(i)
    PROVE  ConvInv'
<1>1. /\ Comes(i) /\ CallsTyped /\ i \in DOMAIN source /\ source[i] \in ApiCall
      /\ values' = values /\ mpi' = mpi
  BY ComesMPISays, ComesSays DEF WaitMPI
<1>2. PICK table \in {MPISingleWaits, MPIWaits}, count \in {1, source[i].count} :
        /\ source[i].fn \in Listed(table)
        /\ ReplaceBy(i, None, <<[WaitFor(i, ArrayFor(source[i].req), count)
                                    EXCEPT !.type = Entry(table, source[i].fn)]>>)
  BY Zenon DEF WaitMPI
<1> DEFINE wait == WaitFor(i, ArrayFor(source[i].req), count)
           type == Entry(table, source[i].fn)
           op   == [wait EXCEPT !.type = type]
<1>3. type \in OpTypes /\ source[i].fn # "MPI_Comm_split"
  BY <1>2, WaitRows DEF OpTypes
<1>4. wait \in TextOp /\ wait.kind = "wait" /\ wait.comm = None
  <2>1. ArrayFor(source[i].req) \in Array
    BY <1>1 DEF ArrayFor, NoArray, Array
  <2>2. count \in Nat
    BY <1>1, <1>2 DEF ApiCall
  <2> QED
    BY <1>1, <2>1, <2>2, WaitTyped
<1>5. ReplaceBy(i, None, <<op>>)
  BY <1>2
<1> HIDE DEF wait, type
<1>6. op \in TextOp /\ op.kind = "wait" /\ op.comm = None
  BY <1>3, <1>4 DEF TextOp
<1> HIDE DEF op
<1>7. <<op>> \in Seq(TextOp) /\ \A k \in DOMAIN <<op>> : <<op>>[k] = op
  BY <1>6, OneOp
<1>8. TextAfter(i, <<op>>) /\ status' = status
  BY <1>1, <1>5, <1>7, TextReplaced, Replaced
<1>9. OpGood(i, op)
  BY <1>6, PlainGood
<1>10. \A k \in DOMAIN <<op>> : OpGood(i, <<op>>[k])
  BY <1>7, <1>9
<1> QED
  BY <1>1, <1>3, <1>8, <1>10, MPISameKeeps

LEMMA FreeMPIKeeps ==
    ASSUME NEW i, ComesMPI(i), FreeMPI(i)
    PROVE  ConvInv'
<1> DEFINE kind == "destroy"
           op == Op(i, kind, NoName, CommMPI(i))
<1>1. /\ Comes(i) /\ TypeOKConversion /\ CallsTyped /\ i \in DOMAIN source
      /\ CommsMeant(mpi.comms, "mpi")
      /\ source[i].comm \in DOMAIN mpi.comms /\ source[i].fn # "MPI_Comm_split"
      /\ values' = values /\ mpi' = mpi
  BY ComesMPISays, ComesSays DEF FreeMPI, StaticsMeant
<1>2. kind \in TextKinds /\ NoName \in OpTypes /\ CommMPI(i) \in Nat \X Nat
  BY <1>1, CommMPITyped DEF TextKinds, PureKinds, OpTypes
<1>3. op \in TextOp /\ op.kind = kind /\ op.comm = CommMPI(i)
  <2> HIDE DEF kind
  <2> QED
    BY <1>1, <1>2, OpTyped, SMTT(30)
<1>4. ReplaceBy(i, None, <<op>>)
  BY DEF FreeMPI
<1> HIDE DEF op
<1>5. <<op>> \in Seq(TextOp) /\ \A k \in DOMAIN <<op>> : <<op>>[k] = op
  BY <1>3, OneOp
<1>6. TextAfter(i, <<op>>) /\ status' = status
  BY <1>1, <1>4, <1>5, TextReplaced, Replaced
<1>7. MadeNext(CommMPI(i)) /\ MeantNext(i, CommMPI(i))
  <2>1. CommMPI(i) = mpi.comms[source[i].comm]
    BY <1>1 DEF CommMPI
  <2>2. MadeNext(mpi.comms[source[i].comm]) /\ MeantNext(i, mpi.comms[source[i].comm])
    BY <1>1, <1>6, CommFound
  <2> QED
    BY <2>1, <2>2
<1>8. OpGood(i, op)
  BY <1>3, <1>7, OnCommGood
<1>9. \A k \in DOMAIN <<op>> : OpGood(i, <<op>>[k])
  BY <1>5, <1>8
<1> QED
  BY <1>1, <1>6, <1>9, MPISameKeeps

LEMMA RequestFreeMPIKeeps ==
    ASSUME NEW i, ComesMPI(i), RequestFreeMPI(i)
    PROVE  ConvInv'
<1>1. /\ Comes(i) /\ source[i].fn # "MPI_Comm_split" /\ values' = values /\ mpi' = mpi
      /\ ReplaceBy(i, None, <<>>)
  BY ComesMPISays DEF RequestFreeMPI
<1>2. <<>> \in Seq(TextOp) /\ \A k \in DOMAIN <<>> : OpGood(i, <<>>[k])
  OBVIOUS
<1>3. TextAfter(i, <<>>) /\ status' = status
  BY <1>1, <1>2, TextReplaced, Replaced
<1> QED
  BY <1>1, <1>2, <1>3, MPISameKeeps

(* The other statics are as they were.                                     *)
LEMMA MPIRetyped ==
    ASSUME MPITyped, source' = source, NEW comms, NEW implicit,
           mpi' = [comms |-> comms, requests |-> mpi.requests, args |-> mpi.args,
                   implicit |-> implicit]
    PROVE  MPITyped' /\ mpi'.comms = comms /\ mpi'.implicit = implicit
<1>1. /\ mpi' = [comms |-> mpi'.comms, requests |-> mpi'.requests, args |-> mpi'.args,
                 implicit |-> mpi'.implicit]
      /\ mpi'.comms = comms /\ mpi'.implicit = implicit
      /\ mpi'.args = mpi.args /\ mpi'.requests = mpi.requests
  OBVIOUS
<1>2. RolesKnown(mpi.args)'
  BY <1>1 DEF MPITyped, RolesKnown
<1>3. mpi'.requests \subseteq {source'[i].req : i \in DOMAIN source'}
  BY <1>1 DEF MPITyped
<1> QED
  BY <1>1, <1>2, <1>3 DEF MPITyped

LEMMA MemoryMPIKeeps ==
    ASSUME NEW i, ComesMPI(i), MemoryMPI(i)
    PROVE  ConvInv'
<1> DEFINE kind == "memory"
           c  == ImplicitMPI
           op == Op(i, kind, source[i].fn, c)
<1>1. /\ Comes(i) /\ TypeOKConversion /\ CallsTyped /\ i \in DOMAIN source /\ source' = source
      /\ CommsMeant(mpi.comms, "mpi") /\ WorldKept(mpi.implicit) /\ MPITyped
      /\ source[i].fn \in MPIMemory /\ values' = values /\ mpi' = [mpi EXCEPT !.implicit = c]
      /\ ReplaceBy(i, c, <<op>>)
  BY ComesMPISays, ComesSays DEF MemoryMPI, StaticsMeant
<1>2. source[i].comm = NoName /\ source[i].fn \notin Setting
  <2>1. source[i].fn \in WithoutComm
    BY <1>1 DEF WithoutComm
  <2>2. CallTyped(source[i])
    BY <1>1, ComesSays
  <2>3. source[i].fn # "MPI_Comm_split"
    BY <1>1 DEF MPIMemory
  <2> QED
    BY <2>1, <2>2, <2>3, ComesMPISays, Zenon DEF CallTyped
<1>3. c = IF mpi.implicit = None THEN NewWorld ELSE mpi.implicit
  BY DEF ImplicitMPI
<1> HIDE DEF c
<1>4. c \in Nat \X Nat
  BY <1>1, <1>3, ImplicitTyped
<1>5. kind \in TextKinds /\ source[i].fn \in OpTypes
  BY <1>1 DEF TextKinds, OpTypes
<1>6. op \in TextOp /\ op.kind = kind /\ op.comm = c
  <2> HIDE DEF kind
  <2> QED
    BY <1>1, <1>4, <1>5, OpTyped, SMTT(30)
<1> HIDE DEF op
<1>7. <<op>> \in Seq(TextOp) /\ \A k \in DOMAIN <<op>> : <<op>>[k] = op
  BY <1>6, OneOp
<1>8. TextAfter(i, <<op>>) /\ Rewritten(i, c, <<op>>, {}) /\ status' = status
  BY <1>1, <1>7, TextReplaced, Replaced
<1>9. MadeNext(c) /\ MeantNext(i, c) /\ KeptNext(c)
  BY <1>1, <1>2, <1>3, <1>8, ImplicitMeant
<1>10. OpGood(i, op)
  BY <1>6, <1>9, OnCommGood
<1>11. \A k \in DOMAIN <<op>> : OpGood(i, <<op>>[k])
  BY <1>7, <1>10
<1>12. MPITyped' /\ mpi'.comms = mpi.comms /\ mpi'.implicit = c
  <2>1. mpi' = [comms |-> mpi.comms, requests |-> mpi.requests, args |-> mpi.args,
                implicit |-> c]
    BY <1>1 DEF MPITyped
  <2> QED
    BY <1>1, <2>1, MPIRetyped
<1>13. CommsNext(mpi.comms, "mpi")
  BY <1>1, <1>2, <1>8, CommsStay DEF Libraries
<1>14. CommsNext(mpi'.comms, "mpi") /\ KeptNext(mpi'.implicit)
  BY <1>9, <1>12, <1>13
<1>15. \A v \in DOMAIN values' : ValueNext(values'[v], v)
  BY <1>1, <1>8, ValuesSame
<1> QED
  BY <1>8, <1>11, <1>12, <1>14, <1>15, MPIKeeps

(***************************************************************************)
(* A split sets a communicator, the other variables of MPI keep theirs.    *)
(***************************************************************************)
LEMMA SplitMPISets ==
    ASSUME NEW i, ComesMPI(i), source[i].fn = "MPI_Comm_split", status' = status,
           NEW op, op.kind \in {"world", "split"}, TextAfter(i, <<op>>), OpGood(i, op),
           NothingMisread(source) /\ op.kind = "world" => AllOf(i),
           NEW map, mpi' = [mpi EXCEPT !.comms = Put(map, source[i].result, <<i, 1>>)],
           \A v \in DOMAIN map : \/ v \in DOMAIN mpi.comms /\ map[v] = mpi.comms[v]
                                 \/ NameNext(map[v], v, "mpi"),
           values' = values
    PROVE  ConvInv'
<1> DEFINE r == source[i].result
           c == <<i, 1>>
           new == Put(map, r, c)
<1>1. /\ Comes(i) /\ source[i].fn \in Handles("mpi") /\ "mpi" \in Converters(usedModel)
      /\ CommsMeant(mpi.comms, "mpi") /\ "mpi" \in Libraries /\ MPITyped /\ source' = source
      /\ WorldKept(mpi.implicit)
  BY ComesMPISays, ComesSays DEF StaticsMeant, Libraries
<1>2. r # NoName
  <2>1. source[i].fn \in Setting /\ CallTyped(source[i])
    BY <1>1, ComesSays DEF Setting
  <2> QED
    BY <2>1, Zenon DEF CallTyped
<1>3. MadeNext(c) /\ (WorldNext(c) <=> op.kind = "world")
  BY <1>1, NewMade DEF CommKinds
<1>4. c[1] \in {0, i}
  OBVIOUS
<1> HIDE DEF c
<1>5. NameNext(c, r, "mpi")
  BY <1>1, <1>2, <1>3, <1>4, NameSet
<1>6. ASSUME NEW v \in DOMAIN map, v # r PROVE NameNext(map[v], v, "mpi")
  <2>1. CASE v \in DOMAIN mpi.comms /\ map[v] = mpi.comms[v]
    <3>1. NameNext(mpi.comms[v], v, "mpi")
      BY <1>1, <1>6, <2>1, NameKept
    <3> QED
      BY <2>1, <3>1
  <2> QED
    BY <1>6, <2>1
<1>7. CommsNext(new, "mpi")
  BY <1>5, <1>6, ResultSet
<1>8. mpi' = [mpi EXCEPT !.comms = new]
  BY DEF c
<1> HIDE DEF new
<1>9. MPITyped' /\ mpi'.comms = new /\ mpi'.implicit = mpi.implicit
  <2>1. mpi' = [comms |-> new, requests |-> mpi.requests, args |-> mpi.args,
                implicit |-> mpi.implicit]
    BY <1>1, <1>8 DEF MPITyped
  <2> QED
    BY <1>1, <2>1, MPIRetyped
<1>10. CommsNext(mpi'.comms, "mpi")
  BY <1>7, <1>9
<1>11. KeptNext(mpi'.implicit)
  <2>1. KeptNext(mpi.implicit)
    BY <1>1, KeptStays
  <2> QED
    BY <1>9, <2>1
<1>12. \A v \in DOMAIN values' : ValueNext(values'[v], v)
  BY <1>1, ValuesSame
<1>13. \A k \in DOMAIN <<op>> : OpGood(i, <<op>>[k])
  OBVIOUS
<1> QED
  BY <1>9, <1>10, <1>11, <1>12, <1>13, MPIKeeps

LEMMA SplitMPIKeeps ==
    ASSUME NEW i, ComesMPI(i), SplitMPI(i)
    PROVE  ConvInv'
<1>1. /\ Comes(i) /\ TypeOKConversion /\ CallsTyped /\ i \in DOMAIN source
      /\ source[i].fn = "MPI_Comm_split" /\ values' = values
  BY ComesMPISays, ComesSays DEF SplitMPI
<1>2. "world" \in TextKinds /\ "split" \in TextKinds /\ NoName \in OpTypes
  BY DEF TextKinds, PureKinds, OpTypes
<1>3. CASE /\ DuplicatesWorld(i)
           /\ ReplaceBy(i, None, <<Op(i, "world", NoName, None)>>)
           /\ mpi' = [mpi EXCEPT !.comms = Put(@, source[i].result, <<i, 1>>)]
  <2> DEFINE op == Op(i, "world", NoName, None)
  <2>1. op \in TextOp /\ op.kind = "world" /\ op.comm = None
    BY <1>1, <1>2, NoneTyped, OpTyped
  <2>2. ReplaceBy(i, None, <<op>>)
    BY <1>3
  <2> HIDE DEF op
  <2>3. <<op>> \in Seq(TextOp)
    BY <2>1, OneOp
  <2>4. TextAfter(i, <<op>>) /\ status' = status
    BY <1>1, <2>2, <2>3, TextReplaced, Replaced
  <2>5. OpGood(i, op)
    BY <2>1, PlainGood
  <2>6. NothingMisread(source) => AllOf(i)
    BY <1>1, <1>3, Zenon DEF NothingMisread, DuplicatesWorld, AllOf
  <2>7. mpi' = [mpi EXCEPT !.comms = Put(mpi.comms, source[i].result, <<i, 1>>)]
    BY <1>3
  <2>8. op.kind \in {"world", "split"}
    BY <2>1
  <2> QED
    BY <1>1, <2>4, <2>5, <2>6, <2>7, <2>8, SplitMPISets
<1>4. CASE /\ CommKnownMPI(i)
           /\ ReplaceBy(i, CommMPI(i), <<Op(i, "split", NoName, CommMPI(i))>>)
           /\ mpi' = [mpi EXCEPT !.comms = Put(CommsMPI(i), source[i].result, <<i, 1>>)]
  <2> DEFINE op == Op(i, "split", NoName, CommMPI(i))
  <2>1. op \in TextOp /\ op.kind = "split" /\ op.comm = CommMPI(i)
    BY <1>1, <1>2, CommMPITyped, OpTyped
  <2>2. ReplaceBy(i, CommMPI(i), <<op>>)
    BY <1>4
  <2> HIDE DEF op
  <2>3. <<op>> \in Seq(TextOp)
    BY <2>1, OneOp
  <2>4. TextAfter(i, <<op>>) /\ Rewritten(i, CommMPI(i), <<op>>, {}) /\ status' = status
    BY <1>1, <2>2, <2>3, TextReplaced, Replaced
  <2>5. {} \in SUBSET DOMAIN source
    OBVIOUS
  <2>6. /\ MadeNext(CommMPI(i)) /\ MeantNext(i, CommMPI(i))
        /\ \A v \in DOMAIN CommsMPI(i) :
              \/ v \in DOMAIN mpi.comms /\ CommsMPI(i)[v] = mpi.comms[v]
              \/ NameNext(CommsMPI(i)[v], v, "mpi")
    BY <1>4, <2>4, <2>5, CommMPIFound
  <2>7. OpGood(i, op)
    BY <2>1, <2>6, OnCommGood
  <2>8. op.kind \in {"world", "split"} /\ op.kind # "world"
    BY <2>1
  <2> QED
    BY <1>1, <1>4, <2>4, <2>6, <2>7, <2>8, SplitMPISets
<1> QED
  BY <1>3, <1>4, Zenon DEF SplitMPI

LEMMA MPIConverted ==
    ASSUME ConvInv, NEW i, Converted(i, "mpi"), ConvertMPI(i) \/ BreakOffMPI(i)
    PROVE  ConvInv'
<1>1. CASE BreakOffMPI(i)
  BY <1>1, BreakOffKeeps DEF BreakOffMPI
<1>2. CASE ConvertMPI(i)
  <2>1. ComesMPI(i)
    BY <1>2 DEF ConvertMPI, ComesMPI, Comes
  <2>2. \/ ProcessMPI(i) \/ QueryMPI(i) \/ CommunicateMPI(i) \/ SendrecvMPI(i) \/ IsendrecvMPI(i)
        \/ WaitMPI(i) \/ SplitMPI(i) \/ FreeMPI(i) \/ MemoryMPI(i) \/ RequestFreeMPI(i)
    BY <1>2 DEF ConvertMPI
  <2> QED
    BY <2>1, <2>2, ProcessMPIKeeps, QueryMPIKeeps, CommunicateMPIKeeps, SendrecvMPIKeeps,
       IsendrecvMPIKeeps, WaitMPIKeeps, SplitMPIKeeps, FreeMPIKeeps, MemoryMPIKeeps,
       RequestFreeMPIKeeps
<1> QED
  BY <1>1, <1>2

-----------------------------------------------------------------------------
(***************************************************************************)
(* The handlers of the NCCL conversion.                                    *)
(***************************************************************************)
NCCLRecord ==
    /\ nccl = [comms |-> nccl.comms, args |-> nccl.args, implicit |-> nccl.implicit,
               blocking |-> nccl.blocking, started |-> nccl.started, group |-> nccl.group,
               num |-> nccl.num]
    /\ RolesKnown(nccl.args)

ComesNCCL(i) ==
    /\ Comes(i) /\ Converted(i, "nccl")
    /\ mpi' = mpi /\ shmem' = shmem

LEMMA ComesNCCLSays ==
    ASSUME NEW i, ComesNCCL(i)
    PROVE  /\ Comes(i) /\ source[i].fn \in Handles("nccl") /\ "nccl" \in Converters(usedModel)
           /\ source[i].fn \notin CalleesMPI \union SHMEMNames
           /\ source[i].fn \in Setting => source[i].fn \in NCCLInits \union {"ncclCommSplit"}
           /\ NCCLRecord /\ NCCLTyped /\ StaticsMeant
<1>1. Comes(i) /\ source[i].fn \in Handles("nccl") /\ "nccl" \in Converters(usedModel)
  BY DEF ComesNCCL, Converted
<1>2. source[i].fn \notin CalleesMPI \union SHMEMNames
  BY <1>1, LibrariesApart
<1>3. Setting \subseteq NCCLInits \union {"ncclCommSplit"} \union CalleesMPI \union SHMEMNames
  BY DEF Setting, CalleesMPI, SHMEMNames
<1>4. NCCLRecord /\ NCCLTyped /\ StaticsMeant
  BY <1>1, ComesSays DEF StaticsTyped, NCCLRecord, Walking, TypeOKConversion, NCCLTyped
<1> QED
  BY <1>1, <1>2, <1>3, <1>4

LEMMA NCCLKeeps ==
    ASSUME NEW i, ComesNCCL(i), status' = status,
           NEW ops, TextAfter(i, ops), \A k \in DOMAIN ops : OpGood(i, ops[k]),
           NCCLRecord', NCCLTyped', GroupMeant',
           CommsNext(nccl'.comms, "nccl"), KeptNext(nccl'.implicit),
           \A v \in DOMAIN values' : ValueNext(values'[v], v)
    PROVE  ConvInv'
<1>1. /\ Comes(i) /\ source[i].fn \in Handles("nccl")
      /\ StaticsMeant /\ mpi' = mpi /\ shmem' = shmem
  BY ComesNCCLSays DEF ComesNCCL
<1>2. CommsNext(mpi.comms, "mpi") /\ CommsNext(shmem.comms, "shmem")
  <2>1. /\ "mpi" \in Libraries /\ "shmem" \in Libraries
        /\ "nccl" \in Libraries \ {"mpi"} /\ "nccl" \in Libraries \ {"shmem"}
    BY DEF Libraries
  <2>2. CommsMeant(mpi.comms, "mpi") /\ CommsMeant(shmem.comms, "shmem")
    BY <1>1 DEF StaticsMeant
  <2> QED
    BY <1>1, <2>1, <2>2, CommsStay
<1>3. KeptNext(mpi.implicit) /\ KeptNext(shmem.world)
  BY <1>1, KeptStays DEF StaticsMeant
<1>4. StaticsNext
  BY <1>1, <1>2, <1>3, Zenon DEF StaticsNext
<1>5. StaticsTyped'
  <2>1. StaticsTyped /\ source' = source
    BY <1>1, ComesSays
  <2> QED
    BY <1>1, <2>1, Zenon DEF StaticsTyped, NCCLRecord, RolesKnown
<1> QED
  BY <1>1, <1>4, <1>5, HandledKeeps

(* The statics but for what is set are as they were.                       *)
LEMMA NCCLRecordSet ==
    ASSUME NCCLRecord, NEW comms, NEW args, RolesKnown(args), NEW implicit, NEW blocking,
           NEW started, NEW group, NEW num,
           nccl' = [comms |-> comms, args |-> args, implicit |-> implicit, blocking |-> blocking,
                    started |-> started, group |-> group, num |-> num]
    PROVE  /\ NCCLRecord'
           /\ nccl'.comms = comms /\ nccl'.implicit = implicit /\ nccl'.blocking = blocking
           /\ nccl'.started = started /\ nccl'.group = group /\ nccl'.num = num
BY DEF NCCLRecord, RolesKnown

(* A handler that leaves the statics alone but for the arguments' roles.   *)
LEMMA NCCLSameKeeps ==
    ASSUME NEW i, ComesNCCL(i), status' = status, source[i].fn \notin Setting,
           source[i].fn \notin {"ncclGroupStart", "ncclGroupEnd"},
           NEW ops, TextAfter(i, ops), \A k \in DOMAIN ops : OpGood(i, ops[k]),
           NEW args, RolesKnown(args), NEW implicit, KeptNext(implicit),
           NEW group \in Array, NEW num \in Nat, num = 0 <=> group = NoArray,
           nccl' = [comms |-> nccl.comms, args |-> args, implicit |-> implicit,
                    blocking |-> nccl.blocking, started |-> nccl.started, group |-> group,
                    num |-> num],
           \A v \in DOMAIN values' : ValueNext(values'[v], v)
    PROVE  ConvInv'
<1>1. Comes(i) /\ StaticsMeant /\ NCCLRecord /\ NCCLTyped /\ source' = source
  BY ComesNCCLSays, ComesSays
<1>2. /\ NCCLRecord' /\ nccl'.comms = nccl.comms /\ nccl'.implicit = implicit
      /\ nccl'.blocking = nccl.blocking /\ nccl'.started = nccl.started
      /\ nccl'.group = group /\ nccl'.num = num
  BY <1>1, NCCLRecordSet
<1>3. NCCLTyped'
  BY <1>1, <1>2, TypesKept DEF NCCLTyped, NoArray
<1>4. CommsNext(nccl'.comms, "nccl")
  <2>1. "nccl" \in Libraries /\ CommsMeant(nccl.comms, "nccl")
    BY <1>1 DEF Libraries, StaticsMeant
  <2>2. CommsNext(nccl.comms, "nccl")
    BY <1>1, <2>1, CommsStay
  <2> QED
    BY <1>2, <2>2
<1>5. GroupMeant'
  <2>1. CommsBlock'
    BY <1>1, <1>2, Zenon DEF StaticsMeant, GroupMeant, CommsBlock
  <2> QED
    BY <1>1, <1>2, <2>1, GroupStays
<1>6. KeptNext(nccl'.implicit)
  BY <1>2
<1> QED
  BY <1>2, <1>3, <1>4, <1>5, <1>6, NCCLKeeps

(* The communicator that a call names.                                     *)
LEMMA CommNCCLFound ==
    ASSUME NEW i, ComesNCCL(i), CommKnownNCCL(i)
    PROVE  /\ CommNCCL(i) \in Nat \X Nat /\ MakesComm(CommNCCL(i))
           /\ CommNCCL(i) \in DOMAIN nccl.blocking
           /\ \A ops : TextAfter(i, ops) => MadeNext(CommNCCL(i)) /\ MeantNext(i, CommNCCL(i))
<1>1. /\ Comes(i) /\ TypeOKConversion /\ NCCLTyped /\ CommsMeant(nccl.comms, "nccl")
      /\ source[i].comm \in DOMAIN nccl.comms
  BY ComesNCCLSays, ComesSays DEF StaticsMeant, CommKnownNCCL
<1>2. MakesComm(CommNCCL(i))
  BY <1>1, Zenon DEF CommNCCL, CommsMeant
<1>3. CommNCCL(i) \in Nat \X Nat
  BY <1>1, <1>2, PlaceTyped DEF MakesComm
<1>4. CommNCCL(i) \in DOMAIN nccl.blocking
  BY <1>1, Zenon DEF CommNCCL, NCCLTyped
<1>5. \A ops : TextAfter(i, ops) => MadeNext(CommNCCL(i)) /\ MeantNext(i, CommNCCL(i))
  BY <1>1, CommFound, Zenon DEF CommNCCL
<1> QED
  BY <1>2, <1>3, <1>4, <1>5

LEMMA NCCLRows ==
    ASSUME NEW fn \in NCCLCommunication
    PROVE  /\ KindNCCL(fn) \in {"coll", "send", "recv"}
           /\ TypeNCCL(fn) \in CollectiveNames \union {NoName}
           /\ KindNCCL(fn) = "coll" => TypeNCCL(fn) \in CollectiveNames
           /\ fn \notin Setting \union {"ncclGroupStart", "ncclGroupEnd"}
<1>1. \A row \in NCCLMessages : row[2] \in {"send", "recv"}
  BY DEF NCCLMessages
<1>2. \A row \in NCCLCollectives : row[2] \in CollectiveNames
  BY DEF NCCLCollectives, CollectiveNames
<1>3. fn \in Listed(NCCLCollectives) \/ fn \in Listed(NCCLMessages)
  BY DEF NCCLCommunication, Listed
<1>4. fn \in Listed(NCCLMessages) => Entry(NCCLMessages, fn) \in {"send", "recv"}
  BY <1>1, EntryListed
<1>5. fn \in Listed(NCCLCollectives) => Entry(NCCLCollectives, fn) \in CollectiveNames
  BY <1>2, EntryListed
<1>6. fn \notin Setting \union {"ncclGroupStart", "ncclGroupEnd"}
  <2>1. \A row \in NCCLMessages \union NCCLCollectives :
          row[1] \notin {"MPI_Comm_split", "ncclCommSplit", "shmem_team_split_strided",
                         "ncclCommInitRank", "ncclCommInitRankConfig", "ncclGroupStart",
                         "ncclGroupEnd"}
    BY DEF NCCLMessages, NCCLCollectives
  <2>2. \E row \in NCCLMessages \union NCCLCollectives : fn = row[1]
    BY <1>3, InList
  <2> QED
    BY <2>1, <2>2 DEF Setting, NCCLInits
<1> QED
  BY <1>3, <1>4, <1>5, <1>6 DEF KindNCCL, TypeNCCL

LEMMA OpNCCLTyped ==
    ASSUME NEW i, ComesNCCL(i), source[i].fn \in NCCLCommunication, CommKnownNCCL(i)
    PROVE  /\ OpNCCL(i) \in TextOp /\ OpNCCL(i).kind \in {"coll", "send", "recv"}
           /\ OpNCCL(i).comm = CommNCCL(i) /\ OpNCCL(i).blocking
           /\ RolesKnown(ArgsMapped(nccl.args, source[i].args))
<1> DEFINE kind == KindNCCL(source[i].fn)
           type == TypeNCCL(source[i].fn)
           op   == Op(i, kind, type, CommNCCL(i))
           args == ArgsConverted(nccl.args, source[i].args)
           blocks == nccl.blocking[CommNCCL(i)]
<1>1. /\ Comes(i) /\ NCCLRecord /\ CallsTyped /\ i \in DOMAIN source /\ CommsBlock
      /\ source[i] \in ApiCall
  BY ComesNCCLSays, ComesSays DEF StaticsMeant, GroupMeant
<1>2. CommNCCL(i) \in Nat \X Nat /\ CommNCCL(i) \in DOMAIN nccl.blocking
  BY CommNCCLFound
<1>3. kind \in {"coll", "send", "recv"} /\ kind \in TextKinds /\ type \in OpTypes
  BY NCCLRows DEF TextKinds, OpTypes
<1>4. op \in TextOp /\ op.kind = kind /\ op.comm = CommNCCL(i)
  <2> HIDE DEF kind, type
  <2> QED
    BY <1>1, <1>2, <1>3, OpTyped
<1>5. args \in Seq(Argument) /\ RolesKnown(ArgsMapped(nccl.args, source[i].args))
  <2>1. source[i].args \in Seq(Argument)
    BY <1>1 DEF ApiCall
  <2> QED
    BY <1>1, <2>1, ArgsTyped DEF NCCLRecord
<1>6. blocks = TRUE
  BY <1>1, <1>2, Zenon DEF CommsBlock
<1>7. OpNCCL(i) = [op EXCEPT !.args = args, !.blocking = blocks]
  BY Zenon DEF OpNCCL
<1> HIDE DEF op, args, blocks, kind
<1> QED
  BY <1>3, <1>4, <1>5, <1>6, <1>7 DEF TextOp

(* A call blocks if no group is open.                                      *)
LEMMA CommunicateNCCLBlocks ==
    ASSUME NEW i, ComesNCCL(i), source[i].fn \in NCCLCommunication
    PROVE  ~ nccl.started <=> BlocksFor(i)
<1>1. /\ Comes(i) /\ source[i].fn \notin CalleesMPI /\ "nccl" \in Converters(usedModel) /\ GroupMeant
      /\ i = at + 1 /\ at \in Nat
  BY ComesNCCLSays, ComesSays DEF StaticsMeant
<1>2. i \notin RequestCalls /\ source[i].fn \notin MPIExchanges
  BY <1>1 DEF RequestCalls, CalleesMPI
<1>3. i - 1 = at
  BY <1>1
<1>4. InOpenGroup(i) <=> nccl.started
  BY <1>1, <1>3, Zenon DEF InOpenGroup, GroupMeant
<1> QED
  BY <1>2, <1>4, Zenon DEF BlocksFor

LEMMA CommunicateNCCLKeeps ==
    ASSUME NEW i, ComesNCCL(i), CommunicateNCCL(i)
    PROVE  ConvInv'
<1> DEFINE args == ArgsMapped(nccl.args, source[i].args)
           group == IF nccl.started THEN GroupArray(i) ELSE nccl.group
           num == IF nccl.started THEN nccl.num + 1 ELSE nccl.num
           plain == OpNCCL(i)
           stored == WithRequest(plain, GroupArray(i), nccl.num)
           op == IF nccl.started THEN stored ELSE plain
<1>1. /\ Comes(i) /\ NCCLRecord /\ NCCLTyped /\ StaticsMeant /\ i \in 1 .. Len(source)
      /\ source[i].fn \in NCCLCommunication /\ CommKnownNCCL(i) /\ values' = values
  BY ComesNCCLSays, ComesSays DEF CommunicateNCCL, ConvertibleNCCL
<1>2. source[i].fn \notin Setting /\ source[i].fn \notin {"ncclGroupStart", "ncclGroupEnd"}
  BY <1>1, NCCLRows
<1>3. /\ plain \in TextOp /\ plain.kind \in {"coll", "send", "recv"} /\ plain.comm = CommNCCL(i)
      /\ plain.blocking /\ RolesKnown(args)
  BY <1>1, OpNCCLTyped
<1>4. GroupArray(i) \in Array /\ GroupArray(i) # NoArray
  BY <1>1 DEF GroupArray, NCCLTyped, ArrayOf, NoArray, Array
<1>5. /\ stored \in TextOp /\ stored.kind = plain.kind /\ stored.comm = plain.comm
      /\ ~ stored.blocking
  <2> HIDE DEF plain
  <2>1. nccl.num \in Nat
    BY <1>1 DEF NCCLTyped
  <2> QED
    BY <1>3, <1>4, <2>1, RequestTyped
<1>6. /\ op \in TextOp /\ op.kind \in {"coll", "send", "recv"} /\ op.comm = CommNCCL(i)
      /\ op.blocking <=> ~ nccl.started
  <2> HIDE DEF plain, stored
  <2> QED
    BY <1>3, <1>5
<1>7. /\ ReplaceBy(i, None, <<op>>)
      /\ nccl' = [comms |-> nccl.comms, args |-> args, implicit |-> nccl.implicit,
                  blocking |-> nccl.blocking, started |-> nccl.started, group |-> group,
                  num |-> num]
  <2>1. CASE nccl.started
    <3>1. /\ ReplaceBy(i, None, <<op>>)
          /\ nccl' = [[nccl EXCEPT !.args = args] EXCEPT !.group = GroupArray(i), !.num = @ + 1]
      BY <2>1, Zenon DEF CommunicateNCCL
    <3> HIDE DEF args
    <3> QED
      BY <1>1, <2>1, <3>1 DEF NCCLRecord
  <2>2. CASE ~ nccl.started
    <3>1. /\ ReplaceBy(i, None, <<op>>)
          /\ nccl' = [nccl EXCEPT !.args = args]
      BY <2>2, Zenon DEF CommunicateNCCL
    <3> HIDE DEF args
    <3> QED
      BY <1>1, <2>2, <3>1 DEF NCCLRecord
  <2> QED
    BY <2>1, <2>2
<1>8. group \in Array /\ num \in Nat /\ (num = 0 <=> group = NoArray)
  BY <1>1, <1>4 DEF NCCLTyped
<1> HIDE DEF op, args, group, num
<1>9. <<op>> \in Seq(TextOp) /\ \A k \in DOMAIN <<op>> : <<op>>[k] = op
  BY <1>6, OneOp
<1>10. TextAfter(i, <<op>>) /\ status' = status
  BY <1>1, <1>7, <1>9, TextReplaced, Replaced
<1>11. MadeNext(CommNCCL(i)) /\ MeantNext(i, CommNCCL(i))
  BY <1>1, <1>10, CommNCCLFound
<1>12. OpGood(i, op)
  <2>1. op.blocking <=> BlocksFor(i)
    BY <1>1, <1>6, CommunicateNCCLBlocks
  <2>2. op.kind # "call"
    BY <1>6
  <2> QED
    BY <1>6, <1>11, <2>1, <2>2, CommunicationGood
<1>13. \A k \in DOMAIN <<op>> : OpGood(i, <<op>>[k])
  BY <1>9, <1>12
<1>14. \A v \in DOMAIN values' : ValueNext(values'[v], v)
  BY <1>1, <1>10, ValuesSame
<1>15. KeptNext(nccl.implicit)
  BY <1>1, <1>10, KeptStays DEF StaticsMeant
<1> QED
  BY <1>2, <1>3, <1>7, <1>8, <1>10, <1>13, <1>14, <1>15, NCCLSameKeeps

(* At most one thing is the only one.                                      *)
LEMMA OnlyOne ==
    ASSUME NEW S, IsFiniteSet(S), Cardinality(S) <= 1, NEW a \in S, NEW b \in S
    PROVE  a = b
<1>1. SUFFICES ASSUME a # b PROVE FALSE
  OBVIOUS
<1>2. IsFiniteSet({a}) /\ Cardinality({a}) = 1
  BY FS_Singleton
<1>3. IsFiniteSet({a} \union {b}) /\ Cardinality({a} \union {b}) = 2
  <2>1. b \notin {a}
    BY <1>1
  <2>2. /\ IsFiniteSet({a} \union {b})
        /\ Cardinality({a} \union {b}) = IF b \in {a} THEN Cardinality({a}) ELSE Cardinality({a}) + 1
    BY <1>2, FS_AddElement, Zenon
  <2> QED
    BY <1>2, <2>1, <2>2
<1>4. Cardinality({a} \union {b}) <= Cardinality(S)
  <2>1. {a} \union {b} \in SUBSET S
    OBVIOUS
  <2> QED
    BY <2>1, FS_Subset
<1>5. Cardinality(S) \in Nat
  BY FS_CardinalityType
<1> QED
  BY <1>3, <1>4, <1>5

(* A variable that holds the size of a commWorld is of all processes.      *)
LEMMA SizeMeant ==
    ASSUME NEW i, ComesNCCL(i), source[i].fn \in NCCLInits, HoldsWorld(source[i].var, "size"),
           NothingMisread(source)
    PROVE  AllOf(i)
<1> DEFINE v == source[i].var
           queries == QueriesOf(source, v)
           by == values[v].by
<1>1. /\ ValuesMeant /\ i = at + 1 /\ at \in Nat /\ i \in DOMAIN source /\ source \in Seq(ApiCall)
  BY ComesNCCLSays, ComesSays DEF StaticsMeant
<1>2. by \in 1 .. at /\ by \in queries /\ MeansAll(source)[by]
  BY <1>1, Zenon DEF ValuesMeant, HoldsWorld
<1>3. IsFiniteSet(queries)
  <2>1. queries \in SUBSET (1 .. Len(source))
    BY <1>1 DEF QueriesOf
  <2>2. IsFiniteSet(1 .. Len(source))
    <3>1. Len(source) \in Int
      BY <1>1
    <3> QED
      BY <3>1, FS_Interval
  <2> QED
    BY <2>1, <2>2, FS_Subset
<1>4. Cardinality(queries) <= 1
  BY <1>1, Zenon DEF NothingMisread
<1> HIDE DEF queries, by
<1>5. \A q \in queries : q = by
  BY <1>2, <1>3, <1>4, OnlyOne
<1>6. by < i
  BY <1>1, <1>2
<1>7. \A q \in queries : q < i /\ MeansAll(source)[q]
  BY <1>2, <1>5, <1>6
<1> QED
  BY <1>7, Zenon DEF AllOf, queries

SetsNCCL(i, c) ==
    nccl' = [nccl EXCEPT !.comms = Put(@, source[i].result, c), !.blocking = Put(@, c, TRUE)]

(***************************************************************************)
(* A communicator is made and set; it blocks, and no group is begun or     *)
(* ended.                                                                  *)
(***************************************************************************)
LEMMA NCCLSets ==
    ASSUME NEW i, ComesNCCL(i), source[i].fn \in NCCLInits \union {"ncclCommSplit"},
           status' = status, values' = values,
           NEW ops, TextAfter(i, ops), \A k \in DOMAIN ops : OpGood(i, ops[k]),
           NEW c, MadeNext(c), c[1] \in {0, i}, NothingMisread(source) /\ WorldNext(c) => AllOf(i),
           SetsNCCL(i, c)
    PROVE  ConvInv'
<1> DEFINE r == source[i].result
           named == Put(nccl.comms, r, c)
           blocks == Put(nccl.blocking, c, TRUE)
<1>1. /\ Comes(i) /\ source[i].fn \in Handles("nccl") /\ "nccl" \in Converters(usedModel)
      /\ CommsMeant(nccl.comms, "nccl") /\ "nccl" \in Libraries /\ NCCLRecord /\ NCCLTyped
      /\ source' = source /\ WorldKept(nccl.implicit) /\ GroupMeant
  BY ComesNCCLSays, ComesSays DEF StaticsMeant, Libraries
<1>2. r # NoName /\ source[i].fn \notin {"ncclGroupStart", "ncclGroupEnd"}
  <2>1. source[i].fn \in Setting /\ CallTyped(source[i])
    BY <1>1, ComesSays DEF Setting
  <2>2. r # NoName
    BY <2>1, Zenon DEF CallTyped
  <2> QED
    BY <2>2 DEF NCCLInits
<1>3. NameNext(c, r, "nccl")
  BY <1>1, <1>2, NameSet
<1>4. \A v \in DOMAIN nccl.comms : v # r => NameNext(nccl.comms[v], v, "nccl")
  BY <1>1, NameKept
<1>5. CommsNext(named, "nccl")
  BY <1>3, <1>4, ResultSet
<1>6. /\ \A v \in DOMAIN named : named[v] \in DOMAIN blocks
      /\ \A d \in DOMAIN blocks : blocks[d] = TRUE
  <2>1. /\ DOMAIN named = DOMAIN nccl.comms \union {r} /\ named[r] = c
        /\ \A v \in DOMAIN nccl.comms : v # r => named[v] = nccl.comms[v]
    BY DEF Put
  <2>2. /\ DOMAIN blocks = DOMAIN nccl.blocking \union {c} /\ blocks[c] = TRUE
        /\ \A d \in DOMAIN nccl.blocking : d # c => blocks[d] = nccl.blocking[d]
    BY DEF Put
  <2>3. \A v \in DOMAIN nccl.comms : nccl.comms[v] \in DOMAIN nccl.blocking
    BY <1>1 DEF NCCLTyped
  <2> HIDE DEF named, blocks
  <2>4. \A v \in DOMAIN named : named[v] \in DOMAIN blocks
    BY <2>1, <2>2, <2>3
  <2>5. \A d \in DOMAIN blocks : blocks[d] = TRUE
    BY <1>1, <2>2, Zenon DEF GroupMeant, CommsBlock
  <2> QED
    BY <2>4, <2>5
<1>7. nccl' = [nccl EXCEPT !.comms = named, !.blocking = blocks]
  BY DEF SetsNCCL
<1> HIDE DEF named, blocks
<1>8. /\ NCCLRecord' /\ nccl'.comms = named /\ nccl'.implicit = nccl.implicit
      /\ nccl'.blocking = blocks /\ nccl'.started = nccl.started
      /\ nccl'.group = nccl.group /\ nccl'.num = nccl.num
  <2>1. nccl' = [comms |-> named, args |-> nccl.args, implicit |-> nccl.implicit,
                 blocking |-> blocks, started |-> nccl.started, group |-> nccl.group,
                 num |-> nccl.num]
    BY <1>1, <1>7 DEF NCCLRecord
  <2>2. /\ nccl'.comms = named /\ nccl'.args = nccl.args /\ nccl'.implicit = nccl.implicit
        /\ nccl'.blocking = blocks /\ nccl'.started = nccl.started
        /\ nccl'.group = nccl.group /\ nccl'.num = nccl.num
    BY <2>1
  <2>3. NCCLRecord'
    BY <1>1, <2>1, <2>2 DEF NCCLRecord, RolesKnown
  <2> QED
    BY <2>2, <2>3
<1>9. NCCLTyped'
  BY <1>1, <1>6, <1>8, TypesKept DEF NCCLTyped, NoArray
<1>10. CommsNext(nccl'.comms, "nccl")
  BY <1>5, <1>8
<1>11. KeptNext(nccl'.implicit)
  <2>1. KeptNext(nccl.implicit)
    BY <1>1, KeptStays
  <2> QED
    BY <1>8, <2>1
<1>12. GroupMeant'
  <2>1. CommsBlock'
    BY <1>6, <1>8, Zenon DEF CommsBlock
  <2> QED
    BY <1>1, <1>2, <1>8, <2>1, GroupStays
<1>13. \A v \in DOMAIN values' : ValueNext(values'[v], v)
  BY <1>1, ValuesSame
<1> QED
  BY <1>8, <1>9, <1>10, <1>11, <1>12, <1>13, NCCLKeeps

(* The unique id is no configuration.                                      *)
LEMMA UniqueIdBlocks ==
    ASSUME NEW i \in DOMAIN source, CallsTyped
    PROVE  IsBlocking(i) = TRUE
<1>1. CallTyped(source[i])
  BY DEF CallsTyped
<1>2. ASSUME source[i].fn = "ncclCommInitRankConfig" PROVE ConfigOperand(i) # Nonblocking
  <2>1. source[i].args[1] = UniqueId
    BY <1>1, <1>2, Zenon DEF CallTyped
  <2> QED
    BY <2>1 DEF ConfigOperand, UniqueId, Nonblocking
<1> QED
  BY <1>2 DEF IsBlocking

LEMMA InitRankNCCLKeeps ==
    ASSUME NEW i, ComesNCCL(i), InitRankNCCL(i)
    PROVE  ConvInv'
<1> DEFINE kind == "process"
           op == Op(i, kind, source[i].fn, None)
           c == NewWorld
<1>1. /\ Comes(i) /\ CallsTyped /\ i \in DOMAIN source
      /\ source[i].fn \in NCCLInits /\ HoldsWorld(source[i].var, "size") /\ values' = values
      /\ ReplaceBy(i, c, <<op>>)
  BY ComesNCCLSays, ComesSays DEF InitRankNCCL
<1>2. SetsNCCL(i, c)
  <2>1. IsBlocking(i) = TRUE
    BY <1>1, UniqueIdBlocks
  <2>2. nccl' = [nccl EXCEPT !.comms = Put(@, source[i].result, NewWorld),
                            !.blocking = Put(@, NewWorld, IsBlocking(i))]
    BY DEF InitRankNCCL
  <2> QED
    BY <2>1, <2>2 DEF SetsNCCL
<1> HIDE DEF c
<1>3. kind \in TextKinds /\ source[i].fn \in OpTypes /\ None \in Nat \X Nat
  BY <1>1, NoneTyped DEF TextKinds, OpTypes
<1>4. op \in TextOp /\ op.kind = kind /\ op.comm = None
  <2> HIDE DEF kind
  <2> QED
    BY <1>1, <1>3, OpTyped, SMTT(30)
<1> HIDE DEF op
<1>5. <<op>> \in Seq(TextOp) /\ \A k \in DOMAIN <<op>> : <<op>>[k] = op
  BY <1>4, OneOp
<1>6. TextAfter(i, <<op>>) /\ Rewritten(i, c, <<op>>, {}) /\ status' = status
  BY <1>1, <1>5, TextReplaced, Replaced
<1>7. MadeNext(c) /\ c[1] \in {0, i}
  <2>1. c = NewWorld /\ {} \in SUBSET DOMAIN source
    BY DEF c
  <2> QED
    BY <1>1, <1>6, <2>1, WorldMade
<1>8. NothingMisread(source) /\ WorldNext(c) => AllOf(i)
  BY <1>1, SizeMeant
<1>9. OpGood(i, op)
  BY <1>4, PlainGood
<1>10. \A k \in DOMAIN <<op>> : OpGood(i, <<op>>[k])
  BY <1>5, <1>9
<1> QED
  BY <1>1, <1>2, <1>6, <1>7, <1>8, <1>10, NCCLSets

LEMMA SplitNCCLKeeps ==
    ASSUME NEW i, ComesNCCL(i), SplitNCCL(i)
    PROVE  ConvInv'
<1> DEFINE kind == "split"
           op == Op(i, kind, NoName, CommNCCL(i))
           c == <<i, 1>>
<1>1. /\ Comes(i) /\ CallsTyped /\ i \in DOMAIN source /\ CommsBlock
      /\ source[i].fn = "ncclCommSplit" /\ CommKnownNCCL(i) /\ values' = values
      /\ ReplaceBy(i, None, <<op>>)
  BY ComesNCCLSays, ComesSays DEF SplitNCCL, ConvertibleNCCL, StaticsMeant, GroupMeant
<1>2. CommNCCL(i) \in Nat \X Nat /\ CommNCCL(i) \in DOMAIN nccl.blocking
  BY <1>1, CommNCCLFound
<1>3. SetsNCCL(i, c)
  <2>1. nccl.blocking[CommNCCL(i)] = TRUE
    BY <1>1, <1>2, Zenon DEF CommsBlock
  <2>2. nccl' = [nccl EXCEPT !.comms = Put(@, source[i].result, <<i, 1>>),
                             !.blocking = Put(@, <<i, 1>>, nccl.blocking[CommNCCL(i)])]
    BY DEF SplitNCCL
  <2> QED
    BY <2>1, <2>2, Zenon DEF SetsNCCL
<1>4. c[1] \in {0, i}
  OBVIOUS
<1>5. kind \in TextKinds /\ NoName \in OpTypes
  BY DEF TextKinds, PureKinds, OpTypes
<1>6. op \in TextOp /\ op.kind = kind /\ op.comm = CommNCCL(i)
  <2> HIDE DEF kind
  <2> QED
    BY <1>1, <1>2, <1>5, OpTyped, SMTT(30)
<1> HIDE DEF op
<1>7. <<op>> \in Seq(TextOp) /\ \A k \in DOMAIN <<op>> : <<op>>[k] = op
  BY <1>6, OneOp
<1>8. TextAfter(i, <<op>>) /\ status' = status
  BY <1>1, <1>7, TextReplaced, Replaced
<1>9. MadeNext(CommNCCL(i)) /\ MeantNext(i, CommNCCL(i))
  BY <1>1, <1>8, CommNCCLFound
<1>10. OpGood(i, op)
  BY <1>6, <1>9, OnCommGood
<1>11. \A k \in DOMAIN <<op>> : OpGood(i, <<op>>[k])
  BY <1>7, <1>10
<1>12. MadeNext(c) /\ (WorldNext(c) <=> op.kind = "world")
  BY <1>1, <1>6, <1>8, NewMade DEF CommKinds
<1>13. ~ WorldNext(c)
  BY <1>6, <1>12
<1> HIDE DEF c
<1> QED
  BY <1>1, <1>3, <1>4, <1>8, <1>11, <1>12, <1>13, NCCLSets

(* The end of a group, or its start, leaves the communicators alone.       *)
LEMMA NCCLGroups ==
    ASSUME NEW i, ComesNCCL(i), source[i].fn \in {"ncclGroupStart", "ncclGroupEnd"},
           status' = status, values' = values,
           NEW ops, TextAfter(i, ops), \A k \in DOMAIN ops : OpGood(i, ops[k]),
           NCCLRecord', NCCLTyped', nccl'.comms = nccl.comms, nccl'.implicit = nccl.implicit,
           nccl'.blocking = nccl.blocking,
           nccl'.started <=> source[i].fn = "ncclGroupStart"
    PROVE  ConvInv'
<1>1. /\ Comes(i) /\ CommsMeant(nccl.comms, "nccl") /\ WorldKept(nccl.implicit) /\ GroupMeant
      /\ at' = i /\ i \in Nat /\ i \in 1 .. i /\ source' = source
  BY ComesNCCLSays, ComesSays DEF StaticsMeant
<1>2. CommsNext(nccl'.comms, "nccl")
  <2>1. source[i].fn \notin Setting /\ "nccl" \in Libraries
    BY DEF Setting, NCCLInits, Libraries
  <2>2. CommsNext(nccl.comms, "nccl")
    BY <1>1, <2>1, CommsStay
  <2> QED
    BY <2>2
<1>3. KeptNext(nccl'.implicit)
  <2>1. KeptNext(nccl.implicit)
    BY <1>1, KeptStays
  <2> QED
    BY <2>1
<1>4. GroupMeant'
  <2>1. CommsBlock'
    BY <1>1, Zenon DEF GroupMeant, CommsBlock
  <2> DEFINE Open == \E s \in 1 .. i : /\ source[s].fn = "ncclGroupStart"
                                       /\ \A e \in s .. i : source[e].fn # "ncclGroupEnd"
  <2>2. CASE source[i].fn = "ncclGroupStart"
    <3>1. \A e \in i .. i : source[e].fn # "ncclGroupEnd"
      BY <1>1, <2>2
    <3>2. Open
      BY <1>1, <2>2, <3>1, Zenon
    <3> QED
      BY <1>1, <2>1, <2>2, <3>2, Zenon DEF GroupMeant
  <2>3. CASE source[i].fn = "ncclGroupEnd"
    <3>1. \A s \in 1 .. i : i \in s .. i
      BY <1>1
    <3>2. ~ Open
      BY <2>3, <3>1, Zenon
    <3>3. source[i].fn # "ncclGroupStart"
      BY <2>3
    <3> QED
      BY <1>1, <2>1, <3>2, <3>3, Zenon DEF GroupMeant
  <2> QED
    BY <2>2, <2>3
<1>5. \A v \in DOMAIN values' : ValueNext(values'[v], v)
  BY <1>1, ValuesSame
<1> QED
  BY <1>2, <1>3, <1>4, <1>5, NCCLKeeps

LEMMA GroupStartNCCLKeeps ==
    ASSUME NEW i, ComesNCCL(i), GroupStartNCCL(i)
    PROVE  ConvInv'
<1>1. /\ Comes(i) /\ NCCLRecord /\ NCCLTyped /\ source' = source
      /\ source[i].fn = "ncclGroupStart" /\ values' = values
      /\ ReplaceBy(i, None, <<>>) /\ nccl' = [nccl EXCEPT !.started = TRUE]
  BY ComesNCCLSays, ComesSays DEF GroupStartNCCL
<1>2. <<>> \in Seq(TextOp) /\ \A k \in DOMAIN <<>> : OpGood(i, <<>>[k])
  OBVIOUS
<1>3. TextAfter(i, <<>>) /\ status' = status
  BY <1>1, <1>2, TextReplaced, Replaced
<1>4. /\ nccl'.comms = nccl.comms /\ nccl'.args = nccl.args /\ nccl'.implicit = nccl.implicit
      /\ nccl'.blocking = nccl.blocking /\ nccl'.started = TRUE
      /\ nccl'.group = nccl.group /\ nccl'.num = nccl.num
  BY <1>1 DEF NCCLRecord
<1>5. NCCLRecord'
  BY <1>1, <1>4 DEF NCCLRecord, RolesKnown
<1>6. NCCLTyped'
  BY <1>1, <1>4, TypesKept DEF NCCLTyped, NoArray
<1>7. nccl'.started
  BY <1>4
<1> QED
  BY <1>1, <1>2, <1>3, <1>4, <1>5, <1>6, <1>7, NCCLGroups

LEMMA GroupEndNCCLKeeps ==
    ASSUME NEW i, ComesNCCL(i), GroupEndNCCL(i)
    PROVE  ConvInv'
<1> DEFINE op == WaitFor(i, nccl.group, nccl.num)
<1>1. /\ Comes(i) /\ NCCLRecord /\ NCCLTyped /\ source' = source /\ CallsTyped
      /\ i \in DOMAIN source
      /\ source[i].fn = "ncclGroupEnd" /\ values' = values
      /\ ReplaceBy(i, None, <<op>>)
  BY ComesNCCLSays, ComesSays DEF GroupEndNCCL
<1>2. op \in TextOp /\ op.kind = "wait" /\ op.comm = None
  BY <1>1, WaitTyped DEF NCCLTyped
<1> HIDE DEF op
<1>3. <<op>> \in Seq(TextOp) /\ \A k \in DOMAIN <<op>> : <<op>>[k] = op
  BY <1>2, OneOp
<1>4. TextAfter(i, <<op>>) /\ status' = status
  BY <1>1, <1>3, TextReplaced, Replaced
<1>5. OpGood(i, op)
  BY <1>2, PlainGood
<1>6. \A k \in DOMAIN <<op>> : OpGood(i, <<op>>[k])
  BY <1>3, <1>5
<1>7. /\ nccl' = [comms |-> nccl.comms, args |-> nccl.args, implicit |-> nccl.implicit,
                  blocking |-> nccl.blocking, started |-> FALSE, group |-> NoArray, num |-> 0]
  BY <1>1 DEF GroupEndNCCL, GroupClosed, NCCLRecord
<1>8. /\ nccl'.comms = nccl.comms /\ nccl'.args = nccl.args /\ nccl'.implicit = nccl.implicit
      /\ nccl'.blocking = nccl.blocking /\ nccl'.started = FALSE
      /\ nccl'.group = NoArray /\ nccl'.num = 0
  BY <1>7
<1>9. NCCLRecord'
  BY <1>1, <1>7, <1>8 DEF NCCLRecord, RolesKnown
<1>10. NCCLTyped'
  <2>1. NoArray \in Array
    BY DEF NoArray, Array
  <2>2. \A v \in DOMAIN nccl'.comms : nccl'.comms[v] \in DOMAIN nccl'.blocking
    BY <1>1, <1>8, Zenon DEF NCCLTyped
  <2>3. nccl'.started \in BOOLEAN
    BY <1>8, Zenon
  <2>4. nccl'.num \in Nat /\ nccl'.group \in Array /\ (nccl'.num = 0 <=> nccl'.group = NoArray)
    BY <1>8, <2>1
  <2>5. Array' = Array /\ NoArray' = NoArray
    BY <1>1, TypesKept DEF NoArray
  <2> QED
    BY <2>2, <2>3, <2>4, <2>5, Zenon DEF NCCLTyped
<1>11. ~ nccl'.started
  BY <1>8
<1> QED
  BY <1>1, <1>4, <1>6, <1>8, <1>9, <1>10, <1>11, NCCLGroups

(* A handler that leaves all statics as they are.                          *)
LEMMA NCCLIdleKeeps ==
    ASSUME NEW i, ComesNCCL(i), status' = status, source[i].fn \notin Setting,
           source[i].fn \notin {"ncclGroupStart", "ncclGroupEnd"},
           NEW ops, TextAfter(i, ops), \A k \in DOMAIN ops : OpGood(i, ops[k]),
           nccl' = nccl, \A v \in DOMAIN values' : ValueNext(values'[v], v)
    PROVE  ConvInv'
<1>1. Comes(i) /\ WorldKept(nccl.implicit) /\ NCCLRecord /\ NCCLTyped
  BY ComesNCCLSays DEF StaticsMeant
<1>2. KeptNext(nccl.implicit)
  BY <1>1, KeptStays
<1>3. nccl.group \in Array /\ nccl.num \in Nat /\ (nccl.num = 0 <=> nccl.group = NoArray)
  BY <1>1 DEF NCCLTyped
<1>4. RolesKnown(nccl.args)
  BY <1>1 DEF NCCLRecord
<1>5. nccl' = [comms |-> nccl.comms, args |-> nccl.args, implicit |-> nccl.implicit,
               blocking |-> nccl.blocking, started |-> nccl.started, group |-> nccl.group,
               num |-> nccl.num]
  BY <1>1, Zenon DEF NCCLRecord
<1> QED
  BY <1>2, <1>3, <1>4, <1>5, NCCLSameKeeps

LEMMA DestroyNCCLKeeps ==
    ASSUME NEW i, ComesNCCL(i), DestroyNCCL(i)
    PROVE  ConvInv'
<1> DEFINE kind == "destroy"
           op  == Op(i, kind, NoName, CommNCCL(i))
           ops == IF IsWorld(CommNCCL(i)) THEN <<>> ELSE <<op>>
<1>1. /\ Comes(i) /\ CallsTyped /\ i \in DOMAIN source
      /\ source[i].fn = "ncclCommDestroy" /\ CommKnownNCCL(i) /\ values' = values
      /\ ReplaceBy(i, None, ops) /\ nccl' = nccl
  BY ComesNCCLSays, ComesSays DEF DestroyNCCL
<1>2. kind \in TextKinds /\ NoName \in OpTypes /\ CommNCCL(i) \in Nat \X Nat
  BY <1>1, CommNCCLFound DEF TextKinds, PureKinds, OpTypes
<1>3. op \in TextOp /\ op.kind = kind /\ op.comm = CommNCCL(i)
  <2> HIDE DEF kind
  <2> QED
    BY <1>1, <1>2, OpTyped, SMTT(30)
<1> HIDE DEF op
<1>4. <<op>> \in Seq(TextOp) /\ \A k \in DOMAIN <<op>> : <<op>>[k] = op
  BY <1>3, OneOp
<1>5. ops \in Seq(TextOp) /\ \A k \in DOMAIN ops : ops[k] = op
  <2>1. <<>> \in Seq(TextOp) /\ DOMAIN <<>> = {}
    OBVIOUS
  <2> QED
    BY <1>4, <2>1
<1> HIDE DEF ops
<1>6. TextAfter(i, ops) /\ status' = status
  BY <1>1, <1>5, TextReplaced, Replaced
<1>7. MadeNext(CommNCCL(i)) /\ MeantNext(i, CommNCCL(i))
  BY <1>1, <1>6, CommNCCLFound
<1>8. OpGood(i, op)
  BY <1>3, <1>7, OnCommGood
<1>9. \A k \in DOMAIN ops : OpGood(i, ops[k])
  BY <1>5, <1>8
<1>10. source[i].fn \notin Setting
  BY <1>1 DEF Setting, NCCLInits
<1>11. \A v \in DOMAIN values' : ValueNext(values'[v], v)
  BY <1>1, <1>6, ValuesSame
<1> QED
  BY <1>1, <1>6, <1>9, <1>10, <1>11, NCCLIdleKeeps

LEMMA QueryNCCLKeeps ==
    ASSUME NEW i, ComesNCCL(i), QueryNCCL(i)
    PROVE  ConvInv'
<1> DEFINE kind == "query"
           op == Op(i, kind, source[i].var, CommNCCL(i))
<1>1. /\ Comes(i) /\ CallsTyped /\ i \in DOMAIN source
      /\ source[i].fn \in Listed(NCCLQueries) /\ CommKnownNCCL(i)
      /\ ReplaceBy(i, None, <<op>>) /\ nccl' = nccl
      /\ ReplaceLoads(source[i].var, Entry(NCCLQueries, source[i].fn), CommNCCL(i), i)
  BY ComesNCCLSays, ComesSays DEF QueryNCCL
<1>2. kind \in TextKinds /\ source[i].var \in OpTypes /\ CommNCCL(i) \in Nat \X Nat
  BY <1>1, CommNCCLFound DEF TextKinds, PureKinds, OpTypes
<1>3. op \in TextOp /\ op.kind = kind /\ op.comm = CommNCCL(i)
  <2> HIDE DEF kind
  <2> QED
    BY <1>1, <1>2, OpTyped, SMTT(30)
<1> HIDE DEF op
<1>4. <<op>> \in Seq(TextOp) /\ \A k \in DOMAIN <<op>> : <<op>>[k] = op
  BY <1>3, OneOp
<1>5. TextAfter(i, <<op>>) /\ status' = status
  BY <1>1, <1>4, TextReplaced, Replaced
<1>6. MadeNext(CommNCCL(i)) /\ MeantNext(i, CommNCCL(i))
  BY <1>1, <1>5, CommNCCLFound
<1>7. OpGood(i, op)
  BY <1>3, <1>6, OnCommGood
<1>8. \A k \in DOMAIN <<op>> : OpGood(i, <<op>>[k])
  BY <1>4, <1>7
<1>9. /\ source[i].fn \notin Setting \union {"ncclGroupStart", "ncclGroupEnd"}
      /\ source[i].fn \in Querying
  <2>1. \A fn \in Listed(NCCLQueries) : fn \notin Setting \union {"ncclGroupStart", "ncclGroupEnd"}
    BY InList DEF NCCLQueries, Setting, NCCLInits
  <2>2. Listed(NCCLQueries) \subseteq Querying
    BY DEF Listed, Querying
  <2> QED
    BY <1>1, <2>1, <2>2
<1>10. \A v \in DOMAIN values' : ValueNext(values'[v], v)
  BY <1>1, <1>5, <1>6, <1>9, LoadsReplaced
<1> QED
  BY <1>1, <1>5, <1>8, <1>9, <1>10, NCCLIdleKeeps

LEMMA MemoryNCCLKeeps ==
    ASSUME NEW i, ComesNCCL(i), MemoryNCCL(i)
    PROVE  ConvInv'
<1> DEFINE kind == "memory"
           c  == ImplicitNCCL
           op == Op(i, kind, source[i].fn, c)
<1>1. /\ Comes(i) /\ TypeOKConversion /\ CallsTyped /\ i \in DOMAIN source
      /\ WorldKept(nccl.implicit) /\ NCCLRecord /\ NCCLTyped
      /\ source[i].fn \in NCCLMemory /\ values' = values
      /\ nccl' = [nccl EXCEPT !.implicit = c] /\ ReplaceBy(i, c, <<op>>)
  BY ComesNCCLSays, ComesSays DEF MemoryNCCL, StaticsMeant
<1>2. source[i].comm = NoName
  <2>1. source[i].fn \in WithoutComm
    BY <1>1 DEF WithoutComm
  <2>2. CallTyped(source[i])
    BY <1>1, ComesSays
  <2> QED
    BY <2>1, <2>2, Zenon DEF CallTyped
<1>3. c = IF nccl.implicit = None THEN NewWorld ELSE nccl.implicit
  BY DEF ImplicitNCCL
<1> HIDE DEF c
<1>4. c \in Nat \X Nat
  BY <1>1, <1>3, ImplicitTyped
<1>5. kind \in TextKinds /\ source[i].fn \in OpTypes
  BY <1>1 DEF TextKinds, OpTypes
<1>6. op \in TextOp /\ op.kind = kind /\ op.comm = c
  <2> HIDE DEF kind
  <2> QED
    BY <1>1, <1>4, <1>5, OpTyped, SMTT(30)
<1> HIDE DEF op
<1>7. <<op>> \in Seq(TextOp) /\ \A k \in DOMAIN <<op>> : <<op>>[k] = op
  BY <1>6, OneOp
<1>8. TextAfter(i, <<op>>) /\ Rewritten(i, c, <<op>>, {}) /\ status' = status
  BY <1>1, <1>7, TextReplaced, Replaced
<1>9. MadeNext(c) /\ MeantNext(i, c) /\ KeptNext(c)
  BY <1>1, <1>2, <1>3, <1>8, ImplicitMeant
<1>10. OpGood(i, op)
  BY <1>6, <1>9, OnCommGood
<1>11. \A k \in DOMAIN <<op>> : OpGood(i, <<op>>[k])
  BY <1>7, <1>10
<1>12. source[i].fn \notin Setting /\ source[i].fn \notin {"ncclGroupStart", "ncclGroupEnd"}
  BY <1>1 DEF Setting, NCCLInits, NCCLMemory
<1>13. \A v \in DOMAIN values' : ValueNext(values'[v], v)
  BY <1>1, <1>8, ValuesSame
<1>14. nccl' = [comms |-> nccl.comms, args |-> nccl.args, implicit |-> c,
                blocking |-> nccl.blocking, started |-> nccl.started, group |-> nccl.group,
                num |-> nccl.num]
  BY <1>1 DEF NCCLRecord
<1>15. nccl.group \in Array /\ nccl.num \in Nat /\ (nccl.num = 0 <=> nccl.group = NoArray)
  BY <1>1 DEF NCCLTyped
<1>16. RolesKnown(nccl.args)
  BY <1>1 DEF NCCLRecord
<1> QED
  BY <1>8, <1>9, <1>11, <1>12, <1>13, <1>14, <1>15, <1>16, NCCLSameKeeps

(* Each call that the NCCL conversion is given.                            *)
LEMMA NCCLConverted ==
    ASSUME NEW i, ConvInv, Converted(i, "nccl"), ConvertNCCL(i) \/ BreakOffNCCL(i)
    PROVE  ConvInv'
<1>1. CASE BreakOffNCCL(i)
  BY <1>1, BreakOffKeeps DEF BreakOffNCCL
<1>2. CASE ConvertNCCL(i)
  <2>1. ComesNCCL(i)
    BY <1>2 DEF ConvertNCCL, ComesNCCL, Comes
  <2>2. \/ InitRankNCCL(i) \/ GroupStartNCCL(i) \/ GroupEndNCCL(i) \/ CommunicateNCCL(i)
        \/ SplitNCCL(i) \/ DestroyNCCL(i) \/ QueryNCCL(i) \/ MemoryNCCL(i)
    BY <1>2 DEF ConvertNCCL
  <2> QED
    BY <2>1, <2>2, InitRankNCCLKeeps, GroupStartNCCLKeeps, GroupEndNCCLKeeps,
       CommunicateNCCLKeeps, SplitNCCLKeeps, DestroyNCCLKeeps, QueryNCCLKeeps, MemoryNCCLKeeps
<1> QED
  BY <1>1, <1>2

-----------------------------------------------------------------------------
(***************************************************************************)
(* The handlers of the SHMEM conversion.                                   *)
(***************************************************************************)
SHMEMRecord == shmem = [comms |-> shmem.comms, world |-> shmem.world]

ComesSHMEM(i) ==
    /\ Comes(i) /\ Converted(i, "shmem")
    /\ mpi' = mpi /\ nccl' = nccl

LEMMA ComesSHMEMSays ==
    ASSUME NEW i, ComesSHMEM(i)
    PROVE  /\ Comes(i) /\ source[i].fn \in Handles("shmem") /\ "shmem" \in Converters(usedModel)
           /\ source[i].fn \notin CalleesMPI \union NCCLNames
           /\ source[i].fn \in Setting => source[i].fn = "shmem_team_split_strided"
           /\ SHMEMRecord /\ StaticsMeant
           /\ TypeOKConversion /\ CallsTyped /\ i \in DOMAIN source
<1>1. Comes(i) /\ source[i].fn \in Handles("shmem") /\ "shmem" \in Converters(usedModel)
  BY DEF ComesSHMEM, Converted
<1>2. source[i].fn \notin CalleesMPI \union NCCLNames
  BY <1>1, LibrariesApart
<1>3. Setting \subseteq {"shmem_team_split_strided"} \union CalleesMPI \union NCCLNames
  BY DEF Setting, CalleesMPI, NCCLInits, NCCLNames
<1>4. SHMEMRecord /\ StaticsMeant /\ TypeOKConversion /\ CallsTyped /\ i \in DOMAIN source
  BY <1>1, ComesSays DEF StaticsTyped, SHMEMRecord, Walking
<1> QED
  BY <1>1, <1>2, <1>3, <1>4

LEMMA SHMEMKeeps ==
    ASSUME NEW i, ComesSHMEM(i), status' = status,
           NEW ops, TextAfter(i, ops), \A k \in DOMAIN ops : OpGood(i, ops[k]),
           SHMEMRecord', CommsNext(shmem'.comms, "shmem"), KeptNext(shmem'.world),
           \A v \in DOMAIN values' : ValueNext(values'[v], v)
    PROVE  ConvInv'
<1>1. /\ Comes(i) /\ source[i].fn \in Handles("shmem") /\ source[i].fn \notin NCCLNames
      /\ StaticsMeant /\ mpi' = mpi /\ nccl' = nccl
  BY ComesSHMEMSays DEF ComesSHMEM
<1>2. CommsNext(mpi.comms, "mpi") /\ CommsNext(nccl.comms, "nccl")
  <2>1. /\ "mpi" \in Libraries /\ "nccl" \in Libraries
        /\ "shmem" \in Libraries \ {"mpi"} /\ "shmem" \in Libraries \ {"nccl"}
    BY DEF Libraries
  <2>2. CommsMeant(mpi.comms, "mpi") /\ CommsMeant(nccl.comms, "nccl")
    BY <1>1 DEF StaticsMeant
  <2> QED
    BY <1>1, <2>1, <2>2, CommsStay
<1>3. KeptNext(mpi.implicit) /\ KeptNext(nccl.implicit)
  BY <1>1, KeptStays DEF StaticsMeant
<1>4. GroupMeant'
  <2>1. source[i].fn \notin {"ncclGroupStart", "ncclGroupEnd"}
    BY <1>1 DEF NCCLNames
  <2>2. CommsBlock'
    BY <1>1, Zenon DEF StaticsMeant, GroupMeant, CommsBlock
  <2> QED
    BY <1>1, <2>1, <2>2, GroupStays
<1>5. StaticsNext
  BY <1>1, <1>2, <1>3, <1>4, Zenon DEF StaticsNext
<1>6. StaticsTyped' /\ NCCLTyped'
  <2>1. StaticsTyped /\ NCCLTyped /\ source' = source
    BY <1>1, ComesSays DEF TypeOKConversion, NCCLTyped
  <2>2. NCCLTyped'
    BY <1>1, <2>1, TypesKept, Zenon DEF NCCLTyped
  <2>3. StaticsTyped'
    BY <1>1, <2>1, Zenon DEF StaticsTyped, SHMEMRecord, RolesKnown
  <2> QED
    BY <2>2, <2>3
<1> QED
  BY <1>1, <1>5, <1>6, HandledKeeps

(* The communicator of a call, perhaps the one of all, made for it.        *)
LEMMA CommSHMEMTyped ==
    ASSUME NEW i, ComesSHMEM(i), CommKnownSHMEM(i)
    PROVE  CommSHMEM(i) \in Nat \X Nat
<1>1. TypeOKConversion /\ WorldKept(shmem.world)
  BY ComesSHMEMSays DEF StaticsMeant
<1>2. CASE source[i].fn \in WorldCalls \/ source[i].comm = World
  <2>1. CommSHMEM(i) = WorldSHMEM
    BY <1>2 DEF CommSHMEM
  <2>2. WorldSHMEM \in Nat \X Nat
    BY <1>1, ImplicitTyped DEF WorldSHMEM
  <2> QED
    BY <2>1, <2>2
<1>3. CASE ~ (source[i].fn \in WorldCalls \/ source[i].comm = World)
  <2>1. CommSHMEM(i) = shmem.comms[source[i].comm] /\ source[i].comm \in DOMAIN shmem.comms
    BY <1>3 DEF CommSHMEM, CommKnownSHMEM
  <2>2. shmem.comms[source[i].comm] \in Places
    BY <1>1, <2>1 DEF TypeOKConversion
  <2> QED
    BY <1>1, <2>1, <2>2, PlaceTyped
<1> QED
  BY <1>2, <1>3

LEMMA CommSHMEMFound ==
    ASSUME NEW i, ComesSHMEM(i), CommKnownSHMEM(i),
           NEW ops, Rewritten(i, CommSHMEM(i), ops, {}), TextAfter(i, ops)
    PROVE  /\ MadeNext(CommSHMEM(i)) /\ MeantNext(i, CommSHMEM(i))
           /\ WithWorld(i) = [comms |-> shmem.comms, world |-> WithWorld(i).world]
           /\ KeptNext(WithWorld(i).world)
<1> DEFINE c == CommSHMEM(i)
<1>1. /\ Comes(i) /\ WorldKept(shmem.world) /\ CommsMeant(shmem.comms, "shmem")
      /\ SHMEMRecord /\ CallTyped(source[i])
  BY ComesSHMEMSays, ComesSays DEF StaticsMeant
<1>2. ASSUME source[i].fn \in WorldCalls \/ source[i].comm = World
      PROVE  MadeNext(c) /\ MeantNext(i, c)
  <2>1. c = WorldSHMEM
    BY <1>2 DEF CommSHMEM
  <2>2. source[i].comm \in {World, NoName}
    <3>1. source[i].fn \in WorldCalls => source[i].fn \in WithoutComm
      BY DEF WithoutComm
    <3>2. source[i].fn \in WithoutComm => source[i].comm = NoName
      BY <1>1, Zenon DEF CallTyped
    <3> QED
      BY <1>2, <3>1, <3>2
  <2>3. c = IF shmem.world = None THEN NewWorld ELSE shmem.world
    BY <2>1 DEF WorldSHMEM
  <2> HIDE DEF c
  <2>4. Rewritten(i, c, ops, {})
    BY DEF c
  <2>5. MadeNext(c) /\ MeantNext(i, c)
    BY <1>1, <2>2, <2>3, <2>4, ImplicitMeant
  <2> QED
    BY <2>5, Zenon DEF c
<1>3. ASSUME ~ (source[i].fn \in WorldCalls \/ source[i].comm = World)
      PROVE  MadeNext(c) /\ MeantNext(i, c)
  <2>1. CommSHMEM(i) = shmem.comms[source[i].comm] /\ source[i].comm \in DOMAIN shmem.comms
    BY <1>3 DEF CommSHMEM, CommKnownSHMEM
  <2>2. MadeNext(shmem.comms[source[i].comm]) /\ MeantNext(i, shmem.comms[source[i].comm])
    BY <1>1, <2>1, CommFound
  <2> QED
    BY <2>1, <2>2
<1>4. MadeNext(c) /\ MeantNext(i, c)
  BY <1>2, <1>3
<1> DEFINE world == IF c = NewWorld THEN NewWorld ELSE shmem.world
<1>5. KeptNext(world)
  <2>1. CASE c = NewWorld
    <3>1. MadeNext(c) /\ c[1] = 0
      <4>1. {} \in SUBSET DOMAIN source
        OBVIOUS
      <4> QED
        BY <1>1, <2>1, <4>1, WorldMade
    <3> QED
      BY <2>1, <3>1 DEF KeptNext
  <2>2. CASE c # NewWorld
    <3>1. KeptNext(shmem.world)
      BY <1>1, KeptStays
    <3> QED
      BY <2>2, <3>1
  <2> QED
    BY <2>1, <2>2
<1>6. WithWorld(i) = [shmem EXCEPT !.world = world]
  BY Zenon DEF WithWorld
<1> HIDE DEF world, c
<1>7. WithWorld(i) = [comms |-> shmem.comms, world |-> world]
  BY <1>1, <1>6 DEF SHMEMRecord
<1> QED
  BY <1>4, <1>5, <1>7 DEF c

(* A handler that puts ops for a call, on its communicator.                *)
LEMMA CommSHMEMKeeps ==
    ASSUME NEW i, ComesSHMEM(i), CommKnownSHMEM(i), source[i].fn # "shmem_team_split_strided",
           NEW op \in TextOp, op.comm = CommSHMEM(i), op.kind # "call",
           op.kind \in {"coll", "send", "recv"} => (op.blocking <=> BlocksFor(i)),
           ReplaceBy(i, CommSHMEM(i), <<op>>), shmem' = WithWorld(i),
           NEW what,
           \/ values' = values
           \/ source[i].fn \in Querying /\ ReplaceResult(source[i].var, what, CommSHMEM(i), i)
    PROVE  ConvInv'
<1>1. /\ Comes(i) /\ CommsMeant(shmem.comms, "shmem") /\ source[i].fn \notin Setting
  BY ComesSHMEMSays DEF StaticsMeant
<1>2. <<op>> \in Seq(TextOp) /\ \A k \in DOMAIN <<op>> : <<op>>[k] = op
  BY OneOp
<1>3. TextAfter(i, <<op>>) /\ Rewritten(i, CommSHMEM(i), <<op>>, {}) /\ status' = status
  BY <1>1, <1>2, TextReplaced, Replaced
<1>4. /\ MadeNext(CommSHMEM(i)) /\ MeantNext(i, CommSHMEM(i))
      /\ WithWorld(i) = [comms |-> shmem.comms, world |-> WithWorld(i).world]
      /\ KeptNext(WithWorld(i).world)
  BY <1>3, CommSHMEMFound
<1>5. OpGood(i, op)
  BY <1>4 DEF OpGood
<1>6. \A k \in DOMAIN <<op>> : OpGood(i, <<op>>[k])
  BY <1>2, <1>5
<1>7. SHMEMRecord' /\ shmem'.comms = shmem.comms /\ shmem'.world = WithWorld(i).world
  BY <1>4 DEF SHMEMRecord
<1>8. CommsNext(shmem'.comms, "shmem")
  <2>1. CommsNext(shmem.comms, "shmem")
    BY <1>1, <1>3, CommsStay DEF Libraries
  <2> QED
    BY <1>7, <2>1
<1>9. KeptNext(shmem'.world)
  BY <1>4, <1>7
<1>10. \A v \in DOMAIN values' : ValueNext(values'[v], v)
  <2>1. CASE values' = values
    BY <1>1, <1>3, <2>1, ValuesSame
  <2>2. CASE source[i].fn \in Querying /\ ReplaceResult(source[i].var, what, CommSHMEM(i), i)
    BY <1>1, <1>3, <1>4, <2>2, LoadsReplaced
  <2> QED
    BY <2>1, <2>2
<1> QED
  BY <1>3, <1>6, <1>7, <1>8, <1>9, <1>10, SHMEMKeeps

LEMMA SHMEMRows ==
    /\ \A fn \in Listed(TeamCollectives) :
            /\ Entry(TeamCollectives, fn) \in CollectiveNames \intersect OpTypes
            /\ fn # "shmem_team_split_strided"
    /\ \A fn \in SHMEMQuerying : fn \in Querying /\ fn # "shmem_team_split_strided"
<1>1. ASSUME NEW fn \in Listed(TeamCollectives)
      PROVE  /\ Entry(TeamCollectives, fn) \in CollectiveNames \intersect OpTypes
             /\ fn # "shmem_team_split_strided"
  <2>1. PICK row \in TeamCollectives : row[1] = fn /\ Entry(TeamCollectives, fn) = row[2]
    BY EntryListed
  <2>2. row[2] \in {"barrier", "bcast", "allreduce", "alltoall", "allgather"}
    BY DEF TeamCollectives
  <2>3. row[1] # "shmem_team_split_strided"
    BY DEF TeamCollectives
  <2>4. {"barrier", "bcast", "allreduce", "alltoall", "allgather"} \subseteq
          CollectiveNames \intersect OpTypes
    BY DEF OpTypes, CollectiveNames
  <2> QED
    BY <2>1, <2>2, <2>3, <2>4
<1>2. SHMEMQuerying \subseteq Querying
  BY DEF SHMEMQuerying, Listed, Querying
<1>3. \A fn \in SHMEMQuerying : fn # "shmem_team_split_strided"
  BY InList DEF SHMEMQuerying, SHMEMQueries, TeamQueries, WorldQueries
<1> QED
  BY <1>1, <1>2, <1>3

LEMMA ProcessSHMEMKeeps ==
    ASSUME NEW i, ComesSHMEM(i), ProcessSHMEM(i)
    PROVE  ConvInv'
<1> DEFINE kind == "process"
           op == Op(i, kind, source[i].fn, None)
<1>1. /\ Comes(i) /\ CallsTyped /\ i \in DOMAIN source /\ StaticsMeant /\ SHMEMRecord
      /\ source[i].fn \in SHMEMProcess /\ values' = values /\ shmem' = shmem
      /\ ReplaceBy(i, None, <<op>>)
  BY ComesSHMEMSays DEF ProcessSHMEM
<1>2. kind \in TextKinds /\ source[i].fn \in OpTypes /\ None \in Nat \X Nat
  BY <1>1, NoneTyped DEF TextKinds, OpTypes
<1>3. op \in TextOp /\ op.kind = kind /\ op.comm = None
  <2> HIDE DEF kind
  <2> QED
    BY <1>1, <1>2, OpTyped, SMTT(30)
<1> HIDE DEF op
<1>4. <<op>> \in Seq(TextOp) /\ \A k \in DOMAIN <<op>> : <<op>>[k] = op
  BY <1>3, OneOp
<1>5. TextAfter(i, <<op>>) /\ status' = status
  BY <1>1, <1>4, TextReplaced, Replaced
<1>6. OpGood(i, op)
  BY <1>3, PlainGood
<1>7. \A k \in DOMAIN <<op>> : OpGood(i, <<op>>[k])
  BY <1>4, <1>6
<1>8. SHMEMRecord' /\ shmem'.comms = shmem.comms /\ shmem'.world = shmem.world
  BY <1>1, Zenon DEF SHMEMRecord
<1>9. CommsNext(shmem'.comms, "shmem")
  <2>1. source[i].fn \notin Setting /\ "shmem" \in Libraries /\ CommsMeant(shmem.comms, "shmem")
    BY <1>1, ComesSHMEMSays DEF SHMEMProcess, StaticsMeant, Libraries
  <2>2. CommsNext(shmem.comms, "shmem")
    BY <1>1, <1>5, <2>1, CommsStay
  <2> QED
    BY <1>8, <2>2
<1>10. KeptNext(shmem'.world)
  <2>1. KeptNext(shmem.world)
    BY <1>1, <1>5, KeptStays DEF StaticsMeant
  <2> QED
    BY <1>8, <2>1
<1>11. \A v \in DOMAIN values' : ValueNext(values'[v], v)
  BY <1>1, <1>5, ValuesSame
<1> QED
  BY <1>5, <1>7, <1>8, <1>9, <1>10, <1>11, SHMEMKeeps

LEMMA QuerySHMEMKeeps ==
    ASSUME NEW i, ComesSHMEM(i), QuerySHMEM(i)
    PROVE  ConvInv'
<1> DEFINE kind == "query"
           op == Op(i, kind, source[i].var, CommSHMEM(i))
           what == Entry(SHMEMQueries, source[i].fn)
<1>1. /\ CallsTyped /\ i \in DOMAIN source /\ source[i].fn \in SHMEMQuerying
      /\ CommKnownSHMEM(i) /\ ReplaceBy(i, CommSHMEM(i), <<op>>) /\ shmem' = WithWorld(i)
      /\ ReplaceResult(source[i].var, what, CommSHMEM(i), i)
  BY ComesSHMEMSays DEF QuerySHMEM
<1>2. kind \in TextKinds /\ source[i].var \in OpTypes /\ CommSHMEM(i) \in Nat \X Nat
  BY <1>1, CommSHMEMTyped DEF TextKinds, PureKinds, OpTypes
<1>3. op \in TextOp /\ op.kind = kind /\ op.comm = CommSHMEM(i)
  <2> HIDE DEF kind
  <2> QED
    BY <1>1, <1>2, OpTyped, SMTT(30)
<1> HIDE DEF op
<1>4. source[i].fn \in Querying /\ source[i].fn # "shmem_team_split_strided"
  BY <1>1, SHMEMRows
<1>5. op.kind # "call" /\ op.kind \notin {"coll", "send", "recv"}
  BY <1>3
<1> HIDE DEF kind, what
<1> QED
  BY <1>1, <1>3, <1>4, <1>5, CommSHMEMKeeps

LEMMA CollectiveSHMEMKeeps ==
    ASSUME NEW i, ComesSHMEM(i), CollectiveSHMEM(i)
    PROVE  ConvInv'
<1> DEFINE kind == "coll"
           type == IF source[i].fn = "shmem_sync_all" THEN "barrier"
                   ELSE Entry(TeamCollectives, source[i].fn)
           op == Op(i, kind, type, CommSHMEM(i))
<1>1. /\ CallsTyped /\ i \in DOMAIN source /\ values' = values
      /\ source[i].fn \in Listed(TeamCollectives) \union {"shmem_sync_all"}
      /\ CommKnownSHMEM(i) /\ ReplaceBy(i, CommSHMEM(i), <<op>>) /\ shmem' = WithWorld(i)
      /\ source[i].fn \notin CalleesMPI \union NCCLNames
  BY ComesSHMEMSays DEF CollectiveSHMEM
<1>2. type \in OpTypes
  <2>1. "barrier" \in OpTypes
    BY DEF OpTypes, CollectiveNames
  <2> QED
    BY <1>1, <2>1, SHMEMRows
<1>3. kind \in TextKinds /\ CommSHMEM(i) \in Nat \X Nat
  BY <1>1, CommSHMEMTyped DEF TextKinds, Kinds
<1> HIDE DEF type
<1>4. op \in TextOp /\ op.kind = kind /\ op.comm = CommSHMEM(i) /\ op.blocking
  <2> HIDE DEF kind
  <2> QED
    BY <1>1, <1>2, <1>3, OpTyped, SMTT(30)
<1> HIDE DEF op
<1>5. BlocksFor(i)
  <2>1. i \notin RequestCalls /\ source[i].fn \notin MPIExchanges
    BY <1>1 DEF RequestCalls, CalleesMPI
  <2>2. ~ InOpenGroup(i)
    BY <1>1, NCCLNamed DEF InOpenGroup, CalleesNCCL
  <2> QED
    BY <2>1, <2>2, Zenon DEF BlocksFor
<1>6. source[i].fn # "shmem_team_split_strided"
  BY <1>1, SHMEMRows
<1>7. op.kind # "call" /\ (op.kind \in {"coll", "send", "recv"} => (op.blocking <=> BlocksFor(i)))
  BY <1>4, <1>5
<1> HIDE DEF kind
<1> QED
  BY <1>1, <1>4, <1>6, <1>7, CommSHMEMKeeps

LEMMA MemorySHMEMKeeps ==
    ASSUME NEW i, ComesSHMEM(i), MemorySHMEM(i)
    PROVE  ConvInv'
<1> DEFINE kind == "memory"
           op == Op(i, kind, source[i].fn, CommSHMEM(i))
<1>1. /\ CallsTyped /\ i \in DOMAIN source /\ source[i].fn \in SHMEMMemory /\ values' = values
      /\ ReplaceBy(i, CommSHMEM(i), <<op>>) /\ shmem' = WithWorld(i)
  BY ComesSHMEMSays DEF MemorySHMEM
<1>2. CommKnownSHMEM(i) /\ source[i].fn # "shmem_team_split_strided"
  BY <1>1 DEF CommKnownSHMEM, WorldCalls, SHMEMMemory
<1>3. kind \in TextKinds /\ source[i].fn \in OpTypes /\ CommSHMEM(i) \in Nat \X Nat
  BY <1>1, <1>2, CommSHMEMTyped DEF TextKinds, OpTypes
<1>4. op \in TextOp /\ op.kind = kind /\ op.comm = CommSHMEM(i)
  <2> HIDE DEF kind
  <2> QED
    BY <1>1, <1>3, OpTyped, SMTT(30)
<1> HIDE DEF op
<1>5. op.kind # "call" /\ op.kind \notin {"coll", "send", "recv"}
  BY <1>4
<1> HIDE DEF kind
<1> QED
  BY <1>1, <1>2, <1>4, <1>5, CommSHMEMKeeps

LEMMA DestroySHMEMKeeps ==
    ASSUME NEW i, ComesSHMEM(i), DestroySHMEM(i)
    PROVE  ConvInv'
<1> DEFINE kind == "destroy"
           op == Op(i, kind, NoName, CommSHMEM(i))
<1>1. /\ CallsTyped /\ i \in DOMAIN source /\ source[i].fn = "shmem_team_destroy" /\ values' = values
      /\ CommKnownSHMEM(i) /\ ReplaceBy(i, CommSHMEM(i), <<op>>) /\ shmem' = WithWorld(i)
  BY ComesSHMEMSays DEF DestroySHMEM
<1>2. kind \in TextKinds /\ NoName \in OpTypes /\ CommSHMEM(i) \in Nat \X Nat
  BY <1>1, CommSHMEMTyped DEF TextKinds, PureKinds, OpTypes
<1>3. op \in TextOp /\ op.kind = kind /\ op.comm = CommSHMEM(i)
  <2> HIDE DEF kind
  <2> QED
    BY <1>1, <1>2, OpTyped, SMTT(30)
<1> HIDE DEF op
<1>4. op.kind # "call" /\ op.kind \notin {"coll", "send", "recv"}
  BY <1>3
<1>5. source[i].fn # "shmem_team_split_strided"
  BY <1>1
<1> HIDE DEF kind
<1> QED
  BY <1>1, <1>3, <1>4, <1>5, CommSHMEMKeeps

LEMMA SplitSHMEMKeeps ==
    ASSUME NEW i, ComesSHMEM(i), SplitSHMEM(i)
    PROVE  ConvInv'
<1> DEFINE kind == "split"
           type == "strided"
           op == Op(i, kind, type, CommSHMEM(i))
           c == <<i, 1>>
           r == source[i].result
<1>1. /\ Comes(i) /\ CallsTyped /\ i \in DOMAIN source /\ CommsMeant(shmem.comms, "shmem")
      /\ source[i].fn = "shmem_team_split_strided" /\ values' = values
      /\ CommKnownSHMEM(i) /\ ReplaceBy(i, CommSHMEM(i), <<op>>)
      /\ source[i].fn \in Handles("shmem") /\ "shmem" \in Converters(usedModel)
      /\ CallTyped(source[i]) /\ "shmem" \in Libraries
  BY ComesSHMEMSays, ComesSays DEF SplitSHMEM, StaticsMeant, Libraries
<1>2. kind \in TextKinds /\ type \in OpTypes /\ CommSHMEM(i) \in Nat \X Nat
  BY <1>1, CommSHMEMTyped DEF TextKinds, PureKinds, OpTypes
<1>3. op \in TextOp /\ op.kind = kind /\ op.comm = CommSHMEM(i)
  <2> HIDE DEF kind, type
  <2> QED
    BY <1>1, <1>2, OpTyped, SMTT(30)
<1> HIDE DEF op
<1>4. <<op>> \in Seq(TextOp) /\ \A k \in DOMAIN <<op>> : <<op>>[k] = op
  BY <1>3, OneOp
<1>5. TextAfter(i, <<op>>) /\ Rewritten(i, CommSHMEM(i), <<op>>, {}) /\ status' = status
  BY <1>1, <1>4, TextReplaced, Replaced
<1>6. /\ MadeNext(CommSHMEM(i)) /\ MeantNext(i, CommSHMEM(i))
      /\ WithWorld(i) = [comms |-> shmem.comms, world |-> WithWorld(i).world]
      /\ KeptNext(WithWorld(i).world)
  BY <1>1, <1>5, CommSHMEMFound
<1>7. OpGood(i, op)
  BY <1>3, <1>6, OnCommGood
<1>8. \A k \in DOMAIN <<op>> : OpGood(i, <<op>>[k])
  BY <1>4, <1>7
<1>9. MadeNext(c) /\ ~ WorldNext(c)
  <2>1. MadeNext(c) /\ (WorldNext(c) <=> op.kind = "world")
    BY <1>1, <1>3, <1>5, NewMade DEF CommKinds
  <2> QED
    BY <1>3, <2>1
<1>10. r # NoName
  <2>1. source[i].fn \in Setting
    BY <1>1 DEF Setting
  <2> QED
    BY <1>1, <2>1, Zenon DEF CallTyped
<1>11. c[1] \in {0, i}
  OBVIOUS
<1>12. shmem' = [WithWorld(i) EXCEPT !.comms = Put(@, r, c)]
  BY Zenon DEF SplitSHMEM
<1> HIDE DEF c
<1>13. NameNext(c, r, "shmem")
  BY <1>1, <1>9, <1>10, <1>11, NameSet
<1>14. \A v \in DOMAIN shmem.comms : v # r => NameNext(shmem.comms[v], v, "shmem")
  BY <1>1, <1>5, NameKept
<1> DEFINE named == Put(shmem.comms, r, c)
<1>15. CommsNext(named, "shmem")
  BY <1>13, <1>14, ResultSet
<1>16. shmem' = [comms |-> named, world |-> WithWorld(i).world]
  <2>1. WithWorld(i).comms = shmem.comms
    BY <1>6
  <2>2. shmem' = [WithWorld(i) EXCEPT !.comms = named]
    BY <1>12, <2>1, Zenon
  <2> HIDE DEF named
  <2> QED
    BY <1>6, <2>2
<1> HIDE DEF named
<1>17. SHMEMRecord' /\ shmem'.comms = named /\ shmem'.world = WithWorld(i).world
  BY <1>16 DEF SHMEMRecord
<1>18. CommsNext(shmem'.comms, "shmem") /\ KeptNext(shmem'.world)
  BY <1>6, <1>15, <1>17
<1>19. \A v \in DOMAIN values' : ValueNext(values'[v], v)
  BY <1>1, <1>5, ValuesSame
<1> QED
  BY <1>5, <1>8, <1>17, <1>18, <1>19, SHMEMKeeps

(* Each call that the SHMEM conversion is given.                           *)
LEMMA SHMEMConverted ==
    ASSUME NEW i, ConvInv, Converted(i, "shmem"), ConvertSHMEM(i) \/ BreakOffSHMEM(i)
    PROVE  ConvInv'
<1>1. CASE BreakOffSHMEM(i)
  BY <1>1, BreakOffKeeps DEF BreakOffSHMEM
<1>2. CASE ConvertSHMEM(i)
  <2>1. ComesSHMEM(i)
    BY <1>2 DEF ConvertSHMEM, ComesSHMEM, Comes
  <2>2. \/ ProcessSHMEM(i) \/ QuerySHMEM(i) \/ CollectiveSHMEM(i) \/ MemorySHMEM(i)
        \/ SplitSHMEM(i) \/ DestroySHMEM(i)
    BY <1>2 DEF ConvertSHMEM
  <2> QED
    BY <2>1, <2>2, ProcessSHMEMKeeps, QuerySHMEMKeeps, CollectiveSHMEMKeeps, MemorySHMEMKeeps,
       SplitSHMEMKeeps, DestroySHMEMKeeps
<1> QED
  BY <1>1, <1>2

-----------------------------------------------------------------------------
(***************************************************************************)
(* All steps, and what follows from the invariant.                         *)
(***************************************************************************)
LEMMA ConvertKeeps ==
    ASSUME ConvInv, NEW i, ConvertCall(i)
    PROVE  ConvInv'
BY MPIConverted, NCCLConverted, SHMEMConverted DEF ConvertCall

LEMMA StepKeeps == ConvInv /\ [NextConversion]_convVars => ConvInv'
<1> SUFFICES ASSUME ConvInv, [NextConversion]_convVars
             PROVE  ConvInv'
  OBVIOUS
<1>1. CASE StartWalk
  BY <1>1, StartKeeps
<1>2. CASE FailConversion
  BY <1>2, FailKeeps
<1>3. CASE Finish
  BY <1>3, FinishKeeps
<1>4. ASSUME NEW i \in DOMAIN source, ConvertCall(i)
      PROVE  ConvInv'
  BY <1>4, ConvertKeeps
<1>5. ASSUME NEW i \in DOMAIN source, PassCall(i)
      PROVE  ConvInv'
  BY <1>5, PassKeeps
<1>6. CASE UNCHANGED convVars
  BY <1>6, SameKeeps DEF convVars
<1> QED
  BY <1>1, <1>2, <1>3, <1>4, <1>5, <1>6 DEF NextConversion

-----------------------------------------------------------------------------
(***************************************************************************)
(* Cleaning up: what the recursive definition of LivePlaces says.          *)
(***************************************************************************)
LiveAt(live, i) ==
    {p \in Places : p[1] = i /\
        \/ IsNeeded(p)
        \/ /\ OpAt(p).kind \in BranchKinds
           /\ \E q \in {r \in Places : \E d \in DOMAIN OpAt(r).path : OpAt(r).path[d][1] = i} :
                IsNeeded(q)
        \/ /\ OpAt(p).kind \in CommKinds
           /\ \E j \in (i + 1) .. Len(source) : \E q \in live[j] : OpAt(q).comm = p}

LEMMA LiveLocal ==
    ASSUME NEW i, NEW f, NEW g, \A j \in (i + 1) .. Len(source) : f[j] = g[j]
    PROVE  LiveAt(f, i) = LiveAt(g, i)
BY Zenon DEF LiveAt

LEMMA LiveExists ==
    ASSUME source \in Seq(ApiCall)
    PROVE  \E f : f = [i \in 0 .. Len(source) |-> LiveAt(f, i)]
<1> DEFINE L == Len(source)
           Solved(n) == \E f : f = [i \in n .. L |-> LiveAt(f, i)]
           T == {n \in 0 .. L : ~ Solved(n)}
<1>1. L \in Nat
  OBVIOUS
<1>2. SUFFICES ASSUME T # {} PROVE FALSE
  <2>1. 0 \in 0 .. L
    BY <1>1
  <2> QED
    BY <1>2, <2>1, Zenon
<1> HIDE DEF L
<1>3. PICK n \in T : \A m \in T : m <= n
  <2>1. T \subseteq 0 .. L
    OBVIOUS
  <2> HIDE DEF T
  <2> QED
    BY <1>1, <1>2, <2>1, GreatestNumber
<1>4. n \in 0 .. L /\ ~ Solved(n)
  OBVIOUS
<1>5. PICK f : n = L \/ f = [i \in (n + 1) .. L |-> LiveAt(f, i)]
  <2>1. CASE n = L
    BY <2>1
  <2>2. CASE n # L
    <3>1. n + 1 \in 0 .. L /\ ~ (n + 1 <= n)
      BY <1>1, <1>4, <2>2
    <3>2. Solved(n + 1)
      BY <1>3, <3>1, Zenon
    <3> QED
      BY <3>2
  <2> QED
    BY <2>1, <2>2
<1> DEFINE g == [i \in n .. L |-> IF i = n THEN LiveAt(f, n) ELSE f[i]]
<1>6. \A j \in (n + 1) .. L : g[j] = f[j]
  <2>1. \A j \in (n + 1) .. L : j \in n .. L /\ j # n
    BY <1>1, <1>4
  <2> QED
    BY <2>1, Zenon
<1>7. ASSUME NEW i \in n .. L PROVE g[i] = LiveAt(g, i)
  <2>1. \A j \in (i + 1) .. L : f[j] = g[j]
    <3>1. \A j \in (i + 1) .. L : j \in (n + 1) .. L
      BY <1>1, <1>4
    <3> HIDE DEF g
    <3> QED
      BY <1>6, <3>1
  <2>2. CASE i = n
    <3>1. g[n] = LiveAt(f, n)
      BY <2>2, Zenon
    <3> HIDE DEF g
    <3>2. LiveAt(f, n) = LiveAt(g, n)
      BY <2>1, <2>2, LiveLocal, Zenon DEF L
    <3> QED
      BY <2>2, <3>1, <3>2
  <2>3. CASE i # n
    <3>1. i \in (n + 1) .. L /\ n # L
      BY <1>1, <1>4, <2>3
    <3>2. g[i] = f[i]
      BY <1>6, <3>1, Zenon
    <3>3. f[i] = LiveAt(f, i)
      BY <1>5, <3>1, Zenon
    <3> HIDE DEF g
    <3>4. LiveAt(f, i) = LiveAt(g, i)
      BY <2>1, LiveLocal, Zenon DEF L
    <3> QED
      BY <3>2, <3>3, <3>4
  <2> QED
    BY <2>2, <2>3
<1>8. g = [i \in n .. L |-> LiveAt(g, i)]
  BY <1>7, Zenon
<1>9. Solved(n)
  <2> HIDE DEF g
  <2> QED
    BY <1>8, Zenon
<1> QED
  BY <1>4, <1>9, Zenon

LEMMA NeededLives ==
    ASSUME TypeOKConversion, NEW p \in Places, IsNeeded(p)
    PROVE  p \in LivePlaces
<1> DEFINE live == CHOOSE f : f = [i \in 0 .. Len(source) |-> LiveAt(f, i)]
<1>1. source \in Seq(ApiCall)
  BY DEF TypeOKConversion, CallsTyped
<1>2. live = [i \in 0 .. Len(source) |-> LiveAt(live, i)]
  BY <1>1, LiveExists, Zenon
<1>3. LivePlaces = UNION {live[i] : i \in 0 .. Len(source)}
  BY Zenon DEF LivePlaces, LiveAt
<1> HIDE DEF live
<1>4. p[1] \in 0 .. Len(source)
  BY PlaceParts DEF TypeOKConversion
<1>5. p \in LiveAt(live, p[1])
  BY Zenon DEF LiveAt
<1>6. p \in live[p[1]]
  BY <1>2, <1>4, <1>5, Zenon
<1> QED
  BY <1>3, <1>4, <1>6, Zenon

-----------------------------------------------------------------------------
(***************************************************************************)
(* The shape of the text: an operation is in the region of the call that   *)
(* it is for, conditionals and loops stay, and collectives are complete.   *)
(***************************************************************************)
Shaped(i, op) ==
    /\ op.path = source[i].path /\ op.kind \notin BranchKinds
    /\ op.kind = "coll" => op.comm # None /\ op.type \in CollectiveNames

TextShaped ==
    /\ \A k \in DOMAIN text[0] : text[0][k] = StartWorld
    /\ \A j \in DOMAIN source :
        \/ text[j] = InitialText(source)[j]
        \/ source[j].fn \notin BranchKinds /\ \A k \in DOMAIN text[j] : Shaped(j, text[j][k])

ComesShaped(i) == Comes(i) /\ TextShaped /\ source[i].fn \notin BranchKinds

LEMMA OpShaped ==
    ASSUME NEW i, NEW kind, NEW type, NEW comm, kind \notin BranchKinds,
           kind = "coll" => comm # None /\ type \in CollectiveNames
    PROVE  /\ Shaped(i, Op(i, kind, type, comm))
           /\ \A args, blocks :
                Shaped(i, [Op(i, kind, type, comm) EXCEPT !.args = args, !.blocking = blocks])
           /\ \A args : Shaped(i, [Op(i, kind, type, comm) EXCEPT !.args = args])
<1>1. Op(i, kind, type, comm) =
        [kind |-> kind, path |-> source[i].path, type |-> type, blocking |-> TRUE, comm |-> comm,
         mem |-> NoArray, slot |-> 0, count |-> 0, args |-> <<>>]
  BY DEF Op, Made
<1> QED
  BY <1>1 DEF Shaped

LEMMA WaitShaped ==
    ASSUME NEW i, NEW mem, NEW count
    PROVE  /\ Shaped(i, WaitFor(i, mem, count))
           /\ \A type : Shaped(i, [WaitFor(i, mem, count) EXCEPT !.type = type])
<1>1. WaitFor(i, mem, count) =
        [kind |-> "wait", path |-> source[i].path, type |-> "waitAll", blocking |-> TRUE,
         comm |-> None, mem |-> mem, slot |-> 0, count |-> count, args |-> <<>>]
  <2> DEFINE op == Op(i, "wait", "waitAll", None)
  <2>1. op = [kind |-> "wait", path |-> source[i].path, type |-> "waitAll", blocking |-> TRUE,
              comm |-> None, mem |-> NoArray, slot |-> 0, count |-> 0, args |-> <<>>]
    BY Zenon DEF Op, Made
  <2>2. WaitFor(i, mem, count) = [op EXCEPT !.mem = mem, !.count = count]
    BY Zenon DEF WaitFor
  <2> HIDE DEF op
  <2> QED
    BY <2>1, <2>2
<1> QED
  BY <1>1 DEF Shaped, BranchKinds

LEMMA RequestShaped ==
    ASSUME NEW i, NEW op \in TextOp, Shaped(i, op), NEW mem, NEW slot
    PROVE  Shaped(i, WithRequest(op, mem, slot))
BY DEF Shaped, WithRequest, TextOp

LEMMA ShapeRewritten ==
    ASSUME NEW i, ComesShaped(i), NEW comm, NEW ops, \A k \in DOMAIN ops : Shaped(i, ops[k]),
           NEW waits \in SUBSET {j \in DOMAIN source : j > i /\ source[j].fn = "MPI_Wait"},
           Rewritten(i, comm, ops, waits)
    PROVE  TextShaped'
<1>1. /\ i \in 1 .. Len(source) /\ source' = source /\ DOMAIN source = 1 .. Len(source)
      /\ Len(source) \in Nat
  BY ComesSays DEF ComesShaped
<1>2. /\ DOMAIN text = 0 .. Len(source) /\ text[0] \in Seq(TextOp)
  <2>1. TypeOKConversion
    BY ComesSays DEF ComesShaped
  <2>2. DOMAIN text = 0 .. Len(source)
    BY <2>1 DEF TypeOKConversion
  <2>3. 0 \in DOMAIN text
    BY <1>1, <2>2
  <2> QED
    BY <2>1, <2>2, <2>3 DEF TypeOKConversion
<1>3. \A k \in DOMAIN text'[0] : text'[0][k] = StartWorld
  <2>1. text'[0] = text[0] \/ text'[0] = Append(text[0], StartWorld)
    <3>1. 0 \in DOMAIN text /\ 0 # i
      BY <1>1, <1>2
    <3>2. 0 \notin waits
      BY <1>1
    <3> QED
      BY <3>1, <3>2, Zenon DEF Rewritten
  <2> DEFINE s == text[0]
  <2>2. s \in Seq(TextOp) /\ \A k \in DOMAIN s : s[k] = StartWorld
    BY <1>2 DEF ComesShaped, TextShaped
  <2> HIDE DEF s
  <2>3. \A k \in DOMAIN Append(s, StartWorld) : Append(s, StartWorld)[k] = StartWorld
    BY <2>2
  <2> QED
    BY <2>1, <2>2, <2>3 DEF s
<1>4. ASSUME NEW j \in DOMAIN source
      PROVE  \/ text'[j] = InitialText(source)[j]
             \/ source[j].fn \notin BranchKinds /\ \A k \in DOMAIN text'[j] : Shaped(j, text'[j][k])
  <2>1. j \in DOMAIN text /\ j # 0
    BY <1>1, <1>2
  <2>2. CASE j = i
    <3>1. text'[j] = ops
      BY <2>1, <2>2, Zenon DEF Rewritten
    <3> QED
      BY <2>2, <3>1 DEF ComesShaped
  <2>3. CASE j # i /\ j \in waits
    <3>1. text'[j] = <<WaitFor(j, ArrayOf(i), 2)>>
      BY <2>1, <2>3, Zenon DEF Rewritten
    <3>2. Shaped(j, WaitFor(j, ArrayOf(i), 2)) /\ source[j].fn = "MPI_Wait"
      BY <2>3, WaitShaped
    <3> DEFINE w == WaitFor(j, ArrayOf(i), 2)
    <3> HIDE DEF w
    <3>3. text'[j] = <<w>> /\ Shaped(j, w)
      BY <3>1, <3>2 DEF w
    <3> QED
      BY <3>2, <3>3 DEF BranchKinds
  <2>4. CASE j # i /\ j \notin waits
    <3>1. text'[j] = text[j]
      BY <2>1, <2>4, Zenon DEF Rewritten
    <3> QED
      BY <3>1, Zenon DEF ComesShaped, TextShaped
  <2> QED
    BY <2>2, <2>3, <2>4
<1>5. ASSUME NEW j, NEW op PROVE Shaped(j, op)' <=> Shaped(j, op')
  BY <1>1, Zenon DEF Shaped
<1> QED
  BY <1>1, <1>3, <1>4, Zenon DEF TextShaped, Shaped

LEMMA NoneShaped ==
    ASSUME NEW i, ComesShaped(i), NEW comm, ReplaceBy(i, comm, <<>>)
    PROVE  TextShaped'
<1> DEFINE ops == <<>>
<1>1. Rewritten(i, comm, ops, {})
  BY Replaced DEF ComesShaped
<1>2. {} \in SUBSET {j \in DOMAIN source : j > i /\ source[j].fn = "MPI_Wait"}
  OBVIOUS
<1>3. \A k \in DOMAIN ops : Shaped(i, ops[k])
  OBVIOUS
<1> HIDE DEF ops
<1> QED
  BY <1>1, <1>2, <1>3, ShapeRewritten

LEMMA OneShaped ==
    ASSUME NEW i, ComesShaped(i), NEW comm, NEW op, Shaped(i, op), ReplaceBy(i, comm, <<op>>)
    PROVE  TextShaped'
<1> DEFINE ops == <<op>>
<1>1. Rewritten(i, comm, ops, {})
  BY Replaced DEF ComesShaped
<1>2. {} \in SUBSET {j \in DOMAIN source : j > i /\ source[j].fn = "MPI_Wait"}
  OBVIOUS
<1>3. \A k \in DOMAIN ops : Shaped(i, ops[k])
  OBVIOUS
<1> HIDE DEF ops
<1> QED
  BY <1>1, <1>2, <1>3, ShapeRewritten

(***************************************************************************)
(* Each handler of the three conversions keeps the shape.                  *)
(***************************************************************************)
LEMMA CallsNoBranch ==
    ASSUME NEW i, Comes(i), IsCall(i)
    PROVE  source[i].fn \notin BranchKinds
<1>1. OpsMeant /\ TypeOKConversion /\ i \in 1 .. Len(source) /\ Len(source) \in Nat
  BY ComesSays
<1>2. i \in DOMAIN text /\ text[i] \in Seq(TextOp) /\ text[i] # <<>> /\ text[i][1].kind = "call"
  BY <1>1 DEF TypeOKConversion, IsCall
<1>3. 1 \in DOMAIN text[i]
  BY <1>2
<1> DEFINE p == <<i, 1>>
<1>4. p[1] = i /\ p[2] = 1 /\ p = <<p[1], p[2]>>
  OBVIOUS
<1> HIDE DEF p
<1>5. p \in Places
  BY <1>2, <1>3, <1>4, PlaceParts
<1>6. OpAt(p).kind = "call"
  BY <1>2, <1>4 DEF OpAt
<1> QED
  BY <1>1, <1>4, <1>5, <1>6, Zenon DEF OpsMeant, OpMeant

LEMMA PlaceSome ==
    ASSUME TypeOKConversion, NEW p \in Places
    PROVE  p # None
<1>1. p = <<p[1], p[2]>> /\ p[1] \in DOMAIN text /\ p[2] \in DOMAIN text[p[1]]
  BY PlaceParts
<1>2. text[p[1]] \in Seq(TextOp)
  BY <1>1 DEF TypeOKConversion
<1>3. p[2] # 0
  BY <1>1, <1>2
<1> QED
  BY <1>3, NoneTyped

LEMMA CommMPISome ==
    ASSUME TypeOKConversion, NEW i
    PROVE  CommMPI(i) # None
<1>1. CASE source[i].comm \in DOMAIN mpi.comms
  <2>1. mpi.comms[source[i].comm] \in Places
    BY <1>1 DEF TypeOKConversion
  <2> QED
    BY <1>1, <2>1, PlaceSome DEF CommMPI
<1>2. CASE source[i].comm \notin DOMAIN mpi.comms
  BY <1>2, NewWorldTyped DEF CommMPI
<1> QED
  BY <1>1, <1>2

LEMMA AppendedAre ==
    ASSUME NEW S, NEW s \in Seq(S), NEW e \in S
    PROVE  \A k \in DOMAIN Append(s, e) :
                (k \in DOMAIN s /\ Append(s, e)[k] = s[k]) \/ Append(s, e)[k] = e
OBVIOUS

LEMMA ExchangeShaped ==
    ASSUME NEW i, ComesMPI(i)
    PROVE  /\ Len(Exchange(i)) = 2 /\ Exchange(i) \in Seq(TextOp)
           /\ \A k \in DOMAIN Exchange(i) : Shaped(i, Exchange(i)[k])
<1> DEFINE args == ArgsConverted(mpi.args, source[i].args)
           comm == CommMPI(i)
           sent == OpMPI(i, "send", NoName)
           received == OpMPI(i, "recv", NoName)
           s == WithRequest(sent, ArrayOf(i), 0)
           r == WithRequest(received, ArrayOf(i), 1)
<1>1. "send" \in TextKinds /\ "recv" \in TextKinds /\ NoName \in OpTypes
  BY DEF TextKinds, OpTypes
<1>2. sent \in TextOp /\ received \in TextOp
  BY <1>1, OpMPITyped
<1>3. Shaped(i, sent) /\ Shaped(i, received)
  <2>1. /\ Shaped(i, [Op(i, "send", NoName, comm) EXCEPT !.args = args])
        /\ Shaped(i, [Op(i, "recv", NoName, comm) EXCEPT !.args = args])
    <3>1. "send" \notin BranchKinds \union {"coll"} /\ "recv" \notin BranchKinds \union {"coll"}
      BY DEF BranchKinds
    <3> HIDE DEF args, comm
    <3> QED
      BY <3>1, OpShaped
  <2> QED
    BY <2>1, Zenon DEF OpMPI
<1>4. Shaped(i, s) /\ Shaped(i, r)
  <2> HIDE DEF sent, received
  <2> QED
    BY <1>2, <1>3, RequestShaped
<1>5. s \in TextOp /\ r \in TextOp
  <2>1. ArrayOf(i) \in Array
    <3>1. i \in 1 .. Len(source) /\ Len(source) \in Nat
      BY ComesMPISays, ComesSays
    <3> QED
      BY <3>1 DEF ArrayOf, NoArray, Array
  <2>2. 0 \in Nat /\ 1 \in Nat
    OBVIOUS
  <2> HIDE DEF sent, received
  <2> QED
    BY <1>2, <2>1, <2>2, RequestTyped
<1>6. Exchange(i) = <<s, r>>
  BY DEF Exchange
<1> HIDE DEF s, r
<1> QED
  BY <1>4, <1>5, <1>6

LEMMA MPIShaped ==
    ASSUME NEW i, ComesMPI(i), TextShaped, ConvertMPI(i)
    PROVE  TextShaped'
<1> DEFINE args == ArgsConverted(mpi.args, source[i].args)
           comm == CommMPI(i)
           fn == source[i].fn
<1>1. ComesShaped(i) /\ TypeOKConversion /\ CallsTyped
  <2>1. Comes(i) /\ IsCall(i)
    BY DEF ComesMPI, Converted
  <2> QED
    BY <2>1, CallsNoBranch, ComesSays DEF ComesShaped
<1>2. comm # None
  BY <1>1, CommMPISome
<1>3. {"process", "query", "world", "split", "destroy", "memory"} \intersect (BranchKinds \union {"coll"}) = {}
  BY DEF BranchKinds
<1>4. CASE ProcessMPI(i)
  <2>1. Shaped(i, Op(i, "process", fn, None))
    BY <1>3, OpShaped
  <2> QED
    BY <1>1, <1>4, <2>1, OneShaped DEF ProcessMPI
<1>5. CASE QueryMPI(i)
  <2>1. Shaped(i, Op(i, "query", source[i].var, comm))
    BY <1>3, OpShaped
  <2> QED
    BY <1>1, <1>5, <2>1, OneShaped DEF QueryMPI
<1>6. CASE CommunicateMPI(i)
  <2> DEFINE row == Entry(MPICommunication, fn)
             plain == OpMPI(i, row.kind, row.type)
             stored == WithRequest(plain, ArrayFor(source[i].req), StoreSlot(i))
  <2>1. /\ row.kind \in {"coll", "send", "recv"} /\ row.type \in CollectiveNames \union {NoName}
        /\ row.kind = "coll" => row.type \in CollectiveNames
    BY <1>6, MPIRows DEF CommunicateMPI
  <2>2. row.kind \notin BranchKinds /\ row.kind \in TextKinds /\ row.type \in OpTypes
    BY <2>1 DEF BranchKinds, TextKinds, OpTypes
  <2>3. plain \in TextOp
    <3> HIDE DEF row
    <3> QED
      BY <2>2, OpMPITyped
  <2>4. Shaped(i, plain)
    <3> HIDE DEF row
    <3>1. Shaped(i, [Op(i, row.kind, row.type, comm) EXCEPT !.args = args])
      <4> HIDE DEF args, comm
      <4> QED
        BY <1>2, <2>1, <2>2, OpShaped
    <3> QED
      BY <3>1, Zenon DEF OpMPI
  <2>5. Shaped(i, stored)
    <3> HIDE DEF plain
    <3> QED
      BY <2>3, <2>4, RequestShaped
  <2>6. ReplaceBy(i, comm, <<plain>>) \/ ReplaceBy(i, comm, <<stored>>)
    BY <1>6, Zenon DEF CommunicateMPI
  <2> HIDE DEF plain, stored, comm
  <2> QED
    BY <1>1, <2>4, <2>5, <2>6, OneShaped
<1>7. CASE SendrecvMPI(i)
  <2> DEFINE wait == WaitFor(i, ArrayOf(i), 2)
             both == Exchange(i)
             ops == Append(both, wait)
  <2>1. Shaped(i, wait) /\ Len(both) = 2 /\ both \in Seq(TextOp) /\ \A k \in DOMAIN both : Shaped(i, both[k])
    BY ExchangeShaped, WaitShaped
  <2>2. Rewritten(i, comm, ops, {})
    BY <1>1, <1>7, Replaced DEF SendrecvMPI, ComesShaped
  <2>3. {} \in SUBSET {j \in DOMAIN source : j > i /\ source[j].fn = "MPI_Wait"}
    OBVIOUS
  <2> HIDE DEF wait, both
  <2>4. \A k \in DOMAIN ops : Shaped(i, ops[k])
    <3>1. wait \in TextOp
      <4>1. ArrayOf(i) \in Array /\ 2 \in Nat /\ i \in DOMAIN source
        <5>1. i \in 1 .. Len(source) /\ i \in DOMAIN source
          BY ComesMPISays, ComesSays
        <5> QED
          BY <5>1 DEF ArrayOf, NoArray, Array
      <4> QED
        BY <1>1, <4>1, WaitTyped DEF wait
    <3>2. \A k \in DOMAIN ops : (k \in DOMAIN both /\ ops[k] = both[k]) \/ ops[k] = wait
      BY <2>1, <3>1, AppendedAre
    <3> QED
      BY <2>1, <3>2, Zenon
  <2> HIDE DEF ops, comm
  <2> QED
    BY <1>1, <2>2, <2>3, <2>4, ShapeRewritten
<1>8. CASE IsendrecvMPI(i)
  <2> DEFINE waits == WaitsNaming(source[i].req)
             ops == Exchange(i)
  <2>1. Rewritten(i, comm, ops, waits)
    BY <1>8, Zenon DEF IsendrecvMPI, Rewritten, StartWorld
  <2>2. waits \in SUBSET {j \in DOMAIN source : j > i /\ source[j].fn = "MPI_Wait"}
    BY <1>8, WaitsAhead DEF IsendrecvMPI
  <2>3. \A k \in DOMAIN ops : Shaped(i, ops[k])
    BY ExchangeShaped
  <2> HIDE DEF waits, ops, comm
  <2> QED
    BY <1>1, <2>1, <2>2, <2>3, ShapeRewritten
<1>9. CASE WaitMPI(i)
  <2>1. PICK count, type :
          ReplaceBy(i, None, <<[WaitFor(i, ArrayFor(source[i].req), count) EXCEPT !.type = type]>>)
    BY <1>9, Zenon DEF WaitMPI
  <2>2. Shaped(i, [WaitFor(i, ArrayFor(source[i].req), count) EXCEPT !.type = type])
    BY WaitShaped
  <2> QED
    BY <1>1, <2>1, <2>2, OneShaped
<1>10. CASE SplitMPI(i)
  <2>1. \/ ReplaceBy(i, None, <<Op(i, "world", NoName, None)>>)
        \/ ReplaceBy(i, comm, <<Op(i, "split", NoName, comm)>>)
    BY <1>10, Zenon DEF SplitMPI
  <2>2. Shaped(i, Op(i, "world", NoName, None)) /\ Shaped(i, Op(i, "split", NoName, comm))
    BY <1>3, OpShaped
  <2> HIDE DEF comm
  <2> QED
    BY <1>1, <2>1, <2>2, OneShaped
<1>11. CASE FreeMPI(i)
  <2>1. Shaped(i, Op(i, "destroy", NoName, comm))
    BY <1>3, OpShaped
  <2> QED
    BY <1>1, <1>11, <2>1, OneShaped DEF FreeMPI
<1>12. CASE MemoryMPI(i)
  <2>1. Shaped(i, Op(i, "memory", fn, ImplicitMPI))
    BY <1>3, OpShaped
  <2> QED
    BY <1>1, <1>12, <2>1, OneShaped DEF MemoryMPI
<1>13. CASE RequestFreeMPI(i)
  BY <1>1, <1>13, NoneShaped DEF RequestFreeMPI
<1> QED
  BY <1>4, <1>5, <1>6, <1>7, <1>8, <1>9, <1>10, <1>11, <1>12, <1>13 DEF ConvertMPI

LEMMA NCCLShaped ==
    ASSUME NEW i, ComesNCCL(i), TextShaped, ConvertNCCL(i)
    PROVE  TextShaped'
<1> DEFINE fn == source[i].fn
           comm == CommNCCL(i)
<1>1. ComesShaped(i) /\ TypeOKConversion
  <2>1. Comes(i) /\ IsCall(i)
    BY DEF ComesNCCL, Converted
  <2> QED
    BY <2>1, CallsNoBranch, ComesSays DEF ComesShaped
<1>2. {"process", "query", "split", "destroy", "memory"} \intersect (BranchKinds \union {"coll"}) = {}
  BY DEF BranchKinds
<1>3. CASE InitRankNCCL(i)
  <2>1. Shaped(i, Op(i, "process", fn, None))
    BY <1>2, OpShaped
  <2> QED
    BY <1>1, <1>3, <2>1, OneShaped DEF InitRankNCCL
<1>4. CASE GroupStartNCCL(i)
  BY <1>1, <1>4, NoneShaped DEF GroupStartNCCL
<1>5. CASE GroupEndNCCL(i)
  <2>1. Shaped(i, WaitFor(i, nccl.group, nccl.num))
    BY WaitShaped
  <2> QED
    BY <1>1, <1>5, <2>1, OneShaped DEF GroupEndNCCL
<1>6. CASE CommunicateNCCL(i)
  <2> DEFINE kind == KindNCCL(fn)
             type == TypeNCCL(fn)
             args == ArgsConverted(nccl.args, source[i].args)
             blocks == nccl.blocking[comm]
             plain == OpNCCL(i)
             stored == WithRequest(plain, GroupArray(i), nccl.num)
  <2>1. fn \in NCCLCommunication /\ CommKnownNCCL(i)
    BY <1>6 DEF CommunicateNCCL, ConvertibleNCCL
  <2>2. kind \in {"coll", "send", "recv"} /\ (kind = "coll" => type \in CollectiveNames)
    BY <2>1, NCCLRows
  <2>3. comm # None
    BY <1>1, <2>1, CommNCCLFound, PlaceSome DEF MakesComm
  <2>4. plain \in TextOp
    BY <2>1, OpNCCLTyped
  <2>5. Shaped(i, plain)
    <3>1. kind \notin BranchKinds
      BY <2>2 DEF BranchKinds
    <3>2. Shaped(i, [Op(i, kind, type, comm) EXCEPT !.args = args, !.blocking = blocks])
      <4> HIDE DEF kind, type, args, comm, blocks
      <4> QED
        BY <2>2, <2>3, <3>1, OpShaped
    <3> QED
      BY <3>2, Zenon DEF OpNCCL
  <2>6. Shaped(i, stored)
    <3> HIDE DEF plain
    <3> QED
      BY <2>4, <2>5, RequestShaped
  <2>7. ReplaceBy(i, None, <<plain>>) \/ ReplaceBy(i, None, <<stored>>)
    BY <1>6, Zenon DEF CommunicateNCCL
  <2> HIDE DEF plain, stored
  <2> QED
    BY <1>1, <2>5, <2>6, <2>7, OneShaped
<1>7. CASE SplitNCCL(i)
  <2>1. Shaped(i, Op(i, "split", NoName, comm))
    BY <1>2, OpShaped
  <2> QED
    BY <1>1, <1>7, <2>1, OneShaped DEF SplitNCCL
<1>8. CASE DestroyNCCL(i)
  <2>1. Shaped(i, Op(i, "destroy", NoName, comm))
    BY <1>2, OpShaped
  <2>2. ReplaceBy(i, None, <<>>) \/ ReplaceBy(i, None, <<Op(i, "destroy", NoName, comm)>>)
    BY <1>8, Zenon DEF DestroyNCCL
  <2> HIDE DEF comm
  <2> QED
    BY <1>1, <2>1, <2>2, OneShaped, NoneShaped
<1>9. CASE QueryNCCL(i)
  <2>1. Shaped(i, Op(i, "query", source[i].var, comm))
    BY <1>2, OpShaped
  <2> QED
    BY <1>1, <1>9, <2>1, OneShaped DEF QueryNCCL
<1>10. CASE MemoryNCCL(i)
  <2>1. Shaped(i, Op(i, "memory", fn, ImplicitNCCL))
    BY <1>2, OpShaped
  <2> QED
    BY <1>1, <1>10, <2>1, OneShaped DEF MemoryNCCL
<1> QED
  BY <1>3, <1>4, <1>5, <1>6, <1>7, <1>8, <1>9, <1>10 DEF ConvertNCCL

LEMMA CommSHMEMSome ==
    ASSUME NEW i, ComesSHMEM(i), CommKnownSHMEM(i)
    PROVE  CommSHMEM(i) # None
<1>1. TypeOKConversion /\ WorldKept(shmem.world)
  BY ComesSHMEMSays DEF StaticsMeant
<1>2. CASE source[i].fn \in WorldCalls \/ source[i].comm = World
  <2>1. CommSHMEM(i) = WorldSHMEM
    BY <1>2 DEF CommSHMEM
  <2>2. WorldSHMEM # None
    BY <1>1, ImplicitTyped DEF WorldSHMEM
  <2> QED
    BY <2>1, <2>2
<1>3. CASE ~ (source[i].fn \in WorldCalls \/ source[i].comm = World)
  <2>1. CommSHMEM(i) = shmem.comms[source[i].comm] /\ source[i].comm \in DOMAIN shmem.comms
    BY <1>3 DEF CommSHMEM, CommKnownSHMEM
  <2>2. shmem.comms[source[i].comm] \in Places
    BY <1>1, <2>1 DEF TypeOKConversion
  <2> QED
    BY <1>1, <2>1, <2>2, PlaceSome
<1> QED
  BY <1>2, <1>3

LEMMA SHMEMShaped ==
    ASSUME NEW i, ComesSHMEM(i), TextShaped, ConvertSHMEM(i)
    PROVE  TextShaped'
<1> DEFINE fn == source[i].fn
           comm == CommSHMEM(i)
<1>1. ComesShaped(i)
  <2>1. Comes(i) /\ IsCall(i)
    BY DEF ComesSHMEM, Converted
  <2> QED
    BY <2>1, CallsNoBranch DEF ComesShaped
<1>2. {"process", "query", "split", "destroy", "memory"} \intersect (BranchKinds \union {"coll"}) = {}
  BY DEF BranchKinds
<1>3. CASE ProcessSHMEM(i)
  <2>1. Shaped(i, Op(i, "process", fn, None))
    BY <1>2, OpShaped
  <2> QED
    BY <1>1, <1>3, <2>1, OneShaped DEF ProcessSHMEM
<1>4. CASE QuerySHMEM(i)
  <2>1. Shaped(i, Op(i, "query", source[i].var, comm))
    BY <1>2, OpShaped
  <2> QED
    BY <1>1, <1>4, <2>1, OneShaped DEF QuerySHMEM
<1>5. CASE CollectiveSHMEM(i)
  <2> DEFINE type == IF fn = "shmem_sync_all" THEN "barrier" ELSE Entry(TeamCollectives, fn)
             op == Op(i, "coll", type, comm)
  <2>1. /\ fn \in Listed(TeamCollectives) \union {"shmem_sync_all"} /\ CommKnownSHMEM(i)
        /\ ReplaceBy(i, comm, <<op>>)
    BY <1>5 DEF CollectiveSHMEM
  <2>2. type \in CollectiveNames
    BY <2>1, SHMEMRows DEF CollectiveNames
  <2>3. comm # None /\ "coll" \notin BranchKinds
    BY <2>1, CommSHMEMSome DEF BranchKinds
  <2> HIDE DEF type, comm
  <2>4. Shaped(i, op)
    BY <2>2, <2>3, OpShaped
  <2> HIDE DEF op
  <2> QED
    BY <1>1, <2>1, <2>4, OneShaped
<1>6. CASE MemorySHMEM(i)
  <2>1. Shaped(i, Op(i, "memory", fn, comm))
    BY <1>2, OpShaped
  <2> QED
    BY <1>1, <1>6, <2>1, OneShaped DEF MemorySHMEM
<1>7. CASE SplitSHMEM(i)
  <2>1. Shaped(i, Op(i, "split", "strided", comm))
    BY <1>2, OpShaped
  <2> QED
    BY <1>1, <1>7, <2>1, OneShaped DEF SplitSHMEM
<1>8. CASE DestroySHMEM(i)
  <2>1. Shaped(i, Op(i, "destroy", NoName, comm))
    BY <1>2, OpShaped
  <2> QED
    BY <1>1, <1>8, <2>1, OneShaped DEF DestroySHMEM
<1> QED
  BY <1>3, <1>4, <1>5, <1>6, <1>7, <1>8 DEF ConvertSHMEM

-----------------------------------------------------------------------------
(***************************************************************************)
(* What is left of the text in the end: an operation is erased, or in the  *)
(* region of its call; the communicator of one that is left is left, too,  *)
(* and so are the conditionals and loops around it.                        *)
(***************************************************************************)
LeftAt(p) ==
    LET op == OpAt(p) IN
        /\ p[1] = 0 => op.kind = "world" /\ op.path = <<>> /\ op.comm = None
        /\ p[1] # 0 =>
            /\ op.path = source[p[1]].path
            /\ source[p[1]].fn \in BranchKinds =>
                    op.kind = source[p[1]].fn /\ p[2] = 1 /\ op.comm = None
            /\ source[p[1]].fn \notin BranchKinds => op.kind \notin BranchKinds
            /\ op.kind = "coll" => op.comm # None /\ op.type \in CollectiveNames

Erased(p) == OpAt(p).kind = "gone" /\ OpAt(p).comm = None

CommLeft(p) == OpAt(p).comm # None => OpAt(p).comm \in Places /\ OpAt(OpAt(p).comm).kind \in CommKinds

BranchesLeft(p) ==
    OpAt(p).kind \in Kinds =>
        \A k \in DOMAIN OpAt(p).path :
            LET b == <<OpAt(p).path[k][1], 1>> IN b \in Places /\ OpAt(b).kind \in BranchKinds

TextLeft ==
    /\ \A p \in Places : Erased(p) \/ LeftAt(p)
    /\ SetOnce => \A p \in Places : CommLeft(p) /\ BranchesLeft(p)

LEMMA ShapedLeft ==
    ASSUME TypeOKConversion, TextShaped, NEW p \in Places
    PROVE  LeftAt(p)
<1>1. p[1] \in DOMAIN text /\ p[2] \in DOMAIN text[p[1]] /\ DOMAIN text = 0 .. Len(source)
  BY PlaceParts DEF TypeOKConversion
<1>2. source \in Seq(ApiCall)
  BY DEF TypeOKConversion, CallsTyped
<1>3. CASE p[1] = 0
  <2>1. OpAt(p) = StartWorld
    BY <1>1, <1>3 DEF TextShaped, OpAt
  <2>2. StartWorld.kind = "world" /\ StartWorld.path = <<>> /\ StartWorld.comm = None
    BY DEF StartWorld, Made
  <2> QED
    BY <1>3, <2>1, <2>2 DEF LeftAt
<1>4. CASE p[1] # 0
  <2> DEFINE i == p[1]
  <2>1. i \in DOMAIN source /\ i \in 0 .. Len(source) /\ i # 0
    BY <1>1, <1>2, <1>4
  <2>2. CASE text[i] = InitialText(source)[i]
    <3> DEFINE kind == IF source[i].fn \in BranchKinds THEN source[i].fn ELSE "call"
               op == Made(source[i].path, kind, source[i].fn, None)
    <3>1. InitialText(source)[i] = <<op>>
      BY <2>1, Zenon DEF InitialText
    <3>2. op.kind = kind /\ op.path = source[i].path /\ op.comm = None
      BY DEF Made
    <3> HIDE DEF op
    <3>3. text[i] = <<op>>
      BY <2>2, <3>1
    <3>4. p[2] = 1 /\ OpAt(p) = op
      BY <1>1, <3>3 DEF OpAt
    <3>5. "call" \notin BranchKinds /\ "call" # "coll" /\ "coll" \notin BranchKinds
      BY DEF BranchKinds
    <3> HIDE DEF i
    <3> QED
      BY <1>4, <3>2, <3>4, <3>5 DEF LeftAt, i
  <2>3. CASE source[i].fn \notin BranchKinds /\ \A k \in DOMAIN text[i] : Shaped(i, text[i][k])
    <3>1. Shaped(i, OpAt(p))
      BY <1>1, <2>3 DEF OpAt
    <3> QED
      BY <1>4, <2>3, <3>1 DEF LeftAt, Shaped
  <2> QED
    BY <2>1, <2>2, <2>3 DEF TextShaped
<1> QED
  BY <1>3, <1>4

LEMMA PathTyped ==
    ASSUME TypeOKConversion, NEW p \in Places
    PROVE  /\ OpAt(p) \in TextOp /\ OpAt(p).path \in Seq((Nat \ {0}) \X {1, 2})
           /\ p[1] \in 0 .. Len(source) /\ Len(source) \in Nat /\ p[2] \in Nat \ {0}
           /\ p[1] # 0 => p[1] \in DOMAIN source
<1>1. p[1] \in DOMAIN text /\ p[2] \in DOMAIN text[p[1]] /\ DOMAIN text = 0 .. Len(source)
  BY PlaceParts DEF TypeOKConversion
<1>2. text[p[1]] \in Seq(TextOp)
  BY <1>1 DEF TypeOKConversion
<1>3. OpAt(p) \in TextOp
  BY <1>1, <1>2 DEF OpAt
<1>4. source \in Seq(ApiCall)
  BY DEF TypeOKConversion, CallsTyped
<1>5. p[2] \in Nat \ {0}
  BY <1>1, <1>2
<1> QED
  BY <1>1, <1>3, <1>4, <1>5 DEF TextOp

(* A communicator is made before its uses, in a region that they are in.   *)
LEMMA CommDominates ==
    ASSUME TypeOKConversion, SetOnce, NEW p \in Places, NEW c \in Places, c = OpAt(p).comm,
           c # None, CommMeant(p[1], c), LeftAt(p), LeftAt(c)
    PROVE  c[1] < p[1] /\ Encloses(OpAt(c).path, OpAt(p).path)
<1>1. /\ p[1] # 0 /\ p[1] \in DOMAIN source /\ p[1] \in 0 .. Len(source) /\ Len(source) \in Nat
      /\ c[1] \in Nat /\ OpAt(p).path = source[p[1]].path
      /\ OpAt(p).path \in Seq((Nat \ {0}) \X {1, 2})
  BY PathTyped DEF LeftAt
<1>2. CASE c[1] = 0
  <2>1. OpAt(c).path = <<>>
    BY <1>2 DEF LeftAt
  <2> QED
    BY <1>1, <1>2, <2>1 DEF Encloses
<1>3. CASE c[1] # 0
  <2> DEFINE v == source[p[1]].comm
  <2>1. v \notin {World, NoName} /\ c[1] = LastSetter(source, v, p[1])
    BY <1>3, Zenon DEF CommMeant
  <2>2. PICK d \in 1 .. (p[1] - 1) :
          /\ Encloses(source[d].path, source[p[1]].path)
          /\ {e \in DOMAIN source : source[e].result = v} = {d}
    BY <1>1, <2>1, Zenon DEF SetOnce
  <2>3. DOMAIN source = 1 .. Len(source)
    BY DEF TypeOKConversion, CallsTyped
  <2> HIDE DEF v
  <2>4. d \in Setters(source, v, p[1]) /\ \A e \in Setters(source, v, p[1]) : e = d
    <3>1. d \in Setters(source, v, p[1])
      BY <2>2 DEF Setters
    <3>2. ASSUME NEW e \in Setters(source, v, p[1]) PROVE e = d
      <4>1. e \in DOMAIN source /\ source[e].result = v
        BY <1>1, <2>3 DEF Setters
      <4> QED
        BY <2>2, <4>1
    <3> QED
      BY <3>1, <3>2
  <2>5. LastSetter(source, v, p[1]) = d
    <3>1. LastSetter(source, v, p[1]) \in Setters(source, v, p[1])
      BY <1>1, <2>4, LastSetterSet
    <3> QED
      BY <2>4, <3>1
  <2>6. c[1] = d /\ d < p[1]
    BY <1>1, <2>1, <2>2, <2>5
  <2>7. OpAt(c).path = source[d].path
    BY <1>3, <2>6 DEF LeftAt
  <2> QED
    BY <1>1, <2>2, <2>6, <2>7
<1> QED
  BY <1>2, <1>3

LEMMA EnclosesThrough ==
    ASSUME NEW S, NEW r \in Seq(S), NEW s \in Seq(S), NEW t \in Seq(S), Encloses(r, s), Encloses(s, t)
    PROVE  Encloses(r, t)
BY DEF Encloses

-----------------------------------------------------------------------------
(***************************************************************************)
(* What is live is what is needed and what that hangs on.                  *)
(***************************************************************************)
Within(p) == {q \in Places : \E d \in DOMAIN OpAt(q).path : OpAt(q).path[d][1] = p[1]}

LEMMA LiveSays ==
    ASSUME TypeOKConversion, NEW p
    PROVE  p \in LivePlaces <=>
             /\ p \in Places
             /\ \/ IsNeeded(p)
                \/ OpAt(p).kind \in BranchKinds /\ \E q \in Within(p) : IsNeeded(q)
                \/ /\ OpAt(p).kind \in CommKinds
                   /\ \E q \in LivePlaces : q[1] > p[1] /\ OpAt(q).comm = p
<1> DEFINE L == Len(source)
           live == CHOOSE f : f = [i \in 0 .. L |-> LiveAt(f, i)]
           Hangs(n) == \/ IsNeeded(p)
                       \/ OpAt(p).kind \in BranchKinds /\ \E q \in Within(p) : IsNeeded(q)
                       \/ /\ OpAt(p).kind \in CommKinds
                          /\ \E j \in (n + 1) .. L : \E q \in live[j] : OpAt(q).comm = p
<1>1. source \in Seq(ApiCall) /\ L \in Nat
  BY DEF TypeOKConversion, CallsTyped
<1>2. live = [i \in 0 .. L |-> LiveAt(live, i)]
  BY <1>1, LiveExists, Zenon
<1>3. LivePlaces = UNION {live[i] : i \in 0 .. L}
  BY Zenon DEF LivePlaces, LiveAt
<1> HIDE DEF live
<1>4. \A i \in 0 .. L : p \in live[i] <=> p \in Places /\ p[1] = i /\ Hangs(i)
  <2>1. ASSUME NEW i \in 0 .. L PROVE p \in live[i] <=> p \in Places /\ p[1] = i /\ Hangs(i)
    <3>1. live[i] = LiveAt(live, i)
      BY <1>2, <2>1, Zenon
    <3>2. p \in LiveAt(live, i) <=> p \in Places /\ p[1] = i /\ Hangs(i)
      BY Zenon DEF LiveAt, Within
    <3> QED
      BY <3>1, <3>2, Zenon
  <2> QED
    BY <2>1, Zenon
<1>5. \A i \in 0 .. L : \A q \in live[i] : q \in Places /\ q[1] = i
  <2>1. \A i \in 0 .. L : live[i] = LiveAt(live, i)
    BY <1>2, Zenon
  <2> QED
    BY <2>1, Zenon DEF LiveAt
<1>6. p \in LivePlaces <=> p \in Places /\ p[1] \in 0 .. L /\ Hangs(p[1])
  BY <1>3, <1>4, Zenon
<1>7. p \in Places => p[1] \in 0 .. L
  BY PathTyped
<1>8. p[1] \in 0 .. L => /\ (\E j \in (p[1] + 1) .. L : \E q \in live[j] : OpAt(q).comm = p)
                            <=> (\E q \in LivePlaces : q[1] > p[1] /\ OpAt(q).comm = p)
  <2> SUFFICES ASSUME p[1] \in 0 .. L
               PROVE  (\E j \in (p[1] + 1) .. L : \E q \in live[j] : OpAt(q).comm = p)
                            <=> (\E q \in LivePlaces : q[1] > p[1] /\ OpAt(q).comm = p)
    OBVIOUS
  <2>1. ASSUME NEW j \in (p[1] + 1) .. L, NEW q \in live[j], OpAt(q).comm = p
        PROVE  \E r \in LivePlaces : r[1] > p[1] /\ OpAt(r).comm = p
    <3>1. j \in 0 .. L /\ j > p[1]
      BY <1>1
    <3>2. q[1] = j /\ q \in LivePlaces
      BY <1>3, <1>5, <3>1, Zenon
    <3> QED
      BY <2>1, <3>1, <3>2
  <2>2. ASSUME NEW q \in LivePlaces, q[1] > p[1], OpAt(q).comm = p
        PROVE  \E j \in (p[1] + 1) .. L : \E r \in live[j] : OpAt(r).comm = p
    <3>1. PICK j \in 0 .. L : q \in live[j]
      BY <1>3, Zenon
    <3>2. q[1] = j
      BY <1>5, <3>1, Zenon
    <3>3. j \in (p[1] + 1) .. L
      BY <1>1, <2>2, <3>1, <3>2
    <3> QED
      BY <2>2, <3>1, <3>3
  <2> QED
    BY <2>1, <2>2
<1> QED
  BY <1>6, <1>7, <1>8, Zenon

(* No operation that only makes a communicator is needed, and none of one  *)
(* has regions.                                                            *)
LEMMA KindsApart ==
    /\ \A p : OpAt(p).kind \in BranchKinds \union CommKinds => ~ IsNeeded(p)
    /\ BranchKinds \intersect CommKinds = {} /\ "coll" \notin BranchKinds \union CommKinds
    /\ "gone" \notin Kinds
BY DEF BranchKinds, CommKinds, PureKinds, Kinds, IsNeeded

(* Before the cleaning up, all that it starts from.                        *)
Ready ==
    /\ TypeOKConversion /\ OpsMeant /\ SourceNested /\ TextShaped /\ SetOnce
    /\ \A p \in Places : OpAt(p).comm # None => MakesComm(OpAt(p).comm)

LEMMA ReadyDominates ==
    ASSUME Ready, NEW p \in Places, NEW c, c = OpAt(p).comm, c # None
    PROVE  /\ c \in Places /\ OpAt(c).kind \in CommKinds
           /\ c[1] < p[1] /\ Encloses(OpAt(c).path, OpAt(p).path)
<1>1. MakesComm(c)
  BY DEF Ready
<1>2. c \in Places /\ OpAt(c).kind \in CommKinds
  BY <1>1 DEF MakesComm
<1>3. CommMeant(p[1], c)
  BY Zenon DEF Ready, OpsMeant, OpMeant
<1>4. LeftAt(p) /\ LeftAt(c)
  BY <1>2, ShapedLeft DEF Ready
<1> QED
  BY <1>2, <1>3, <1>4, CommDominates DEF Ready

(* The branches around an operation of the text.                           *)
LEMMA AroundAre ==
    ASSUME TypeOKConversion, SourceNested, NEW p \in Places, LeftAt(p), NEW k \in DOMAIN OpAt(p).path
    PROVE  LET b == OpAt(p).path[k][1] IN
             /\ p[1] \in DOMAIN source /\ OpAt(p).path = source[p[1]].path
             /\ b \in DOMAIN source /\ b \in 1 .. (p[1] - 1) /\ source[b].fn \in BranchKinds
             /\ OpAt(p).path[k][2] = 2 => source[b].fn = "if"
             /\ source[b].path = SubSeq(OpAt(p).path, 1, k - 1)
<1> DEFINE prog == [i \in DOMAIN source |-> [kind |-> source[i].fn, path |-> source[i].path]]
           path == OpAt(p).path
           b == path[k][1]
<1>1. p[1] \in DOMAIN source /\ OpAt(p).path = source[p[1]].path
  <2>1. p[1] # 0
    BY DEF LeftAt
  <2> QED
    BY <2>1, PathTyped DEF LeftAt
<1>2. /\ path \in Seq((Nat \ {0}) \X {1, 2}) /\ p[1] \in 0 .. Len(source) /\ Len(source) \in Nat
      /\ DOMAIN source = 1 .. Len(source)
  BY PathTyped DEF TypeOKConversion, CallsTyped
<1>3. PathsNested(prog)
  BY Zenon DEF SourceNested
<1>4. \A i \in DOMAIN source : prog[i].kind = source[i].fn /\ prog[i].path = source[i].path
  OBVIOUS
<1>5. DOMAIN prog = DOMAIN source
  OBVIOUS
<1> HIDE DEF prog
<1>6. k \in 1 .. Len(prog[p[1]].path) /\ prog[p[1]].path = path
  BY <1>1, <1>2, <1>4
<1>7. /\ b \in 1 .. (p[1] - 1) /\ IsBranch(prog, b)
      /\ path[k][2] = 2 => prog[b].kind = "if"
      /\ prog[b].path = SubSeq(path, 1, k - 1)
  <2> DEFINE q == prog[p[1]].path[k][1]
  <2>1. /\ q \in 1 .. (p[1] - 1) /\ IsBranch(prog, q)
        /\ prog[p[1]].path[k][2] = 2 => prog[q].kind = "if"
        /\ prog[q].path = SubSeq(prog[p[1]].path, 1, k - 1)
    BY <1>1, <1>3, <1>5, <1>6, Zenon DEF PathsNested, OpsOf
  <2> QED
    BY <1>6, <2>1
<1>8. b \in DOMAIN source
  BY <1>2, <1>7
<1> QED
  BY <1>1, <1>4, <1>7, <1>8 DEF IsBranch

LEMMA BranchStands ==
    ASSUME TypeOKConversion, TextShaped, NEW b \in DOMAIN source, source[b].fn \in BranchKinds
    PROVE  <<b, 1>> \in Places /\ OpAt(<<b, 1>>).kind = source[b].fn
<1> DEFINE op == Made(source[b].path, source[b].fn, source[b].fn, None)
           p == <<b, 1>>
<1>1. b \in 0 .. Len(source) /\ b # 0 /\ DOMAIN text = 0 .. Len(source)
  BY DEF TypeOKConversion, CallsTyped
<1>2. text[b] = InitialText(source)[b]
  BY DEF TextShaped
<1>3. InitialText(source)[b] = <<op>>
  BY <1>1, Zenon DEF InitialText
<1>4. op.kind = source[b].fn
  BY DEF Made
<1> HIDE DEF op
<1>5. text[b] = <<op>>
  BY <1>2, <1>3
<1>6. p[1] = b /\ p[2] = 1 /\ p = <<p[1], p[2]>>
  OBVIOUS
<1> HIDE DEF p
<1>7. p \in Places
  BY <1>1, <1>5, <1>6, PlaceParts
<1>8. OpAt(p) = op
  BY <1>5, <1>6 DEF OpAt
<1> QED
  BY <1>4, <1>7, <1>8 DEF p

(* Where something is live, something is needed.                           *)
HasNeeded(p) == \E q \in Places : IsNeeded(q) /\ Encloses(OpAt(p).path, OpAt(q).path)

LEMMA LiveForNeeds ==
    ASSUME Ready, NEW p \in LivePlaces
    PROVE  p \in Places /\ HasNeeded(p)
<1> DEFINE L == Len(source)
           T == {n \in 0 .. L : \E q \in LivePlaces : q[1] = n /\ ~ HasNeeded(q)}
<1>1. TypeOKConversion /\ SourceNested /\ TextShaped
  BY DEF Ready
<1>2. \A q \in LivePlaces : q \in Places /\ q[1] \in 0 .. L
  BY <1>1, LiveSays, PathTyped
<1>3. L \in Nat
  BY <1>1 DEF TypeOKConversion, CallsTyped
<1>4. SUFFICES ASSUME T # {} PROVE FALSE
  BY <1>2
<1> HIDE DEF L
<1>5. PICK n \in T : \A m \in T : m <= n
  <2>1. T \subseteq 0 .. L
    OBVIOUS
  <2> HIDE DEF T
  <2> QED
    BY <1>3, <1>4, <2>1, GreatestNumber
<1>6. PICK r \in LivePlaces : r[1] = n /\ ~ HasNeeded(r)
  OBVIOUS
<1>7. r \in Places /\ n \in 0 .. L
  BY <1>2, <1>6
<1>8. OpAt(r).path \in Seq((Nat \ {0}) \X {1, 2})
  BY <1>1, <1>7, PathTyped
<1>9. CASE IsNeeded(r)
  <2>1. Encloses(OpAt(r).path, OpAt(r).path)
    BY <1>8 DEF Encloses
  <2> QED
    BY <1>6, <1>7, <1>9, <2>1 DEF HasNeeded
<1>10. CASE OpAt(r).kind \in BranchKinds /\ \E q \in Within(r) : IsNeeded(q)
  <2>0. PICK q \in Places :
          IsNeeded(q) /\ \E d \in DOMAIN OpAt(q).path : OpAt(q).path[d][1] = r[1]
    BY <1>10 DEF Within
  <2>1. PICK d \in DOMAIN OpAt(q).path : OpAt(q).path[d][1] = r[1] /\ IsNeeded(q)
    BY <2>0
  <2>2. LeftAt(q) /\ LeftAt(r)
    BY <1>1, <1>7, ShapedLeft
  <2>3. r[1] # 0
    <3>1. "world" \notin BranchKinds
      BY DEF BranchKinds
    <3> QED
      BY <1>10, <2>2, <3>1 DEF LeftAt
  <2>4. OpAt(r).path = SubSeq(OpAt(q).path, 1, d - 1)
    <3>1. source[r[1]].path = SubSeq(OpAt(q).path, 1, d - 1)
      BY <1>1, <2>1, <2>2, AroundAre
    <3> QED
      BY <2>2, <2>3, <3>1 DEF LeftAt
  <2>5. OpAt(q).path \in Seq((Nat \ {0}) \X {1, 2})
    BY <1>1, PathTyped
  <2>6. Encloses(OpAt(r).path, OpAt(q).path)
    <3> DEFINE path == OpAt(q).path
               S == (Nat \ {0}) \X {1, 2}
    <3>1. path \in Seq(S) /\ d \in DOMAIN path
      BY <2>5
    <3> HIDE DEF path, S
    <3>2. Encloses(SubSeq(path, 1, d - 1), path)
      BY <3>1 DEF Encloses
    <3> QED
      BY <2>4, <3>2 DEF path
  <2> QED
    BY <1>6, <2>1, <2>6 DEF HasNeeded
<1>11. CASE \E q \in LivePlaces : q[1] > r[1] /\ OpAt(q).comm = r
  <2>1. PICK q \in LivePlaces : q[1] > r[1] /\ OpAt(q).comm = r
    BY <1>11
  <2>2. q \in Places /\ q[1] \in 0 .. L
    BY <1>2
  <2>3. HasNeeded(q)
    <3>1. ~ (q[1] <= n)
      BY <1>3, <1>6, <1>7, <2>1, <2>2
    <3>2. q[1] \notin T
      BY <1>5, <3>1
    <3> QED
      BY <2>2, <3>2
  <2>4. PICK s \in Places : IsNeeded(s) /\ Encloses(OpAt(q).path, OpAt(s).path)
    BY <2>3 DEF HasNeeded
  <2>5. r # None
    BY <1>1, <1>7, PlaceSome
  <2>6. Encloses(OpAt(r).path, OpAt(q).path)
    BY <2>1, <2>2, <2>5, ReadyDominates
  <2>7. Encloses(OpAt(r).path, OpAt(s).path)
    <3>1. /\ OpAt(q).path \in Seq((Nat \ {0}) \X {1, 2})
          /\ OpAt(s).path \in Seq((Nat \ {0}) \X {1, 2})
      BY <1>1, <2>2, PathTyped
    <3> QED
      BY <1>8, <2>4, <2>6, <3>1, EnclosesThrough
  <2> QED
    BY <1>6, <2>4, <2>7 DEF HasNeeded
<1> QED
  BY <1>1, <1>7, <1>9, <1>10, <1>11, LiveSays

-----------------------------------------------------------------------------
(***************************************************************************)
(* The end of the pass: what is left hangs together.                       *)
(***************************************************************************)
SameOp(new, old) ==
    new.kind = old.kind /\ new.path = old.path /\ new.comm = old.comm /\ new.type = old.type

LEMMA CleanedKeeps ==
    ASSUME TypeOKConversion, text' = CleanedUp, NEW p \in Places
    PROVE  /\ p \notin LivePlaces => OpAt(p)' = Gone
           /\ p \in LivePlaces => SameOp(OpAt(p)', OpAt(p))
<1> DEFINE New(j, k) == IF <<j, k>> \notin LivePlaces THEN Gone
                        ELSE IF text[j][k].mem \notin AwaitedArrays
                             THEN [text[j][k] EXCEPT !.mem = NoArray, !.slot = 0]
                        ELSE text[j][k]
<1>1. p = <<p[1], p[2]>> /\ p[1] \in DOMAIN text /\ p[2] \in DOMAIN text[p[1]]
  BY PlaceParts
<1>2. text' = [j \in DOMAIN text |-> [k \in DOMAIN text[j] |-> New(j, k)]]
  BY Zenon DEF CleanedUp
<1> HIDE DEF New
<1>3. OpAt(p)' = New(p[1], p[2])
  BY <1>1, <1>2 DEF OpAt
<1>4. OpAt(p) \in TextOp
  BY PathTyped
<1>5. CASE p \notin LivePlaces
  BY <1>1, <1>3, <1>5 DEF New
<1>6. CASE p \in LivePlaces
  <2>1. OpAt(p)' \in {[OpAt(p) EXCEPT !.mem = NoArray, !.slot = 0], OpAt(p)}
    BY <1>1, <1>3, <1>6 DEF New, OpAt
  <2> QED
    BY <1>4, <1>6, <2>1 DEF TextOp, SameOp
<1> QED
  BY <1>5, <1>6

LEMMA CommLives ==
    ASSUME Ready, NEW p \in LivePlaces, NEW c, c = OpAt(p).comm, c # None
    PROVE  c \in LivePlaces
<1>1. TypeOKConversion
  BY DEF Ready
<1>2. p \in Places
  BY <1>1, LiveSays
<1>3. c \in Places /\ OpAt(c).kind \in CommKinds /\ c[1] < p[1]
  BY <1>2, ReadyDominates
<1>4. p[1] > c[1]
  <2>1. p[1] \in Nat /\ c[1] \in Nat
    BY <1>1, <1>2, <1>3, PathTyped
  <2> QED
    BY <1>3, <2>1
<1> QED
  BY <1>1, <1>3, <1>4, LiveSays

LEMMA BranchLives ==
    ASSUME Ready, NEW p \in LivePlaces, NEW k \in DOMAIN OpAt(p).path
    PROVE  <<OpAt(p).path[k][1], 1>> \in LivePlaces
<1> DEFINE b == OpAt(p).path[k][1]
           place == <<b, 1>>
<1>1. TypeOKConversion /\ SourceNested /\ TextShaped
  BY DEF Ready
<1>2. p \in Places /\ HasNeeded(p)
  BY LiveForNeeds
<1>3. LeftAt(p)
  BY <1>1, <1>2, ShapedLeft
<1>4. b \in DOMAIN source /\ source[b].fn \in BranchKinds
  BY <1>1, <1>2, <1>3, AroundAre
<1>5. place \in Places /\ OpAt(place).kind \in BranchKinds
  BY <1>1, <1>4, BranchStands
<1>6. PICK q \in Places : IsNeeded(q) /\ Encloses(OpAt(p).path, OpAt(q).path)
  BY <1>2 DEF HasNeeded
<1>7. q \in Within(place)
  <2>1. /\ OpAt(p).path \in Seq((Nat \ {0}) \X {1, 2})
        /\ OpAt(q).path \in Seq((Nat \ {0}) \X {1, 2})
    BY <1>1, <1>2, PathTyped
  <2>2. k \in DOMAIN OpAt(q).path /\ OpAt(q).path[k] = OpAt(p).path[k]
    BY <1>6, <2>1 DEF Encloses
  <2>3. place[1] = b
    OBVIOUS
  <2>4. OpAt(q).path[k][1] = place[1]
    BY <2>2, <2>3
  <2> HIDE DEF place
  <2> QED
    BY <2>2, <2>4 DEF Within
<1> HIDE DEF place
<1>8. place \in LivePlaces
  BY <1>1, <1>5, <1>6, <1>7, LiveSays
<1> QED
  BY <1>8 DEF place

LEMMA FinishLeaves ==
    ASSUME ConvInv, SourceNested, TextShaped, Finish
    PROVE  TextLeft'
<1> DEFINE kept == IF CleansUp THEN LivePlaces ELSE Places
<1>1. /\ status = "walk" /\ source' = source
      /\ (CleansUp /\ text' = CleanedUp) \/ (~ CleansUp /\ text' = text)
  BY DEF Finish, Unchanged
<1>2. TypeOKConversion /\ Walking /\ OpsMeant
  BY <1>1 DEF ConvInv
<1>3. Places' = Places /\ kept \subseteq Places
  <2>1. DOMAIN CleanedUp = DOMAIN text /\ \A j \in DOMAIN text : DOMAIN CleanedUp[j] = DOMAIN text[j]
    BY <1>2, CleanedUpIs
  <2>2. Places' = Places
    BY <1>1, <2>1, PlaceParts
  <2>3. LivePlaces \subseteq Places
    BY <1>2, LiveSays
  <2> QED
    BY <2>2, <2>3
<1>4. ASSUME NEW p \in Places
      PROVE  \/ p \in kept /\ SameOp(OpAt(p)', OpAt(p))
             \/ p \notin kept /\ OpAt(p)' = Gone
  <2>1. CASE CleansUp
    BY <1>1, <1>2, <2>1, CleanedKeeps
  <2>2. CASE ~ CleansUp
    BY <1>1, <2>2 DEF SameOp, OpAt
  <2> QED
    BY <2>1, <2>2
<1>5. ASSUME NEW p \in Places PROVE Erased(p)' \/ LeftAt(p)'
  <2>1. CASE OpAt(p)' = Gone
    BY <2>1, GoneTyped DEF Erased
  <2>2. CASE SameOp(OpAt(p)', OpAt(p))
    <3>1. LeftAt(p)
      BY <1>2, ShapedLeft
    <3>2. source'[p[1]] = source[p[1]]
      BY <1>1
    <3> QED
      BY <2>2, <3>1, <3>2 DEF LeftAt, SameOp
  <2> QED
    BY <1>4, <2>1, <2>2
<1>6. ASSUME SetOnce, NEW p \in Places PROVE CommLeft(p)' /\ BranchesLeft(p)'
  <2>1. Ready
    BY <1>2, <1>6 DEF Ready, Walking
  <2>2. CASE p \notin kept
    <3>1. OpAt(p)'.kind = "gone" /\ OpAt(p)'.comm = None
      BY <1>4, <2>2, GoneTyped
    <3> QED
      BY <3>1, KindsApart DEF CommLeft, BranchesLeft
  <2>3. CASE p \in kept
    <3>1. OpAt(p)'.kind = OpAt(p).kind /\ OpAt(p)'.path = OpAt(p).path /\ OpAt(p)'.comm = OpAt(p).comm
      BY <1>4, <2>3 DEF SameOp
    <3>2. ASSUME NEW c, c = OpAt(p).comm, c # None
          PROVE  c \in Places' /\ OpAt(c)'.kind \in CommKinds
      <4>1. c \in Places /\ OpAt(c).kind \in CommKinds
        BY <2>1, <3>2, ReadyDominates
      <4>2. c \in kept
        BY <2>1, <2>3, <3>2, <4>1, CommLives
      <4> QED
        BY <1>3, <1>4, <4>1, <4>2 DEF SameOp
    <3>3. CommLeft(p)'
      BY <3>1, <3>2 DEF CommLeft
    <3>4. ASSUME NEW k \in DOMAIN OpAt(p).path, NEW b, b = <<OpAt(p).path[k][1], 1>>
          PROVE  b \in Places' /\ OpAt(b)'.kind \in BranchKinds
      <4>1. b \in Places /\ OpAt(b).kind \in BranchKinds
        <5>1. LeftAt(p)
          BY <1>2, ShapedLeft
        <5>2. OpAt(p).path[k][1] \in DOMAIN source /\ source[OpAt(p).path[k][1]].fn \in BranchKinds
          BY <1>2, <5>1, AroundAre
        <5> QED
          BY <1>2, <3>4, <5>2, BranchStands
      <4>2. b \in kept
        BY <2>1, <2>3, <3>4, <4>1, BranchLives
      <4> QED
        BY <1>3, <1>4, <4>1, <4>2 DEF SameOp
    <3>5. BranchesLeft(p)'
      BY <3>1, <3>4 DEF BranchesLeft
    <3> QED
      BY <3>3, <3>5
  <2> QED
    BY <2>2, <2>3
<1>7. SetOnce' <=> SetOnce
  BY <1>1, Zenon DEF SetOnce
<1> QED
  BY <1>3, <1>5, <1>6, <1>7 DEF TextLeft

-----------------------------------------------------------------------------
(***************************************************************************)
(* All steps keep the shape, and the end leaves what hangs together.       *)
(***************************************************************************)
ShapeInv ==
    /\ SourceNested
    /\ status \in {"start", "walk"} => TextShaped
    /\ status = "done" => TextLeft

LEMMA HandlersWalk ==
    ASSUME NEW i, ConvertMPI(i) \/ ConvertNCCL(i) \/ ConvertSHMEM(i)
    PROVE  status' = "walk" /\ source' = source
<1>1. status = "walk" /\ source' = source
  BY DEF ConvertMPI, ConvertNCCL, ConvertSHMEM, Visit
<1>2. CASE ConvertMPI(i)
  BY <1>1, <1>2 DEF ConvertMPI, ReplaceBy, ProcessMPI, QueryMPI, CommunicateMPI, SendrecvMPI,
     IsendrecvMPI, WaitMPI, SplitMPI, FreeMPI, MemoryMPI, RequestFreeMPI
<1>3. CASE ConvertNCCL(i)
  BY <1>1, <1>3 DEF ConvertNCCL, ReplaceBy, InitRankNCCL, GroupStartNCCL, GroupEndNCCL,
     CommunicateNCCL, SplitNCCL, DestroyNCCL, QueryNCCL, MemoryNCCL
<1>4. CASE ConvertSHMEM(i)
  BY <1>1, <1>4 DEF ConvertSHMEM, ReplaceBy, ProcessSHMEM, QuerySHMEM, CollectiveSHMEM,
     MemorySHMEM, SplitSHMEM, DestroySHMEM
<1> QED
  BY <1>2, <1>3, <1>4

LEMMA HandlersShape ==
    ASSUME ConvInv, TextShaped, NEW i,
           \/ Converted(i, "mpi") /\ ConvertMPI(i)
           \/ Converted(i, "nccl") /\ ConvertNCCL(i)
           \/ Converted(i, "shmem") /\ ConvertSHMEM(i)
    PROVE  TextShaped'
<1>1. CASE Converted(i, "mpi") /\ ConvertMPI(i)
  <2>1. ComesMPI(i)
    BY <1>1 DEF ConvertMPI, ComesMPI, Comes
  <2> QED
    BY <1>1, <2>1, MPIShaped
<1>2. CASE Converted(i, "nccl") /\ ConvertNCCL(i)
  <2>1. ComesNCCL(i)
    BY <1>2 DEF ConvertNCCL, ComesNCCL, Comes
  <2> QED
    BY <1>2, <2>1, NCCLShaped
<1>3. CASE Converted(i, "shmem") /\ ConvertSHMEM(i)
  <2>1. ComesSHMEM(i)
    BY <1>3 DEF ConvertSHMEM, ComesSHMEM, Comes
  <2> QED
    BY <1>3, <2>1, SHMEMShaped
<1> QED
  BY <1>1, <1>2, <1>3

LEMMA ShapeStep == ConvInv /\ ShapeInv /\ [NextConversion]_convVars => ShapeInv'
<1> SUFFICES ASSUME ConvInv, ShapeInv, [NextConversion]_convVars
             PROVE  ShapeInv'
  OBVIOUS
<1>1. ASSUME source' = source PROVE SourceNested'
  BY <1>1 DEF ShapeInv, SourceNested
<1>2. ASSUME text' = text, source' = source,
             \/ status' = status
             \/ status = "start" /\ status' = "walk"
      PROVE  ShapeInv'
  <2>1. TextShaped => TextShaped'
    BY <1>2 DEF TextShaped, Shaped
  <2>2. TextLeft => TextLeft'
    <3>1. Places' = Places /\ (SetOnce' <=> SetOnce)
      BY <1>2, Zenon DEF Places, SetOnce
    <3>2. \A p : OpAt(p)' = OpAt(p)
      BY <1>2, Zenon DEF OpAt
    <3>3. ASSUME NEW p
          PROVE  /\ Erased(p)' <=> Erased(p)
                 /\ LeftAt(p)' <=> LeftAt(p)
                 /\ CommLeft(p)' <=> CommLeft(p)
                 /\ BranchesLeft(p)' <=> BranchesLeft(p)
      <4>1. OpAt(p)' = OpAt(p) /\ OpAt(OpAt(p).comm)' = OpAt(OpAt(p).comm)
        BY <1>2, Zenon DEF OpAt
      <4>2. (Erased(p)' <=> Erased(p)) /\ (LeftAt(p)' <=> LeftAt(p))
        BY <1>2, <4>1, Zenon DEF Erased, LeftAt
      <4>3. CommLeft(p)' <=> CommLeft(p)
        BY <3>1, <4>1, Zenon DEF CommLeft
      <4>4. BranchesLeft(p)' <=> BranchesLeft(p)
        BY <1>2, <3>1, Zenon DEF BranchesLeft, OpAt
      <4> QED
        BY <4>2, <4>3, <4>4
    <3> QED
      BY <3>1, <3>3, Zenon DEF TextLeft
  <2> QED
    BY <1>1, <1>2, <2>1, <2>2 DEF ShapeInv
<1>3. CASE StartWalk
  <2>1. text' = text /\ source' = source /\ status' = "walk" /\ status = "start"
    BY <1>3 DEF StartWalk, Unchanged
  <2> QED
    BY <1>2, <2>1
<1>4. CASE FailConversion
  <2>1. source' = source /\ status' = "failed"
    BY <1>4 DEF FailConversion, Unchanged
  <2> QED
    BY <1>1, <2>1 DEF ShapeInv
<1>5. CASE Finish
  <2>1. source' = source /\ status' = "done" /\ status = "walk"
    BY <1>5 DEF Finish, Unchanged
  <2>2. TextLeft'
    BY <1>5, <2>1, FinishLeaves DEF ShapeInv
  <2> QED
    BY <1>1, <2>1, <2>2 DEF ShapeInv
<1>6. ASSUME NEW i \in DOMAIN source, ConvertCall(i)
      PROVE  ShapeInv'
  <2>1. CASE BreakOffMPI(i) \/ BreakOffNCCL(i) \/ BreakOffSHMEM(i)
    <3>1. source' = source /\ status' \in {"unreachable", "undefined"}
      BY <2>1 DEF BreakOffMPI, BreakOffNCCL, BreakOffSHMEM, BreakOff, Visit
    <3> QED
      BY <1>1, <3>1 DEF ShapeInv
  <2>2. CASE \/ Converted(i, "mpi") /\ ConvertMPI(i)
             \/ Converted(i, "nccl") /\ ConvertNCCL(i)
             \/ Converted(i, "shmem") /\ ConvertSHMEM(i)
    <3>1. status' = "walk" /\ source' = source
      BY <2>2, HandlersWalk
    <3>2. status = "walk"
      BY <2>2 DEF ConvertMPI, ConvertNCCL, ConvertSHMEM, Visit
    <3>3. TextShaped'
      BY <2>2, <3>2, HandlersShape DEF ShapeInv
    <3> QED
      BY <1>1, <3>1, <3>3 DEF ShapeInv
  <2> QED
    BY <1>6, <2>1, <2>2 DEF ConvertCall
<1>7. ASSUME NEW i \in DOMAIN source, PassCall(i)
      PROVE  ShapeInv'
  <2>1. text' = text /\ source' = source /\ status' = status
    BY <1>7 DEF PassCall, Visit
  <2> QED
    BY <1>2, <2>1
<1>8. CASE UNCHANGED convVars
  <2>1. text' = text /\ source' = source /\ status' = status
    BY <1>8 DEF convVars
  <2> QED
    BY <1>2, <2>1
<1> QED
  BY <1>3, <1>4, <1>5, <1>6, <1>7, <1>8 DEF NextConversion

LEMMA ShapeInit ==
    ASSUME InitConversion
    PROVE  ShapeInv
<1>1. SourceNested /\ text = InitialText(source) /\ status = "start" /\ source \in Seq(ApiCall)
  BY DEF InitConversion, CallsTyped
<1>2. \A k \in DOMAIN text[0] : text[0][k] = StartWorld
  <2>1. text[0] = <<>>
    BY <1>1 DEF InitialText
  <2> QED
    BY <2>1
<1> QED
  BY <1>1, <1>2 DEF ShapeInv, TextShaped

-----------------------------------------------------------------------------
(***************************************************************************)
(* The numbers of the operations that are checked: 1, 2, ... in the order  *)
(* of the text.                                                            *)
(***************************************************************************)
Below(p)   == {q \in Checked : Before(q, p)}
PlaceOf(n) == CHOOSE p \in Checked : NumberOf(p) = n

LEMMA OrderTotal ==
    ASSUME TypeOKConversion, NEW p \in Places, NEW q \in Places, NEW r \in Places
    PROVE  /\ Before(p, p) /\ (Before(p, q) \/ Before(q, p))
           /\ Before(p, q) /\ Before(q, p) => p = q
           /\ Before(p, q) /\ Before(q, r) => Before(p, r)
           /\ p[1] < q[1] => Before(p, q) /\ p # q
           /\ Before(p, q) => p[1] <= q[1]
<1>1. /\ p[1] \in Nat /\ p[2] \in Nat /\ q[1] \in Nat /\ q[2] \in Nat /\ r[1] \in Nat /\ r[2] \in Nat
  BY PathTyped
<1>2. p = <<p[1], p[2]>> /\ q = <<q[1], q[2]>>
  BY PlaceParts
<1>3. p[1] = q[1] /\ p[2] = q[2] => p = q
  BY <1>2, Zenon
<1> QED
  BY <1>1, <1>3 DEF Before

LEMMA PlacesFinite ==
    ASSUME TypeOKConversion
    PROVE  IsFiniteSet(Places) /\ IsFiniteSet(Checked)
<1> DEFINE row == [i \in DOMAIN text |-> {i} \X DOMAIN text[i]]
           rows == {{i} \X DOMAIN text[i] : i \in DOMAIN text}
<1>1. IsFiniteSet(DOMAIN text)
  <2>1. DOMAIN text = 0 .. Len(source) /\ Len(source) \in Nat
    BY DEF TypeOKConversion, CallsTyped
  <2> QED
    BY <2>1, FS_Interval
<1>2. row \in Surjection(DOMAIN text, rows)
  BY DEF Surjection
<1>3. IsFiniteSet(rows)
  <2> HIDE DEF row, rows
  <2> QED
    BY <1>1, <1>2, FS_Surjection
<1>4. ASSUME NEW i \in DOMAIN text PROVE IsFiniteSet({i} \X DOMAIN text[i])
  <2>1. text[i] \in Seq(TextOp)
    BY DEF TypeOKConversion
  <2> DEFINE n == Len(text[i])
  <2>2. DOMAIN text[i] = 1 .. n /\ 1 \in Int /\ n \in Int
    BY <2>1
  <2> HIDE DEF n
  <2>3. IsFiniteSet(DOMAIN text[i])
    BY <2>2, FS_Interval
  <2>4. IsFiniteSet({i})
    BY FS_Singleton
  <2> QED
    BY <2>3, <2>4, FS_Product
<1>5. \A T \in rows : IsFiniteSet(T)
  BY <1>4
<1>6. Places = UNION rows
  BY DEF Places
<1> HIDE DEF rows
<1>7. IsFiniteSet(Places)
  BY <1>3, <1>5, <1>6, FS_UNION
<1>8. Checked \in SUBSET Places
  BY DEF Checked
<1> QED
  BY <1>7, <1>8, FS_Subset

LEMMA NumberTyped ==
    ASSUME TypeOKConversion, NEW p \in Checked
    PROVE  NumberOf(p) \in 1 .. Cardinality(Checked) /\ Cardinality(Checked) \in Nat
<1>1. IsFiniteSet(Checked) /\ Below(p) \in SUBSET Checked
  BY PlacesFinite DEF Below
<1>2. IsFiniteSet(Below(p)) /\ Cardinality(Below(p)) <= Cardinality(Checked)
  BY <1>1, FS_Subset
<1>3. Cardinality(Below(p)) \in Nat /\ Cardinality(Checked) \in Nat
  BY <1>1, <1>2, FS_CardinalityType
<1>4. p \in Below(p)
  BY OrderTotal DEF Below, Checked
<1>5. Cardinality(Below(p)) # 0
  BY <1>2, <1>4, FS_EmptySet
<1>6. NumberOf(p) = Cardinality(Below(p))
  BY DEF NumberOf, Below
<1> QED
  BY <1>2, <1>3, <1>5, <1>6

LEMMA NumbersGrow ==
    ASSUME TypeOKConversion, NEW p \in Checked, NEW q \in Checked, Before(p, q), p # q
    PROVE  NumberOf(p) < NumberOf(q)
<1>1. p \in Places /\ q \in Places /\ \A r \in Checked : r \in Places
  BY DEF Checked
<1>2. Below(p) \in SUBSET Below(q)
  <2>1. ASSUME NEW r \in Checked, Before(r, p) PROVE Before(r, q)
    BY <1>1, <2>1, OrderTotal
  <2> QED
    BY <2>1 DEF Below
<1>3. q \in Below(q) /\ q \notin Below(p)
  BY <1>1, OrderTotal DEF Below
<1>4. IsFiniteSet(Below(q))
  <2>1. IsFiniteSet(Checked) /\ Below(q) \in SUBSET Checked
    BY PlacesFinite DEF Below
  <2> QED
    BY <2>1, FS_Subset
<1>5. Cardinality(Below(p)) <= Cardinality(Below(q)) /\ Cardinality(Below(p)) # Cardinality(Below(q))
  BY <1>2, <1>3, <1>4, FS_Subset
<1>6. NumberOf(p) = Cardinality(Below(p)) /\ NumberOf(q) = Cardinality(Below(q))
  BY DEF NumberOf, Below
<1>7. NumberOf(p) \in Nat /\ NumberOf(q) \in Nat
  BY NumberTyped
<1> QED
  BY <1>5, <1>6, <1>7

LEMMA NumbersOrdered ==
    ASSUME TypeOKConversion, NEW p \in Checked, NEW q \in Checked
    PROVE  /\ NumberOf(p) = NumberOf(q) <=> p = q
           /\ NumberOf(p) < NumberOf(q) <=> Before(p, q) /\ p # q
<1>1. p \in Places /\ q \in Places
  BY DEF Checked
<1>2. Before(p, q) \/ Before(q, p)
  BY <1>1, OrderTotal
<1>3. Before(p, q) /\ Before(q, p) => p = q
  BY <1>1, OrderTotal
<1>4. NumberOf(p) \in Nat /\ NumberOf(q) \in Nat
  BY NumberTyped
<1>5. /\ Before(p, q) /\ p # q => NumberOf(p) < NumberOf(q)
      /\ Before(q, p) /\ p # q => NumberOf(q) < NumberOf(p)
  BY NumbersGrow
<1> QED
  BY <1>2, <1>3, <1>4, <1>5

(* All numbers up to the last are in use, each for one operation.          *)
LEMMA NumbersUsed ==
    ASSUME TypeOKConversion, NEW n \in 1 .. Cardinality(Checked)
    PROVE  PlaceOf(n) \in Checked /\ NumberOf(PlaceOf(n)) = n
<1> DEFINE N == Cardinality(Checked)
           f == [p \in Checked |-> NumberOf(p)]
<1>1. IsFiniteSet(Checked)
  BY PlacesFinite
<1>2. N \in Nat
  BY <1>1, FS_CardinalityType
<1>3. IsFiniteSet(1 .. N) /\ Cardinality(1 .. N) = N
  <2> HIDE DEF N
  <2>1. 1 \in Int /\ N \in Int
    BY <1>2
  <2>2. IsFiniteSet(1 .. N) /\ Cardinality(1 .. N) = IF 1 > N THEN 0 ELSE N - 1 + 1
    BY <2>1, FS_Interval
  <2> QED
    BY <1>2, <2>2
<1>4. f \in Injection(Checked, 1 .. N)
  <2>1. f \in [Checked -> 1 .. N]
    BY NumberTyped
  <2>2. \A p, q \in Checked : f[p] = f[q] => p = q
    BY NumbersOrdered
  <2> QED
    BY <2>1, <2>2 DEF Injection, IsInjective
<1> HIDE DEF f
<1>5. f \in Surjection(Checked, 1 .. N)
  BY <1>3, <1>4, FS_Injection
<1>6. \E p \in Checked : f[p] = n
  BY <1>5 DEF Surjection
<1>7. \E p \in Checked : NumberOf(p) = n
  BY <1>6 DEF f
<1> QED
  BY <1>7, Zenon DEF PlaceOf

LEMMA PlaceOfNumber ==
    ASSUME TypeOKConversion, NEW p \in Checked
    PROVE  PlaceOf(NumberOf(p)) = p
<1>1. /\ PlaceOf(NumberOf(p)) \in Checked
      /\ NumberOf(PlaceOf(NumberOf(p))) = NumberOf(p)
  BY NumberTyped, NumbersUsed
<1> QED
  BY <1>1, NumbersOrdered

-----------------------------------------------------------------------------
(***************************************************************************)
(* What is left in the end, of the operations that are checked.            *)
(***************************************************************************)
Ended == SetOnce /\ TypeOKConversion /\ OpsMeant /\ SourceNested /\ TextLeft

LEMMA CheckedLeft ==
    ASSUME Ended, NEW p \in Checked
    PROVE  p \in Places /\ OpAt(p).kind \in Kinds /\ LeftAt(p)
<1>1. p \in Places /\ OpAt(p).kind \in Kinds
  BY DEF Checked
<1>2. OpAt(p).kind # "gone"
  BY <1>1, KindsApart
<1> QED
  BY <1>1, <1>2, Zenon DEF Ended, TextLeft, Erased

LEMMA CheckedAround ==
    ASSUME Ended, NEW p \in Checked, NEW k \in DOMAIN OpAt(p).path
    PROVE  LET b == <<OpAt(p).path[k][1], 1>> IN
             /\ b \in Checked /\ b[1] < p[1] /\ b[1] \in DOMAIN source
             /\ source[b[1]].fn \in BranchKinds /\ OpAt(b).kind \in BranchKinds
             /\ OpAt(p).path[k][2] = 2 => OpAt(b).kind = "if"
             /\ OpAt(b).path = SubSeq(OpAt(p).path, 1, k - 1)
<1> DEFINE i == OpAt(p).path[k][1]
           b == <<i, 1>>
<1>1. p \in Places /\ OpAt(p).kind \in Kinds /\ LeftAt(p)
  BY CheckedLeft
<1>2. /\ i \in DOMAIN source /\ i \in 1 .. (p[1] - 1) /\ source[i].fn \in BranchKinds
      /\ OpAt(p).path[k][2] = 2 => source[i].fn = "if"
      /\ source[i].path = SubSeq(OpAt(p).path, 1, k - 1)
  BY <1>1, AroundAre DEF Ended
<1>3. b \in Places /\ OpAt(b).kind \in BranchKinds
  BY <1>1, Zenon DEF Ended, TextLeft, BranchesLeft
<1>4. b \in Checked
  BY <1>3 DEF Checked, Kinds
<1>5. LeftAt(b)
  BY <1>4, CheckedLeft
<1>6. b[1] = i /\ i # 0 /\ p[1] \in Nat /\ i < p[1]
  BY <1>1, <1>2, PathTyped DEF Ended
<1>7. OpAt(b).kind = source[i].fn /\ OpAt(b).path = source[i].path
  BY <1>2, <1>5, <1>6 DEF LeftAt
<1> HIDE DEF i, b
<1>8. /\ b \in Checked /\ b[1] < p[1] /\ b[1] \in DOMAIN source
      /\ source[b[1]].fn \in BranchKinds /\ OpAt(b).kind \in BranchKinds
      /\ OpAt(p).path[k][2] = 2 => OpAt(b).kind = "if"
      /\ OpAt(b).path = SubSeq(OpAt(p).path, 1, k - 1)
  BY <1>2, <1>3, <1>4, <1>6, <1>7
<1> QED
  BY <1>8 DEF i, b

LEMMA CheckedComm ==
    ASSUME Ended, NEW p \in Places, NEW c, c = OpAt(p).comm, c # None
    PROVE  /\ c \in Checked /\ OpAt(c).kind \in CommKinds
           /\ c[1] < p[1] /\ Encloses(OpAt(c).path, OpAt(p).path)
<1>1. c \in Places /\ OpAt(c).kind \in CommKinds
  BY Zenon DEF Ended, TextLeft, CommLeft
<1>2. c \in Checked
  BY <1>1 DEF Checked, Kinds
<1>3. LeftAt(c)
  BY <1>2, CheckedLeft
<1>4. LeftAt(p)
  BY Zenon DEF Ended, TextLeft, Erased
<1>5. CommMeant(p[1], c)
  BY Zenon DEF Ended, OpsMeant, OpMeant
<1>6. c[1] < p[1] /\ Encloses(OpAt(c).path, OpAt(p).path)
  BY <1>1, <1>3, <1>4, <1>5, CommDominates DEF Ended
<1> QED
  BY <1>1, <1>2, <1>6

(* What MLIR's structure says of a source program, call by call.           *)
LEMMA SourceConsecutive ==
    ASSUME SourceNested, NEW i \in DOMAIN source, NEW j \in DOMAIN source,
           NEW k \in 1 .. Len(source[i].path), source[i].path[k][1] < j, j < i
    PROVE  /\ Len(source[j].path) >= k
           /\ source[j].path[k][1] = source[i].path[k][1]
           /\ source[j].path[k][2] <= source[i].path[k][2]
<1> DEFINE prog == [n \in DOMAIN source |-> [kind |-> source[n].fn, path |-> source[n].path]]
<1>1. SubtreesConsecutive(prog)
  BY Zenon DEF SourceNested
<1>2. \A n \in DOMAIN source : prog[n].path = source[n].path
  OBVIOUS
<1>3. DOMAIN prog = DOMAIN source
  OBVIOUS
<1> HIDE DEF prog
<1>4. k \in 1 .. Len(prog[i].path) /\ prog[i].path[k][1] < j
  BY <1>2
<1>5. /\ Len(prog[j].path) >= k
      /\ prog[j].path[k][1] = prog[i].path[k][1]
      /\ prog[j].path[k][2] <= prog[i].path[k][2]
  BY <1>1, <1>3, <1>4 DEF SubtreesConsecutive, OpsOf
<1> QED
  BY <1>2, <1>5

-----------------------------------------------------------------------------
(***************************************************************************)
(* The program that is left is well formed.                                *)
(***************************************************************************)
PathOf(op) == [d \in DOMAIN op.path |-> <<NumberOf(<<op.path[d][1], 1>>), op.path[d][2]>>]

LEMMA ConvertedAt ==
    ASSUME NEW n \in 1 .. Cardinality(Checked)
    PROVE  LET op == OpAt(PlaceOf(n)) IN
             /\ DOMAIN ConvertedProgram = 1 .. Cardinality(Checked)
             /\ ConvertedProgram[n] =
                 [kind |-> op.kind, path |-> PathOf(op),
                  type |-> IF op.kind = "coll" THEN op.type ELSE TypeOrder[1],
                  blocking |-> op.blocking,
                  comm |-> IF op.comm \in Checked THEN NumberOf(op.comm) ELSE 0,
                  bounds |-> <<>>, mv |-> FALSE, execKind |-> "All",
                  executedBy |-> {}, executedNotBy |-> {}]
BY Zenon DEF ConvertedProgram, PlaceOf, PathOf

LEMMA ConvertedSays ==
    ASSUME NEW n \in 1 .. Cardinality(Checked)
    PROVE  LET op == OpAt(PlaceOf(n)) IN
             /\ ConvertedProgram[n].kind = op.kind /\ ConvertedProgram[n].path = PathOf(op)
             /\ ConvertedProgram[n].comm = IF op.comm \in Checked THEN NumberOf(op.comm) ELSE 0
             /\ ConvertedProgram[n].bounds = <<>>
<1> DEFINE op == OpAt(PlaceOf(n))
<1>1. ConvertedProgram[n] =
         [kind |-> op.kind, path |-> PathOf(op),
          type |-> IF op.kind = "coll" THEN op.type ELSE TypeOrder[1],
          blocking |-> op.blocking,
          comm |-> IF op.comm \in Checked THEN NumberOf(op.comm) ELSE 0,
          bounds |-> <<>>, mv |-> FALSE, execKind |-> "All",
          executedBy |-> {}, executedNotBy |-> {}]
  BY ConvertedAt, Zenon
<1> HIDE DEF op
<1>2. /\ ConvertedProgram[n].kind = op.kind /\ ConvertedProgram[n].path = PathOf(op)
      /\ ConvertedProgram[n].comm = IF op.comm \in Checked THEN NumberOf(op.comm) ELSE 0
      /\ ConvertedProgram[n].bounds = <<>>
  BY <1>1
<1> QED
  BY <1>2 DEF op

(* The path of the n-th operation: the numbers of the branches around it.  *)
LEMMA PathNumbered ==
    ASSUME Ended, NEW p \in Checked
    PROVE  /\ PathOf(OpAt(p)) \in Seq((Nat \ {0}) \X {1, 2})
           /\ OpAt(p).path \in Seq((Nat \ {0}) \X {1, 2})
           /\ Len(PathOf(OpAt(p))) = Len(OpAt(p).path)
           /\ \A k \in DOMAIN OpAt(p).path :
                /\ PathOf(OpAt(p))[k][1] = NumberOf(<<OpAt(p).path[k][1], 1>>)
                /\ PathOf(OpAt(p))[k][2] = OpAt(p).path[k][2]
<1> DEFINE path == OpAt(p).path
           new == PathOf(OpAt(p))
<1>1. path \in Seq((Nat \ {0}) \X {1, 2})
  <2>1. p \in Places
    BY CheckedLeft
  <2> QED
    BY <2>1, PathTyped DEF Ended
<1>2. new = [d \in DOMAIN path |-> <<NumberOf(<<path[d][1], 1>>), path[d][2]>>]
  BY Zenon DEF PathOf
<1>3. ASSUME NEW d \in DOMAIN path PROVE NumberOf(<<path[d][1], 1>>) \in Nat \ {0} /\ path[d][2] \in {1, 2}
  <2>1. <<path[d][1], 1>> \in Checked
    BY CheckedAround
  <2> DEFINE c == <<path[d][1], 1>>
  <2> HIDE DEF c
  <2>2. c \in Checked
    BY <2>1 DEF c
  <2>3. NumberOf(c) \in 1 .. Cardinality(Checked) /\ Cardinality(Checked) \in Nat
    BY <2>2, NumberTyped DEF Ended
  <2>4. NumberOf(c) \in Nat \ {0}
    BY <2>3
  <2> HIDE DEF path
  <2>5. path[d] \in (Nat \ {0}) \X {1, 2}
    BY <1>1
  <2>6. path[d][2] \in {1, 2}
    BY <2>5
  <2> QED
    BY <2>4, <2>6 DEF c
<1> HIDE DEF path, new
<1>4. ASSUME NEW d \in DOMAIN path PROVE new[d] \in (Nat \ {0}) \X {1, 2}
  BY <1>2, <1>3
<1>5. DOMAIN path = 1 .. Len(path) /\ Len(path) \in Nat
  BY <1>1
<1>6. new \in Seq((Nat \ {0}) \X {1, 2}) /\ Len(new) = Len(path)
  <2> DEFINE T == (Nat \ {0}) \X {1, 2}
             n == Len(path)
  <2>1. new = [d \in 1 .. n |-> new[d]]
    BY <1>2, <1>5
  <2>2. \A d \in 1 .. n : new[d] \in T
    BY <1>4, <1>5
  <2>3. n \in Nat
    BY <1>5
  <2> HIDE DEF T, n
  <2>4. new \in [1 .. n -> T]
    BY <2>1, <2>2
  <2>5. new \in Seq(T) /\ Len(new) = n
    BY <2>3, <2>4
  <2> QED
    BY <2>5 DEF T, n
<1>7. \A k \in DOMAIN path :
        new[k][1] = NumberOf(<<path[k][1], 1>>) /\ new[k][2] = path[k][2]
  BY <1>2
<1> QED
  BY <1>1, <1>6, <1>7 DEF path, new

(* Which operation a number is of, and what is known of it.                *)
LEMMA PlaceNumbered ==
    ASSUME Ended, NEW n \in 1 .. Cardinality(Checked)
    PROVE  /\ PlaceOf(n) \in Checked /\ NumberOf(PlaceOf(n)) = n
           /\ ConvertedProgram[n].path \in Seq((Nat \ {0}) \X {1, 2})
           /\ Len(ConvertedProgram[n].path) = Len(OpAt(PlaceOf(n)).path)
           /\ \A k \in DOMAIN OpAt(PlaceOf(n)).path :
                /\ ConvertedProgram[n].path[k][1] = NumberOf(<<OpAt(PlaceOf(n)).path[k][1], 1>>)
                /\ ConvertedProgram[n].path[k][2] = OpAt(PlaceOf(n)).path[k][2]
<1> DEFINE p == PlaceOf(n)
<1>1. p \in Checked /\ NumberOf(p) = n
  BY NumbersUsed DEF Ended
<1>2. ConvertedProgram[n].path = PathOf(OpAt(p))
  BY ConvertedSays, Zenon
<1> HIDE DEF p
<1>3. /\ PathOf(OpAt(p)) \in Seq((Nat \ {0}) \X {1, 2})
      /\ Len(PathOf(OpAt(p))) = Len(OpAt(p).path)
      /\ \A k \in DOMAIN OpAt(p).path :
           /\ PathOf(OpAt(p))[k][1] = NumberOf(<<OpAt(p).path[k][1], 1>>)
           /\ PathOf(OpAt(p))[k][2] = OpAt(p).path[k][2]
  BY <1>1, PathNumbered, Zenon
<1> DEFINE path == ConvertedProgram[n].path
           new == PathOf(OpAt(p))
<1>4. path = new
  BY <1>2
<1> HIDE DEF path
<1>5. /\ path \in Seq((Nat \ {0}) \X {1, 2}) /\ Len(path) = Len(OpAt(p).path)
      /\ \A k \in DOMAIN OpAt(p).path :
           path[k][1] = NumberOf(<<OpAt(p).path[k][1], 1>>) /\ path[k][2] = OpAt(p).path[k][2]
  BY <1>3, <1>4
<1> QED
  BY <1>1, <1>5, ZenonT(60) DEF p, path

LEMMA ConvertedTyped ==
    ASSUME Ended
    PROVE  /\ ConvertedProgram \in Seq(Operation) /\ DOMAIN ConvertedProgram = 1 .. Cardinality(Checked)
           /\ Cardinality(Checked) \in Nat
<1> DEFINE N == Cardinality(Checked)
<1>1. N \in Nat
  BY PlacesFinite, FS_CardinalityType DEF Ended
<1>2. TypeOrder[1] \in CollTypes
  <2>1. "barrier" \in CollTypes
    BY ConversionAssumption DEF CollectiveNames
  <2>2. \E t \in DOMAIN TypeOrder : TRUE
    BY <2>1 DEF CollTypes
  <2>3. DOMAIN TypeOrder = 1 .. Len(TypeOrder) /\ Len(TypeOrder) \in Nat
    BY TypeOrderAssumption
  <2>4. 1 \in DOMAIN TypeOrder
    BY <2>2, <2>3
  <2> QED
    BY <2>4 DEF CollTypes
<1>3. ASSUME NEW n \in 1 .. N PROVE ConvertedProgram[n] \in Operation
  <2> DEFINE op == OpAt(PlaceOf(n))
             path == PathOf(op)
             type == IF op.kind = "coll" THEN op.type ELSE TypeOrder[1]
             comm == IF op.comm \in Checked THEN NumberOf(op.comm) ELSE 0
  <2>1. PlaceOf(n) \in Checked /\ ConvertedProgram[n].path \in Seq((Nat \ {0}) \X {1, 2})
    BY PlaceNumbered
  <2>2. PlaceOf(n) \in Places /\ op.kind \in Kinds /\ LeftAt(PlaceOf(n))
    BY <2>1, CheckedLeft
  <2>3. op \in TextOp /\ op.blocking \in BOOLEAN
    BY <2>2, PathTyped DEF Ended, TextOp
  <2>4. type \in CollTypes
    <3>1. op.kind = "coll" => op.type \in CollectiveNames
      <4>1. op.kind = "coll" => op.kind # "world"
        OBVIOUS
      <4> QED
        BY <2>2, <4>1, PathTyped, Zenon DEF LeftAt, Ended, BranchKinds
    <3> QED
      BY <1>2, <3>1, ConversionAssumption
  <2>5. comm \in Nat
    BY NumberTyped DEF Ended
  <2>6. ConvertedProgram[n] =
         [kind |-> op.kind, path |-> path, type |-> type, blocking |-> op.blocking, comm |-> comm,
          bounds |-> <<>>, mv |-> FALSE, execKind |-> "All", executedBy |-> {}, executedNotBy |-> {}]
    BY ConvertedAt, Zenon
  <2>7. path \in Seq((Nat \ {0}) \X {1, 2})
    BY <2>1, ConvertedSays, Zenon
  <2>8. <<>> \in Seq(Int) /\ {} \in SUBSET Int /\ FALSE \in BOOLEAN
        /\ "All" \in {"All", "AllBut", "Static", "Dynamic", "One"}
    OBVIOUS
  <2> HIDE DEF op, path, type, comm
  <2> QED
    BY <2>2, <2>3, <2>4, <2>5, <2>6, <2>7, <2>8 DEF Operation
<1>4. /\ ConvertedProgram = [n \in 1 .. N |-> ConvertedProgram[n]]
      /\ DOMAIN ConvertedProgram = 1 .. N
  BY Zenon DEF ConvertedProgram
<1> HIDE DEF N
<1>5. ConvertedProgram \in [1 .. N -> Operation]
  <2> DEFINE prog == ConvertedProgram
  <2>1. prog = [n \in 1 .. N |-> prog[n]] /\ \A n \in 1 .. N : prog[n] \in Operation
    BY <1>3, <1>4, Zenon DEF N
  <2> HIDE DEF prog
  <2> QED
    BY <2>1 DEF prog
<1>6. ConvertedProgram \in Seq(Operation)
  BY <1>1, <1>5
<1> QED
  BY <1>1, <1>4, <1>6 DEF N

LEMMA ConvertedNested ==
    ASSUME Ended
    PROVE  PathsNested(ConvertedProgram)
<1> DEFINE prog == ConvertedProgram
           N == Cardinality(Checked)
<1>1. DOMAIN prog = 1 .. N /\ N \in Nat
  BY ConvertedTyped
<1>2. ASSUME NEW o \in 1 .. N, NEW k \in 1 .. Len(prog[o].path)
      PROVE  LET m == prog[o].path[k][1] IN
                /\ m \in 1 .. (o - 1) /\ IsBranch(prog, m)
                /\ prog[o].path[k][2] = 2 => prog[m].kind = "if"
                /\ prog[m].path = SubSeq(prog[o].path, 1, k - 1)
  <2> DEFINE p == PlaceOf(o)
             old == OpAt(p).path
             b == <<old[k][1], 1>>
             m == prog[o].path[k][1]
             sub == SubSeq(old, 1, k - 1)
  <2>1. /\ p \in Checked /\ NumberOf(p) = o /\ prog[o].path \in Seq((Nat \ {0}) \X {1, 2})
        /\ Len(prog[o].path) = Len(old)
        /\ \A d \in DOMAIN old : /\ prog[o].path[d][1] = NumberOf(<<old[d][1], 1>>)
                                 /\ prog[o].path[d][2] = old[d][2]
    BY PlaceNumbered, Zenon
  <2>2. old \in Seq((Nat \ {0}) \X {1, 2})
    BY <2>1, PathNumbered
  <2>3. DOMAIN old = 1 .. Len(old) /\ k \in DOMAIN old /\ Len(old) \in Nat
    BY <2>1, <2>2
  <2>4. /\ b \in Checked /\ b[1] < p[1] /\ OpAt(b).kind \in BranchKinds
        /\ old[k][2] = 2 => OpAt(b).kind = "if"
        /\ OpAt(b).path = sub
    BY <2>1, <2>3, CheckedAround
  <2>5. m = NumberOf(b) /\ prog[o].path[k][2] = old[k][2]
    BY <2>1, <2>3
  <2> HIDE DEF b
  <2>6. b \in Places /\ p \in Places
    BY <2>1, <2>4, CheckedLeft
  <2>7. Before(b, p) /\ b # p
    BY <2>4, <2>6, OrderTotal DEF Ended
  <2>8. m < o
    <3> HIDE DEF p, m
    <3> QED
      BY <2>1, <2>4, <2>5, <2>7, NumbersOrdered DEF Ended
  <2>9. m \in 1 .. N /\ PlaceOf(m) = b
    BY <2>4, <2>5, NumberTyped, PlaceOfNumber DEF Ended
  <2>10. prog[m].kind = OpAt(b).kind
    <3> HIDE DEF m
    <3>1. prog[m].kind = OpAt(PlaceOf(m)).kind
      BY <2>9, ConvertedSays, Zenon
    <3> QED
      BY <2>9, <3>1
  <2>11. /\ prog[m].path \in Seq((Nat \ {0}) \X {1, 2}) /\ Len(prog[m].path) = Len(sub)
         /\ \A d \in DOMAIN sub : /\ prog[m].path[d][1] = NumberOf(<<sub[d][1], 1>>)
                                  /\ prog[m].path[d][2] = sub[d][2]
    <3> HIDE DEF m, sub
    <3> QED
      BY <2>4, <2>9, PlaceNumbered
  <2>12. /\ Len(sub) = k - 1 /\ DOMAIN sub = 1 .. (k - 1)
         /\ \A d \in 1 .. (k - 1) : sub[d] = old[d] /\ d \in DOMAIN old
    <3> HIDE DEF old
    <3> QED
      BY <2>2, <2>3
  <2>13. prog[m].path = SubSeq(prog[o].path, 1, k - 1)
    <3> DEFINE T == (Nat \ {0}) \X {1, 2}
               s == prog[m].path
               t == prog[o].path
               u == SubSeq(t, 1, k - 1)
    <3>1. s \in Seq(T) /\ t \in Seq(T) /\ Len(s) = k - 1 /\ k \in 1 .. Len(t) /\ Len(t) \in Nat
      <4>1. k \in 1 .. Len(t) /\ t \in Seq(T)
        BY <2>1, <2>3
      <4>2. s \in Seq(T) /\ Len(s) = k - 1
        BY <2>11, <2>12
      <4> HIDE DEF s, t, T
      <4> QED
        BY <4>1, <4>2
    <3>2. \A d \in 1 .. (k - 1) : s[d][1] = t[d][1] /\ s[d][2] = t[d][2]
      <4> SUFFICES ASSUME NEW d \in 1 .. (k - 1) PROVE s[d][1] = t[d][1] /\ s[d][2] = t[d][2]
        OBVIOUS
      <4> HIDE DEF m, p, old, sub
      <4>1. d \in DOMAIN sub /\ d \in DOMAIN old /\ sub[d] = old[d]
        BY <2>12
      <4>2. s[d][1] = NumberOf(<<sub[d][1], 1>>) /\ s[d][2] = sub[d][2]
        BY <2>11, <4>1
      <4>3. t[d][1] = NumberOf(<<old[d][1], 1>>) /\ t[d][2] = old[d][2]
        BY <2>1, <4>1
      <4> HIDE DEF s, t
      <4> QED
        BY <4>1, <4>2, <4>3
    <3> HIDE DEF s, t
    <3>3. \A d \in 1 .. (k - 1) : s[d] = t[d]
      <4> SUFFICES ASSUME NEW d \in 1 .. (k - 1) PROVE s[d] = t[d]
        OBVIOUS
      <4>1. s[d] \in T /\ t[d] \in T
        <5> HIDE DEF T
        <5>1. d \in 1 .. Len(s) /\ d \in 1 .. Len(t)
          BY <3>1
        <5> QED
          BY <3>1, <5>1
      <4>2. s[d] = <<s[d][1], s[d][2]>> /\ t[d] = <<t[d][1], t[d][2]>>
        BY <4>1
      <4> QED
        BY <3>2, <4>2
    <3> HIDE DEF T
    <3>4. s = u
      <4>1. u \in Seq(T) /\ Len(u) = k - 1 /\ \A d \in 1 .. (k - 1) : u[d] = t[d]
        BY <3>1
      <4>2. \A d \in 1 .. (k - 1) : u[d] = s[d]
        BY <3>3, <4>1
      <4> HIDE DEF u
      <4> QED
        BY <3>1, <4>1, <4>2
    <3> QED
      BY <3>4 DEF s, t, u
  <2>14. m \in 1 .. (o - 1) /\ IsBranch(prog, m)
    <3>1. prog[m].kind \in BranchKinds
      BY <2>4, <2>10
    <3>2. m \in 1 .. (o - 1)
      <4> HIDE DEF m, N
      <4> QED
        BY <1>1, <2>8, <2>9
    <3> QED
      BY <3>1, <3>2, Zenon DEF IsBranch
  <2>15. prog[o].path[k][2] = 2 => prog[m].kind = "if"
    BY <2>4, <2>5, <2>10
  <2> HIDE DEF m
  <2>16. /\ m \in 1 .. (o - 1) /\ IsBranch(prog, m)
         /\ prog[o].path[k][2] = 2 => prog[m].kind = "if"
         /\ prog[m].path = SubSeq(prog[o].path, 1, k - 1)
    BY <2>13, <2>14, <2>15
  <2> QED
    BY <2>16, Zenon DEF m
<1> QED
  BY <1>1, <1>2, Zenon DEF PathsNested, OpsOf

(* Below a branch: what comes after it and before another operation of it. *)
LEMMA BelowBranch ==
    ASSUME Ended, NEW p \in Checked, NEW q \in Checked, NEW k \in DOMAIN OpAt(p).path,
           NEW b, b = <<OpAt(p).path[k][1], 1>>, b # q, Before(b, q), Before(q, p)
    PROVE  /\ k \in DOMAIN OpAt(q).path
           /\ OpAt(q).path[k][1] = OpAt(p).path[k][1]
           /\ OpAt(q).path[k][2] <= OpAt(p).path[k][2]
<1>1. /\ p \in Places /\ q \in Places /\ LeftAt(p) /\ LeftAt(q)
  BY CheckedLeft
<1>2. /\ b \in Checked /\ b[1] < p[1] /\ b[1] \in DOMAIN source /\ source[b[1]].fn \in BranchKinds
  BY CheckedAround
<1>3. b \in Places
  BY <1>2, CheckedLeft
<1>4. /\ p[1] \in Nat /\ q[1] \in Nat /\ b[1] \in Nat /\ b[1] # 0
      /\ OpAt(p).path \in Seq((Nat \ {0}) \X {1, 2}) /\ OpAt(q).path \in Seq((Nat \ {0}) \X {1, 2})
  <2>1. p[1] \in Nat /\ q[1] \in Nat /\ b[1] \in Nat
    BY <1>1, <1>3, PathTyped DEF Ended
  <2>2. DOMAIN source = 1 .. Len(source)
    BY DEF Ended, TypeOKConversion, CallsTyped
  <2>3. b[1] # 0
    BY <1>2, <2>2
  <2> QED
    BY <1>1, <2>1, <2>3, PathTyped DEF Ended
<1>5. b[1] <= q[1] /\ q[1] <= p[1]
  BY <1>1, <1>3, OrderTotal DEF Ended
<1>6. b[1] # q[1]
  <2> SUFFICES ASSUME b[1] = q[1] PROVE FALSE
    OBVIOUS
  <2>1. q[2] = 1
    BY <1>1, <1>2, <1>4 DEF LeftAt
  <2>2. b[2] = 1
    OBVIOUS
  <2>3. b = <<b[1], b[2]>> /\ q = <<q[1], q[2]>>
    BY <1>1, <1>3, PlaceParts
  <2>4. b = q
    BY <2>1, <2>2, <2>3, Zenon
  <2> QED
    BY <2>4
<1>7. b[1] < q[1]
  BY <1>4, <1>5, <1>6
<1>8. /\ p[1] \in DOMAIN source /\ q[1] \in DOMAIN source
      /\ OpAt(p).path = source[p[1]].path /\ OpAt(q).path = source[q[1]].path
  <2>1. p[1] # 0 /\ q[1] # 0
    BY <1>4, <1>5, <1>7
  <2> QED
    BY <1>1, <2>1, PathTyped DEF LeftAt, Ended
<1>9. k \in 1 .. Len(OpAt(p).path) /\ b[1] = OpAt(p).path[k][1]
  BY <1>4
<1>10. CASE q[1] = p[1]
  <2>1. OpAt(q).path = OpAt(p).path
    BY <1>8, <1>10
  <2>2. OpAt(p).path[k] \in (Nat \ {0}) \X {1, 2}
    BY <1>4
  <2>3. OpAt(p).path[k][2] \in {1, 2}
    BY <2>2
  <2> QED
    BY <2>1, <2>3
<1>11. CASE q[1] < p[1]
  <2>1. /\ k \in 1 .. Len(source[p[1]].path)
        /\ source[p[1]].path[k][1] < q[1]
    BY <1>7, <1>8, <1>9
  <2>2. SourceNested
    BY DEF Ended
  <2>3. /\ Len(source[q[1]].path) >= k
        /\ source[q[1]].path[k][1] = source[p[1]].path[k][1]
        /\ source[q[1]].path[k][2] <= source[p[1]].path[k][2]
    BY <1>8, <1>11, <2>1, <2>2, SourceConsecutive
  <2>4. k \in DOMAIN OpAt(q).path
    <3> DEFINE s == OpAt(q).path
    <3>1. s \in Seq((Nat \ {0}) \X {1, 2}) /\ Len(s) >= k /\ k \in Nat \ {0}
      BY <1>4, <1>8, <2>1, <2>3
    <3> HIDE DEF s
    <3>2. k \in DOMAIN s
      BY <3>1
    <3> QED
      BY <3>2 DEF s
  <2> QED
    BY <1>8, <2>3, <2>4
<1> QED
  BY <1>4, <1>5, <1>10, <1>11

LEMMA ConvertedConsecutive ==
    ASSUME Ended
    PROVE  SubtreesConsecutive(ConvertedProgram)
<1> DEFINE prog == ConvertedProgram
           N == Cardinality(Checked)
<1>1. DOMAIN prog = 1 .. N /\ N \in Nat
  BY ConvertedTyped
<1>2. ASSUME NEW o \in 1 .. N, NEW k \in 1 .. Len(prog[o].path), NEW j \in 1 .. N,
             prog[o].path[k][1] < j, j < o
      PROVE  /\ Len(prog[j].path) >= k
             /\ prog[j].path[k][1] = prog[o].path[k][1]
             /\ prog[j].path[k][2] <= prog[o].path[k][2]
  <2> DEFINE p == PlaceOf(o)
             q == PlaceOf(j)
             old == OpAt(p).path
             at_j == OpAt(q).path
             b == <<old[k][1], 1>>
  <2>1. /\ p \in Checked /\ NumberOf(p) = o
        /\ Len(prog[o].path) = Len(old)
        /\ \A d \in DOMAIN old : /\ prog[o].path[d][1] = NumberOf(<<old[d][1], 1>>)
                                 /\ prog[o].path[d][2] = old[d][2]
    BY PlaceNumbered, Zenon
  <2>2. /\ q \in Checked /\ NumberOf(q) = j
        /\ Len(prog[j].path) = Len(at_j)
        /\ \A d \in DOMAIN at_j : /\ prog[j].path[d][1] = NumberOf(<<at_j[d][1], 1>>)
                                  /\ prog[j].path[d][2] = at_j[d][2]
    BY PlaceNumbered, Zenon
  <2>3. old \in Seq((Nat \ {0}) \X {1, 2}) /\ at_j \in Seq((Nat \ {0}) \X {1, 2})
    BY <2>1, <2>2, PathNumbered
  <2>4. k \in DOMAIN old
    BY <2>1, <2>3
  <2>5. b \in Checked
    BY <2>1, <2>4, CheckedAround
  <2> HIDE DEF b
  <2>6. NumberOf(b) < j
    BY <1>2, <2>1, <2>4 DEF b
  <2> HIDE DEF p, q
  <2>7. Before(b, q) /\ b # q /\ Before(q, p)
    BY <1>2, <2>1, <2>2, <2>5, <2>6, NumbersOrdered DEF Ended
  <2>8. k \in DOMAIN at_j /\ at_j[k][1] = old[k][1] /\ at_j[k][2] <= old[k][2]
    BY <2>1, <2>2, <2>4, <2>7, BelowBranch DEF b
  <2> HIDE DEF old, at_j
  <2>9. k <= Len(at_j)
    BY <2>3, <2>8
  <2> QED
    BY <2>1, <2>2, <2>4, <2>8, <2>9
<1> QED
  BY <1>1, <1>2, Zenon DEF SubtreesConsecutive, OpsOf

LEMMA ConvertedOperands ==
    ASSUME Ended
    PROVE  OperandsDefined(ConvertedProgram)
<1> DEFINE prog == ConvertedProgram
           N == Cardinality(Checked)
<1>1. DOMAIN prog = 1 .. N /\ N \in Nat
  BY ConvertedTyped
<1>2. ASSUME NEW o \in 1 .. N, prog[o].kind = "coll"
      PROVE  prog[o].comm \in 1 .. (o - 1) /\ prog[prog[o].comm].kind \in CommKinds
  <2> DEFINE p == PlaceOf(o)
             c == OpAt(p).comm
             m == prog[o].comm
  <2>1. /\ p \in Checked /\ NumberOf(p) = o
    BY PlaceNumbered, Zenon
  <2>2. OpAt(p).kind = "coll" /\ m = IF c \in Checked THEN NumberOf(c) ELSE 0
    BY <1>2, ConvertedSays, Zenon
  <2>3. p \in Places /\ LeftAt(p)
    BY <2>1, CheckedLeft
  <2>4. c # None
    <3>1. "coll" # "world" /\ "coll" \notin BranchKinds
      BY DEF BranchKinds
    <3> QED
      BY <2>2, <2>3, <3>1, Zenon DEF LeftAt
  <2>5. c \in Checked /\ OpAt(c).kind \in CommKinds /\ c[1] < p[1]
    BY <2>3, <2>4, CheckedComm
  <2>6. c \in Places
    BY <2>5, CheckedLeft
  <2> HIDE DEF p, c, m
  <2>7. Before(c, p) /\ c # p
    BY <2>3, <2>5, <2>6, OrderTotal DEF Ended
  <2>8. NumberOf(c) < o
    BY <2>1, <2>5, <2>7, NumbersOrdered DEF Ended
  <2>9. NumberOf(c) \in 1 .. N /\ PlaceOf(NumberOf(c)) = c
    BY <2>5, NumberTyped, PlaceOfNumber DEF Ended
  <2>10. m = NumberOf(c)
    BY <2>2, <2>5
  <2>11. m \in 1 .. (o - 1)
    <3> HIDE DEF N
    <3> QED
      BY <1>1, <2>8, <2>9, <2>10
  <2>12. prog[m].kind = OpAt(c).kind
    <3>1. prog[m].kind = OpAt(PlaceOf(m)).kind
      BY <2>9, <2>10, ConvertedSays, Zenon
    <3> QED
      BY <2>9, <2>10, <3>1
  <2> QED
    BY <2>5, <2>11, <2>12 DEF m
<1>3. ASSUME NEW o \in 1 .. N PROVE Len(prog[o].bounds) = 0
  <2>1. prog[o].bounds = <<>>
    BY ConvertedSays, Zenon
  <2> QED
    BY <2>1
<1>4. ASSUME NEW o \in 1 .. N
      PROVE  Len(prog[o].bounds) \in {0, 3} /\ (Len(prog[o].bounds) = 3 => prog[o].kind = "for")
  BY <1>3
<1> QED
  BY <1>1, <1>2, <1>4, Zenon DEF OperandsDefined, OpsOf

-----------------------------------------------------------------------------
(***************************************************************************)
(* The theorems.                                                           *)
(***************************************************************************)
(* In all states, the invariant of the conversions holds: what they know   *)
(* of the program is what its calls meant, and so is the text.             *)
THEOREM ConvInvAlways == SpecConversion => []ConvInv
<1>1. InitConversion => ConvInv
  BY InitKeeps
<1> QED
  BY <1>1, StepKeeps, PTL DEF SpecConversion

(***************************************************************************)
(* The statics of the conversions, which outlive each call, hold what the  *)
(* handlers take them to: communicators that operations of the text make,  *)
(* also where another conversion or the cleaning up has changed it.        *)
(***************************************************************************)
THEOREM TypeCorrectConversion == SpecConversion => []TypeOKConversion
<1>1. ConvInv => TypeOKConversion
  BY DEF ConvInv
<1> QED
  BY <1>1, ConvInvAlways, PTL

(***************************************************************************)
(* Whatever is still called once the declarations of a library's functions *)
(* and the functions that nothing calls are erased is still declared.      *)
(***************************************************************************)
THEOREM CallsDeclaredAlways == SpecConversion => []CallsDeclared
<1>1. ConvInv => CallsDeclared
  BY DEF ConvInv
<1> QED
  BY <1>1, ConvInvAlways, PTL

(***************************************************************************)
(* A collective, send or receive whose call has a request or is in an open *)
(* group is not marked as blocking, and one whose call has none is, unless *)
(* its communicator is configured to be non-blocking: for every program,   *)
(* whatever groups and splits come before it.                              *)
(***************************************************************************)
THEOREM BlocksAsMeantAlways == SpecConversion => []BlocksAsMeant
<1>1. ConvInv => BlocksAsMeant
  <2> SUFFICES ASSUME ConvInv, status \in {"walk", "done"}, NEW p \in Communications
               PROVE  /\ HasRequest(p[1]) => ~ OpAt(p).blocking
                      /\ ~ HasRequest(p[1]) => OpAt(p).blocking
    BY Zenon DEF BlocksAsMeant
  <2>1. TypeOKConversion /\ OpsMeant /\ p \in Places /\ OpAt(p).kind \in {"coll", "send", "recv"}
    BY DEF ConvInv, Communications
  <2>2. OpAt(p).blocking <=> BlocksFor(p[1])
    BY <2>1, Zenon DEF OpsMeant, OpMeant
  <2> QED
    BY <2>2, Zenon DEF BlocksFor, HasRequest
<1> QED
  BY <1>1, ConvInvAlways, PTL

(***************************************************************************)
(* Each operation is on the communicator that its call named, for programs *)
(* of any length and any mix of libraries, and is on a commWorld only if   *)
(* all processes belong to what the call named.                            *)
(***************************************************************************)
THEOREM CommunicatorMeantAlways == SpecConversion => []CommunicatorMeant
<1>1. ConvInv => CommunicatorMeant
  <2> SUFFICES ASSUME ConvInv, status \in {"walk", "done"}, NEW p \in Places, OpAt(p).comm # None
               PROVE  CommMeant(p[1], OpAt(p).comm)
    BY Zenon DEF CommunicatorMeant, CommMeant
  <2>1. OpsMeant
    BY DEF ConvInv
  <2> QED
    BY <2>1, Zenon DEF OpsMeant, OpMeant
<1> QED
  BY <1>1, ConvInvAlways, PTL

(***************************************************************************)
(* What the conversion leaves is a well-formed program, for programs of any*)
(* length, also when unused operations have been erased: what is left of a *)
(* communicator's uses keeps it, what is left in a region keeps the branch *)
(* around it, and the numbers given anew keep the order.                   *)
(***************************************************************************)
THEOREM ConvertedWellFormedAlways == SpecConversion => []ConvertedWellFormed
<1>1. ConvInv /\ ShapeInv => ConvertedWellFormed
  <2> SUFFICES ASSUME ConvInv, ShapeInv, status = "done", SetOnce
               PROVE  /\ WellFormed(ConvertedProgram)
                      /\ \A p \in Places : OpAt(p).comm # None =>
                            LET c == OpAt(p).comm IN
                                /\ OpAt(c).kind \in CommKinds
                                /\ Before(c, p) /\ Encloses(OpAt(c).path, OpAt(p).path)
    BY Zenon DEF ConvertedWellFormed
  <2>1. Ended
    BY DEF ConvInv, ShapeInv, Ended
  <2>2. WellFormed(ConvertedProgram)
    BY <2>1, ConvertedTyped, ConvertedNested, ConvertedConsecutive, ConvertedOperands, Zenon DEF WellFormed
  <2>3. ASSUME NEW p \in Places, NEW c, c = OpAt(p).comm, c # None
        PROVE  OpAt(c).kind \in CommKinds /\ Before(c, p) /\ Encloses(OpAt(c).path, OpAt(p).path)
    <3>1. /\ c \in Checked /\ OpAt(c).kind \in CommKinds
          /\ c[1] < p[1] /\ Encloses(OpAt(c).path, OpAt(p).path)
      BY <2>1, <2>3, CheckedComm
    <3> QED
      BY <3>1 DEF Before
  <2> QED
    BY <2>2, <2>3, Zenon
<1>2. InitConversion => ConvInv /\ ShapeInv
  BY InitKeeps, ShapeInit
<1>3. ConvInv /\ ShapeInv /\ [NextConversion]_convVars => ConvInv' /\ ShapeInv'
  BY StepKeeps, ShapeStep
<1> QED
  BY <1>1, <1>2, <1>3, PTL DEF SpecConversion

=============================================================================
