----------------------- MODULE ConvertRequests_proofs -----------------------
(***************************************************************************)
(* What holds of the requests of convert-apiCalls-to-spmd in all states:   *)
(* where a program has PlainRequests, each handler keeps the invariant     *)
(* below, so that waits are for the calls that the program waits for.      *)
(***************************************************************************)
EXTENDS ConvertApiCalls_proofs

(***************************************************************************)
(* The invariant about requests, for programs with PlainRequests.          *)
(***************************************************************************)
NotBlocking == {q \in Places : ~ OpAt(q).blocking}

NoEnd(j, k) == \A e \in j .. k : source[e].fn # "ncclGroupEnd"

(* Calls whose operations store a request that another call waits for.     *)
Stores(i) ==
    \/ /\ i \in RequestCalls /\ source[i].fn \in MPICommunicating
       /\ "mpi" \in Converters(usedModel)
    \/ /\ source[i].fn \in NCCLCommunication /\ InOpenGroup(i)
       /\ "nccl" \in Converters(usedModel)

StoredBy(i) == Stores(i) => 1 \in DOMAIN text[i] /\ ~ text[i][1].blocking

(* Where an operation stores its request: in the array for the variable, in*)
(* one for the call, or in the one for the group, made for its first call. *)
InVariable(i, op) ==
    /\ i \in RequestCalls /\ source[i].fn \in MPICommunicating
    /\ op.mem = ArrayFor(source[i].req) /\ op.slot = FirstNamed(i)

InPair(i, k, op) ==
    /\ source[i].fn \in MPIExchanges \union MPIStarted
    /\ op.mem = ArrayOf(i) /\ op.slot \in {0, 1} /\ k = op.slot + 1

InGroup(i, op) ==
    \E g \in 1 .. i :
        /\ source[i].fn \in NCCLCommunication /\ InOpenGroup(i)
        /\ source[g].fn \in NCCLCommunication /\ NoEnd(g, i)
        /\ op.mem = ArrayOf(g)

StoreMeant(i, k, op) ==
    /\ op.kind \in {"coll", "send", "recv"}
    /\ InPair(i, k, op) \/ (k = 1 /\ (InVariable(i, op) \/ InGroup(i, op)))

StoresMeant ==
    \A q \in NotBlocking : q[1] \in 1 .. at /\ StoreMeant(q[1], q[2], OpAt(q))

(* No element of an array that is of one call or group is used twice.      *)
ElementsApart ==
    \A q, r \in NotBlocking :
        OpAt(q).mem = OpAt(r).mem /\ OpAt(q).slot = OpAt(r).slot /\ OpAt(q).mem.call # 0 => q = r

(* The group that is open has the operations since the last end of one.    *)
GroupFilled ==
    /\ nccl.num # 0 =>
        /\ "nccl" \in Converters(usedModel)
        /\ \E g \in 1 .. at :
            /\ source[g].fn \in NCCLCommunication /\ NoEnd(g, at) /\ nccl.group = ArrayOf(g)
    /\ \A q \in NotBlocking :
        source[q[1]].fn \in NCCLCommunication /\ NoEnd(q[1], at) =>
            OpAt(q).mem = nccl.group /\ OpAt(q).slot < nccl.num

RequestsKnown ==
    \A r \in mpi.requests :
        \E i \in RequestCalls : source[i].fn \in MPICommunicating /\ source[i].req = r

(* A wait ahead that an MPI_Isendrecv has been given.                      *)
GivenBy(i, j) ==
    /\ source[i].fn = "MPI_Wait" /\ source[i].idx = <<>>
    /\ source[j].fn \in MPIStarted /\ source[j].req = source[i].req
    /\ text[i] = <<WaitFor(i, ArrayOf(j), 2)>>
    /\ \A k \in {1, 2} : k \in DOMAIN text[j] /\ ~ text[j][k].blocking

GivenOrCall(i) == text[i] = InitialText(source)[i] \/ \E j \in 1 .. at : GivenBy(i, j)

AnswersMeant(p) ==
    /\ OpAt(p).mem # NoArray
    /\ {q[1] : q \in StoredFor(OpAt(p), p[1])} = AwaitedBy(p[1])

WaitsAnswered == \A p \in Places : OpAt(p).kind = "wait" /\ p[1] <= at => AnswersMeant(p)

RequestsMeant ==
    /\ \A i \in 1 .. at : StoredBy(i)
    /\ StoresMeant /\ ElementsApart /\ GroupFilled /\ RequestsKnown
    /\ \A i \in DOMAIN source : i > at => GivenOrCall(i)
    /\ WaitsAnswered

RequestInv ==
    /\ status \in {"start", "walk"} /\ PlainRequests => RequestsMeant
    /\ WaitsMeant

-----------------------------------------------------------------------------
(***************************************************************************)
(* The text that a step leaves, as far as requests go.                     *)
(***************************************************************************)
TextNext(i, ops, waits) ==
    /\ DOMAIN text' = DOMAIN text /\ i \in DOMAIN text' /\ text'[i] = ops
    /\ \A j \in 1 .. at : text'[j] = text[j] /\ j \in DOMAIN text /\ j \in DOMAIN text'
    /\ \A j \in DOMAIN source : j > i =>
        text'[j] = IF j \in waits THEN <<WaitFor(j, ArrayOf(i), 2)>> ELSE text[j]
    /\ \A p \in Places : p[1] <= at => p \in Places' /\ OpAt(p)' = OpAt(p)
    /\ \A p \in Places' : p[1] # i =>
        \/ p \in Places /\ OpAt(p)' = OpAt(p)
        \/ OpAt(p)'.blocking /\ ((p[1] = 0 /\ OpAt(p)'.kind # "wait") \/ p[1] > i)

(* A wait is made of the array and the count.                              *)
LEMMA WaitIs ==
    ASSUME NEW j, NEW mem, NEW count
    PROVE  LET w == WaitFor(j, mem, count) IN
            /\ w.kind = "wait" /\ w.type = "waitAll" /\ w.blocking /\ w.mem = mem /\ w.count = count
            /\ w.slot = 0 /\ <<w>>[1] = w /\ DOMAIN <<w>> = {1} /\ Len(<<w>>) = 1
<1>1. WaitFor(j, mem, count) =
        [kind |-> "wait", path |-> source[j].path, type |-> "waitAll", blocking |-> TRUE,
         comm |-> None, mem |-> mem, slot |-> 0, count |-> count, args |-> <<>>]
  <2> DEFINE op == Op(j, "wait", "waitAll", None)
  <2>1. op = [kind |-> "wait", path |-> source[j].path, type |-> "waitAll", blocking |-> TRUE,
              comm |-> None, mem |-> NoArray, slot |-> 0, count |-> 0, args |-> <<>>]
    BY Zenon DEF Op, Made
  <2>2. WaitFor(j, mem, count) = [op EXCEPT !.mem = mem, !.count = count]
    BY Zenon DEF WaitFor
  <2> HIDE DEF op
  <2> QED
    BY <2>1, <2>2
<1> DEFINE w == WaitFor(j, mem, count)
<1>2. w.kind = "wait" /\ w.type = "waitAll" /\ w.blocking /\ w.mem = mem /\ w.count = count /\ w.slot = 0
  BY <1>1
<1> HIDE DEF w
<1>3. <<w>>[1] = w /\ DOMAIN <<w>> = {1} /\ Len(<<w>>) = 1
  OBVIOUS
<1> QED
  BY <1>2, <1>3 DEF w

LEMMA TextFollows ==
    ASSUME NEW i, Comes(i), NEW comm, NEW ops,
           NEW waits \in SUBSET {j \in DOMAIN source : j > i},
           Rewritten(i, comm, ops, waits)
    PROVE  TextNext(i, ops, waits)
<1>1. /\ i = at + 1 /\ i \in 1 .. Len(source) /\ at \in Nat
      /\ DOMAIN source = 1 .. Len(source) /\ Len(source) \in Nat
  BY ComesSays
<1>2. DOMAIN text = 0 .. Len(source) /\ text[0] \in Seq(TextOp)
  BY <1>1, ComesSays DEF TypeOKConversion
<1>3. DOMAIN text' = DOMAIN text
  BY DEF Rewritten
<1>4. text'[i] = ops /\ i \in DOMAIN text'
  <2>1. i \in DOMAIN text
    BY <1>1, <1>2
  <2> QED
    BY <1>3, <2>1, Zenon DEF Rewritten
<1>5. ASSUME NEW j \in DOMAIN text, j # i, j # 0
      PROVE  text'[j] = IF j \in waits THEN <<WaitFor(j, ArrayOf(i), 2)>> ELSE text[j]
  BY <1>5, Zenon DEF Rewritten
<1>6. text'[0] = text[0] \/ text'[0] = Append(text[0], StartWorld)
  <2>1. 0 \in DOMAIN text /\ 0 # i /\ 0 \notin waits
    BY <1>1, <1>2
  <2> QED
    BY <2>1, Zenon DEF Rewritten
<1>7. ASSUME NEW j \in 1 .. at PROVE text'[j] = text[j] /\ j \in DOMAIN text /\ j \in DOMAIN text'
  <2>1. j \in DOMAIN text /\ j # i /\ j # 0 /\ j \notin waits
    BY <1>1, <1>2
  <2> QED
    BY <1>3, <1>5, <2>1
<1>8. ASSUME NEW j \in DOMAIN source, j > i
      PROVE  text'[j] = IF j \in waits THEN <<WaitFor(j, ArrayOf(i), 2)>> ELSE text[j]
  <2>1. j \in DOMAIN text /\ j # i /\ j # 0
    BY <1>1, <1>2, <1>8
  <2> QED
    BY <1>5, <2>1
<1>9. /\ \A k \in DOMAIN text[0] : k \in DOMAIN text'[0] /\ text'[0][k] = text[0][k]
      /\ \A k \in DOMAIN text'[0] : k \in DOMAIN text[0] \/ text'[0][k] = StartWorld
  <2> DEFINE s == text[0]
  <2>1. s \in Seq(TextOp)
    BY <1>2
  <2> HIDE DEF s
  <2>2. /\ \A k \in DOMAIN s : k \in DOMAIN Append(s, StartWorld) /\ Append(s, StartWorld)[k] = s[k]
        /\ \A k \in DOMAIN Append(s, StartWorld) :
                k \in DOMAIN s \/ Append(s, StartWorld)[k] = StartWorld
    BY <2>1, WorldTyped
  <2> QED
    BY <1>6, <2>2 DEF s
<1>10. ASSUME NEW p \in Places, p[1] <= at PROVE p \in Places' /\ OpAt(p)' = OpAt(p)
  <2>1. p = <<p[1], p[2]>> /\ p[1] \in DOMAIN text /\ p[2] \in DOMAIN text[p[1]]
    BY PlaceParts
  <2>2. p[1] = 0 \/ p[1] \in 1 .. at
    BY <1>1, <1>2, <1>10, <2>1
  <2>3. p[2] \in DOMAIN text'[p[1]] /\ text'[p[1]][p[2]] = text[p[1]][p[2]]
    BY <1>7, <1>9, <2>1, <2>2
  <2> QED
    BY <1>3, <2>1, <2>3, PlaceParts DEF OpAt
<1>11. ASSUME NEW p \in Places', p[1] # i
       PROVE  \/ p \in Places /\ OpAt(p)' = OpAt(p)
              \/ OpAt(p)'.blocking /\ ((p[1] = 0 /\ OpAt(p)'.kind # "wait") \/ p[1] > i)
  <2>1. p = <<p[1], p[2]>> /\ p[1] \in DOMAIN text /\ p[2] \in DOMAIN text'[p[1]]
    BY <1>3, PlaceParts
  <2>2. OpAt(p)' = text'[p[1]][p[2]] /\ OpAt(p) = text[p[1]][p[2]]
    BY DEF OpAt
  <2>3. CASE p[1] = 0
    <3>1. CASE p[2] \in DOMAIN text[0]
      BY <1>9, <2>1, <2>2, <2>3, <3>1, PlaceParts
    <3>2. CASE p[2] \notin DOMAIN text[0]
      <4>1. OpAt(p)' = StartWorld
        BY <1>9, <2>1, <2>2, <2>3, <3>2
      <4>2. StartWorld.blocking /\ StartWorld.kind # "wait"
        BY DEF StartWorld, Made
      <4> QED
        BY <1>1, <2>3, <4>1, <4>2
    <3> QED
      BY <3>1, <3>2
  <2>4. CASE p[1] # 0 /\ p[1] \notin waits
    <3>1. text'[p[1]] = text[p[1]]
      BY <1>5, <1>11, <2>1, <2>4
    <3> QED
      BY <2>1, <2>2, <3>1, PlaceParts
  <2>5. CASE p[1] \in waits
    <3> DEFINE w == WaitFor(p[1], ArrayOf(i), 2)
    <3>1. p[1] > i /\ p[1] # 0
      BY <1>1, <2>5
    <3>2. text'[p[1]] = <<w>>
      BY <1>5, <1>11, <2>1, <2>5, <3>1, Zenon
    <3>3. w.blocking /\ <<w>>[1] = w /\ DOMAIN <<w>> = {1}
      BY WaitIs
    <3> HIDE DEF w
    <3>4. p[2] = 1
      BY <2>1, <3>2, <3>3
    <3>5. OpAt(p)' = w
      BY <2>2, <3>2, <3>3, <3>4
    <3> QED
      BY <1>1, <3>1, <3>3, <3>5
  <2> QED
    BY <2>3, <2>4, <2>5
<1> QED
  BY <1>3, <1>4, <1>7, <1>8, <1>10, <1>11, Zenon DEF TextNext

(* The operations that do not block are those before, and new ones.        *)
LEMMA NotBlockingNext ==
    ASSUME NEW i, Comes(i), StoresMeant, NEW ops, NEW waits, TextNext(i, ops, waits)
    PROVE  /\ \A q \in NotBlocking : q \in NotBlocking' /\ OpAt(q)' = OpAt(q) /\ q[1] \in 1 .. at
           /\ \A q \in NotBlocking' :
                \/ q \in NotBlocking /\ OpAt(q)' = OpAt(q) /\ q[1] \in 1 .. at
                \/ /\ q = <<i, q[2]>> /\ q[1] = i /\ q[2] \in DOMAIN ops
                   /\ OpAt(q)' = ops[q[2]] /\ ~ ops[q[2]].blocking
           /\ \A k \in DOMAIN ops :
                /\ <<i, k>> \in Places' /\ OpAt(<<i, k>>)' = ops[k]
                /\ ~ ops[k].blocking => <<i, k>> \in NotBlocking'
<1>1. i = at + 1 /\ at \in Nat /\ i \in Nat
  BY ComesSays
<1>2. ASSUME NEW q \in NotBlocking
      PROVE  q \in NotBlocking' /\ OpAt(q)' = OpAt(q) /\ q[1] \in 1 .. at
  <2>1. q \in Places /\ ~ OpAt(q).blocking /\ q[1] \in 1 .. at
    BY DEF NotBlocking, StoresMeant
  <2>2. q[1] <= at
    BY <1>1, <2>1
  <2>3. q \in Places' /\ OpAt(q)' = OpAt(q)
    BY <2>1, <2>2 DEF TextNext
  <2> QED
    BY <2>1, <2>3 DEF NotBlocking
<1>3. ASSUME NEW q \in NotBlocking'
      PROVE  \/ q \in NotBlocking /\ OpAt(q)' = OpAt(q) /\ q[1] \in 1 .. at
             \/ /\ q = <<i, q[2]>> /\ q[1] = i /\ q[2] \in DOMAIN ops
                /\ OpAt(q)' = ops[q[2]] /\ ~ ops[q[2]].blocking
  <2>1. q \in Places' /\ ~ OpAt(q)'.blocking
    BY DEF NotBlocking
  <2>2. q = <<q[1], q[2]>> /\ q[2] \in DOMAIN text'[q[1]] /\ OpAt(q)' = text'[q[1]][q[2]]
    BY <2>1, PlaceParts DEF OpAt
  <2>3. CASE q[1] = i
    BY <2>1, <2>2, <2>3 DEF TextNext
  <2>4. CASE q[1] # i
    <3>1. q \in Places /\ OpAt(q)' = OpAt(q)
      BY <2>1, <2>4 DEF TextNext
    <3>2. q \in NotBlocking
      BY <2>1, <3>1 DEF NotBlocking
    <3> QED
      BY <1>2, <3>1, <3>2
  <2> QED
    BY <2>3, <2>4
<1>4. ASSUME NEW k \in DOMAIN ops
      PROVE  /\ <<i, k>> \in Places' /\ OpAt(<<i, k>>)' = ops[k]
             /\ ~ ops[k].blocking => <<i, k>> \in NotBlocking'
  <2> DEFINE p == <<i, k>>
  <2>1. p[1] = i /\ p[2] = k /\ p = <<p[1], p[2]>>
    OBVIOUS
  <2> HIDE DEF p
  <2>2. p \in Places' /\ OpAt(p)' = ops[k]
    BY <2>1, PlaceParts DEF TextNext, OpAt
  <2>3. ~ ops[k].blocking => p \in NotBlocking'
    BY <2>2 DEF NotBlocking
  <2> QED
    BY <2>2, <2>3 DEF p
<1> QED
  BY <1>2, <1>3, <1>4

(* What the source says stays.                                             *)
LEMMA SourceStays ==
    ASSUME source' = source, usedModel' = usedModel
    PROVE  /\ RequestCalls' = RequestCalls /\ \A j : GroupOf(j)' = GroupOf(j)
           /\ \A j : Stores(j)' <=> Stores(j)
           /\ \A j, k, op : StoreMeant(j, k, op)' <=> StoreMeant(j, k, op)
           /\ \A j, k : NoEnd(j, k)' <=> NoEnd(j, k)
           /\ \A j : AwaitedBy(j)' = AwaitedBy(j)
           /\ InitialText(source)' = InitialText(source)
           /\ PlainRequests' <=> PlainRequests
<1>1. RequestCalls' = RequestCalls
  BY Zenon DEF RequestCalls
<1>2. \A j : InOpenGroup(j)' <=> InOpenGroup(j)
  BY Zenon DEF InOpenGroup
<1>3. \A j : Stores(j)' <=> Stores(j)
  BY <1>1, <1>2, Zenon DEF Stores
<1>4. \A j, k : NoEnd(j, k)' <=> NoEnd(j, k)
  BY Zenon DEF NoEnd
<1>5. \A j : FirstNamed(j)' = FirstNamed(j)
  BY Zenon DEF FirstNamed
<1>6. ASSUME NEW j, NEW k, NEW op PROVE StoreMeant(j, k, op)' <=> StoreMeant(j, k, op)
  <2>1. InVariable(j, op)' <=> InVariable(j, op)
    BY <1>1, <1>5, Zenon DEF InVariable
  <2>2. InPair(j, k, op)' <=> InPair(j, k, op)
    BY Zenon DEF InPair
  <2>3. InGroup(j, op)' <=> InGroup(j, op)
    BY <1>2, <1>4, Zenon DEF InGroup
  <2> QED
    BY <2>1, <2>2, <2>3, Zenon DEF StoreMeant
<1>7. \A j : GroupOf(j)' = GroupOf(j)
  BY Zenon DEF GroupOf
<1>8. \A j : AwaitedBy(j)' = AwaitedBy(j)
  <2>1. \A j : ElementsNamed(j)' = ElementsNamed(j)
    BY <1>5, Zenon DEF ElementsNamed
  <2> QED
    BY <1>1, <1>5, <1>7, <2>1, Zenon DEF AwaitedBy
<1>9. InitialText(source)' = InitialText(source)
  BY Zenon
<1>10. PlainRequests' <=> PlainRequests
  BY <1>1, Zenon DEF PlainRequests
<1> QED
  BY <1>1, <1>3, <1>4, <1>6, <1>7, <1>8, <1>9, <1>10

(* What a visited wait is for stays: it is before the walk.                *)
LEMMA AnswersStay ==
    ASSUME NEW i, Comes(i), StoresMeant, NEW ops, NEW waits, TextNext(i, ops, waits),
           NEW p \in Places, p[1] <= at, AnswersMeant(p)
    PROVE  AnswersMeant(p)'
<1>1. i = at + 1 /\ at \in Nat /\ source' = source /\ usedModel' = usedModel
  BY ComesSays
<1>2. p \in Places' /\ OpAt(p)' = OpAt(p)
  BY DEF TextNext
<1>3. p[1] \in Nat
  <2>1. TypeOKConversion
    BY ComesSays
  <2> QED
    BY <2>1, PlaceTyped
<1> DEFINE S == StoredFor(OpAt(p), p[1])
           T == StoredFor(OpAt(p), p[1])'
<1>4. \A q : q \in S <=> /\ q \in NotBlocking /\ q[1] <= p[1] /\ OpAt(q).mem = OpAt(p).mem
                         /\ OpAt(q).slot \in 0 .. (OpAt(p).count - 1)
  BY Zenon DEF StoredFor, NotBlocking
<1>5. \A q : q \in T <=> /\ q \in NotBlocking' /\ q[1] <= p[1] /\ OpAt(q)'.mem = OpAt(p)'.mem
                         /\ OpAt(q)'.slot \in 0 .. (OpAt(p)'.count - 1)
  BY Zenon DEF StoredFor, NotBlocking
<1>6. ASSUME NEW q \in S PROVE q \in T
  <2>1. q \in NotBlocking
    BY <1>4, Zenon
  <2>2. q \in NotBlocking' /\ OpAt(q)' = OpAt(q)
    BY <2>1, NotBlockingNext
  <2> QED
    BY <1>2, <1>4, <1>5, <2>2, Zenon
<1>7. ASSUME NEW q \in T PROVE q \in S
  <2>1. q \in NotBlocking' /\ q[1] <= p[1]
    BY <1>5, Zenon
  <2>2. q[1] # i
    BY <1>1, <1>3, <2>1
  <2>3. q \in NotBlocking /\ OpAt(q)' = OpAt(q)
    BY <2>1, <2>2, NotBlockingNext
  <2> QED
    BY <1>2, <1>4, <1>5, <2>3, Zenon
<1>8. T = S
  BY <1>6, <1>7
<1>9. NoArray' = NoArray
  BY DEF NoArray
<1> HIDE DEF S, T
<1>10. AnswersMeant(p)' <=> OpAt(p)'.mem # NoArray' /\ {q[1] : q \in T} = AwaitedBy(p[1])'
  BY Zenon DEF AnswersMeant, T
<1>11. AnswersMeant(p) <=> OpAt(p).mem # NoArray /\ {q[1] : q \in S} = AwaitedBy(p[1])
  BY Zenon DEF AnswersMeant, S
<1> QED
  BY <1>1, <1>2, <1>8, <1>9, <1>10, <1>11, SourceStays, Zenon

(***************************************************************************)
(* A step keeps what is known of requests if the operations that it makes  *)
(* store theirs where they should, and its waits are for what is meant.    *)
(***************************************************************************)
ComesPlain(i) == Comes(i) /\ RequestsMeant /\ PlainRequests

StoresGood(i, ops) ==
    /\ \A k \in DOMAIN ops : ~ ops[k].blocking => StoreMeant(i, k, ops[k])
    /\ \A k, l \in DOMAIN ops :
        /\ ~ ops[k].blocking /\ ~ ops[l].blocking
        /\ ops[k].mem = ops[l].mem /\ ops[k].slot = ops[l].slot /\ ops[k].mem.call # 0
        => k = l
    /\ \A k \in DOMAIN ops, q \in NotBlocking :
        ~ ops[k].blocking /\ ops[k].mem = OpAt(q).mem /\ ops[k].slot = OpAt(q).slot =>
            ops[k].mem.call = 0
    /\ Stores(i) => 1 \in DOMAIN ops /\ ~ ops[1].blocking

LEMMA RequestsKept ==
    ASSUME NEW i, ComesPlain(i), NEW ops, NEW waits, TextNext(i, ops, waits),
           StoresGood(i, ops), GroupFilled', RequestsKnown',
           \A j \in waits : GivenBy(j, i)',
           \A k \in DOMAIN ops : ops[k].kind = "wait" => AnswersMeant(<<i, k>>)'
    PROVE  RequestsMeant'
<1>1. /\ Comes(i) /\ RequestsMeant /\ i = at + 1 /\ at \in Nat /\ at' = i /\ i \in DOMAIN source
      /\ source' = source /\ usedModel' = usedModel
      /\ DOMAIN source = 1 .. Len(source)
  BY ComesSays DEF ComesPlain
<1>2. StoresMeant
  BY <1>1 DEF RequestsMeant
<1>3. \A j \in 1 .. at' : StoredBy(j)'
  <2>1. ASSUME NEW j \in 1 .. at', Stores(j)
        PROVE  1 \in DOMAIN text'[j] /\ ~ text'[j][1].blocking
    <3>1. CASE j = i
      BY <2>1, <3>1 DEF TextNext, StoresGood
    <3>2. CASE j # i
      <4>1. j \in 1 .. at
        BY <1>1, <3>2
      <4>2. StoredBy(j) /\ text'[j] = text[j]
        BY <1>1, <4>1 DEF RequestsMeant, TextNext
      <4> QED
        BY <2>1, <4>2 DEF StoredBy
    <3> QED
      BY <3>1, <3>2
  <2> QED
    BY <1>1, <2>1, SourceStays, Zenon DEF StoredBy
<1>4. StoresMeant'
  <2>1. ASSUME NEW q \in NotBlocking'
        PROVE  q[1] \in 1 .. at' /\ StoreMeant(q[1], q[2], OpAt(q)')
    <3>1. CASE q \in NotBlocking /\ OpAt(q)' = OpAt(q) /\ q[1] \in 1 .. at
      <4>1. StoreMeant(q[1], q[2], OpAt(q))
        BY <1>2, <3>1 DEF StoresMeant
      <4> QED
        BY <1>1, <3>1, <4>1
    <3>2. CASE /\ q[1] = i /\ q[2] \in DOMAIN ops
               /\ OpAt(q)' = ops[q[2]] /\ ~ ops[q[2]].blocking
      <4>1. StoreMeant(i, q[2], ops[q[2]])
        BY <3>2 DEF StoresGood
      <4> QED
        BY <1>1, <3>2, <4>1
    <3> QED
      BY <1>1, <1>2, <3>1, <3>2, NotBlockingNext
  <2>2. \A q : StoreMeant(q[1], q[2], OpAt(q))' <=> StoreMeant(q[1], q[2], OpAt(q)')
    <3>1. \A j, k, op : StoreMeant(j, k, op)' <=> StoreMeant(j, k, op)
      BY <1>1, SourceStays
    <3>2. \A q, op : op = OpAt(q)' =>
            (StoreMeant(q[1], q[2], OpAt(q))' <=> StoreMeant(q[1], q[2], op)')
      BY Zenon DEF StoreMeant, InPair, InVariable, InGroup
    <3> QED
      BY <3>1, <3>2, Zenon
  <2> QED
    BY <2>1, <2>2, Zenon DEF StoresMeant
<1>5. ElementsApart'
  <2> SUFFICES ASSUME NEW q \in NotBlocking', NEW r \in NotBlocking',
                      OpAt(q)'.mem = OpAt(r)'.mem, OpAt(q)'.slot = OpAt(r)'.slot,
                      OpAt(q)'.mem.call # 0
               PROVE  q = r
    BY Zenon DEF ElementsApart
  <2> DEFINE Old(p) == p \in NotBlocking /\ OpAt(p)' = OpAt(p)
             New(p) == /\ p = <<i, p[2]>> /\ p[2] \in DOMAIN ops
                       /\ OpAt(p)' = ops[p[2]] /\ ~ ops[p[2]].blocking
  <2>1. (Old(q) \/ New(q)) /\ (Old(r) \/ New(r))
    <3>1. \A p \in NotBlocking' : Old(p) \/ New(p)
      BY <1>1, <1>2, NotBlockingNext
    <3> QED
      BY <3>1
  <2>2. CASE Old(q) /\ Old(r)
    BY <1>1, <2>2 DEF RequestsMeant, ElementsApart
  <2>3. CASE New(q) /\ New(r)
    BY <2>3 DEF StoresGood
  <2>4. CASE New(q) /\ Old(r)
    BY <2>4, Zenon DEF StoresGood
  <2>5. CASE Old(q) /\ New(r)
    BY <2>5 DEF StoresGood
  <2> QED
    BY <2>1, <2>2, <2>3, <2>4, <2>5, Zenon
<1>6. ASSUME NEW j \in DOMAIN source, j > at' PROVE GivenOrCall(j)'
  <2>1. j > i /\ j > at
    BY <1>1, <1>6
  <2>2. text'[j] = IF j \in waits THEN <<WaitFor(j, ArrayOf(i), 2)>> ELSE text[j]
    BY <2>1 DEF TextNext
  <2>3. CASE j \in waits
    <3>1. GivenBy(j, i)' /\ i \in 1 .. at'
      BY <1>1, <2>3
    <3> QED
      BY <3>1, Zenon DEF GivenOrCall
  <2>4. CASE j \notin waits
    <3>1. text'[j] = text[j]
      BY <2>2, <2>4
    <3>2. GivenOrCall(j)
      BY <1>1, <2>1 DEF RequestsMeant
    <3>3. CASE text[j] = InitialText(source)[j]
      BY <1>1, <3>1, <3>3, SourceStays, Zenon DEF GivenOrCall
    <3>4. CASE \E d \in 1 .. at : GivenBy(j, d)
      <4>1. PICK d \in 1 .. at : GivenBy(j, d)
        BY <3>4
      <4>2. text'[d] = text[d] /\ d \in 1 .. at'
        BY <1>1, <4>1 DEF TextNext
      <4>3. WaitFor(j, ArrayOf(d), 2)' = WaitFor(j, ArrayOf(d), 2)
        BY <1>1, Zenon DEF WaitFor, Op, ArrayOf, NoArray
      <4>4. GivenBy(j, d)'
        BY <1>1, <3>1, <4>1, <4>2, <4>3, Zenon DEF GivenBy
      <4> QED
        BY <4>2, <4>4, Zenon DEF GivenOrCall
    <3> QED
      BY <3>2, <3>3, <3>4 DEF GivenOrCall
  <2> QED
    BY <2>3, <2>4
<1>7. WaitsAnswered'
  <2>1. ASSUME NEW p \in Places', OpAt(p)'.kind = "wait", p[1] <= at'
        PROVE  AnswersMeant(p)'
    <3>1. p = <<p[1], p[2]>> /\ p[1] \in DOMAIN text' /\ p[2] \in DOMAIN text'[p[1]]
          /\ OpAt(p)' = text'[p[1]][p[2]]
      BY PlaceParts DEF OpAt
    <3>2. CASE p[1] = i
      BY <2>1, <3>1, <3>2 DEF TextNext
    <3>3. CASE p[1] # i
      <4>1. p \in Places /\ OpAt(p)' = OpAt(p) /\ p[1] <= at
        <5>1. \/ p \in Places /\ OpAt(p)' = OpAt(p)
              \/ (p[1] = 0 /\ OpAt(p)'.kind # "wait") \/ p[1] > i
          BY <3>3 DEF TextNext
        <5>2. p[1] \in 0 .. Len(source)
          <6>1. TypeOKConversion
            BY <1>1, ComesSays
          <6> QED
            BY <3>1, <6>1 DEF TextNext, TypeOKConversion
        <5>3. Len(source) \in Nat
          BY <1>1, ComesSays
        <5> QED
          BY <1>1, <2>1, <3>3, <5>1, <5>2, <5>3
      <4>2. AnswersMeant(p)
        BY <1>1, <2>1, <4>1 DEF RequestsMeant, WaitsAnswered
      <4> QED
        BY <1>1, <1>2, <4>1, <4>2, AnswersStay
    <3> QED
      BY <3>2, <3>3
  <2> QED
    BY <2>1, Zenon DEF WaitsAnswered
<1> QED
  BY <1>1, <1>3, <1>4, <1>5, <1>6, <1>7, Zenon DEF RequestsMeant

LEMMA ComesPlainSays ==
    ASSUME NEW i, ComesPlain(i)
    PROVE  /\ Comes(i) /\ RequestsMeant /\ PlainRequests
           /\ StoresMeant /\ ElementsApart /\ GroupFilled /\ RequestsKnown /\ GivenOrCall(i)
           /\ i = at + 1 /\ at \in Nat /\ at' = i /\ i \in DOMAIN source /\ i \in Nat
           /\ source' = source /\ usedModel' = usedModel
           /\ DOMAIN source = 1 .. Len(source) /\ Len(source) \in Nat
           /\ NCCLTyped /\ NCCLRecord /\ MPITyped /\ StaticsMeant
<1>1. Comes(i) /\ RequestsMeant /\ PlainRequests
  BY DEF ComesPlain
<1>2. /\ i = at + 1 /\ at \in Nat /\ at' = i /\ i \in DOMAIN source /\ i \in Nat
      /\ source' = source /\ usedModel' = usedModel
      /\ DOMAIN source = 1 .. Len(source) /\ Len(source) \in Nat
  BY <1>1, ComesSays
<1>3. /\ StoresMeant /\ ElementsApart /\ GroupFilled /\ RequestsKnown /\ GivenOrCall(i)
  BY <1>1, <1>2 DEF RequestsMeant
<1>4. NCCLTyped /\ NCCLRecord /\ MPITyped /\ StaticsMeant
  BY <1>1, ComesSays
  DEF StaticsTyped, NCCLRecord, MPITyped, Walking, TypeOKConversion, NCCLTyped
<1> QED
  BY <1>1, <1>2, <1>3, <1>4

(* A step that adds nothing to a group.                                    *)
LEMMA GroupStaysFilled ==
    ASSUME NEW i, ComesPlain(i), NEW ops, NEW waits, TextNext(i, ops, waits),
           nccl'.group = nccl.group, nccl'.num = nccl.num,
           "nccl" \in Converters(usedModel) => source[i].fn # "ncclGroupEnd",
           source[i].fn \in NCCLCommunication => \A k \in DOMAIN ops : ops[k].blocking
    PROVE  GroupFilled'
<1>1. /\ Comes(i) /\ StoresMeant /\ GroupFilled /\ i = at + 1 /\ at \in Nat /\ at' = i
      /\ source' = source /\ usedModel' = usedModel
  BY ComesPlainSays
<1>2. ASSUME nccl.num # 0
      PROVE  /\ "nccl" \in Converters(usedModel)
             /\ \E g \in 1 .. at' :
                /\ source[g].fn \in NCCLCommunication /\ NoEnd(g, at') /\ nccl.group = ArrayOf(g)
  <2>1. /\ "nccl" \in Converters(usedModel)
        /\ \E g \in 1 .. at :
            /\ source[g].fn \in NCCLCommunication /\ NoEnd(g, at) /\ nccl.group = ArrayOf(g)
    BY <1>1, <1>2 DEF GroupFilled
  <2>2. PICK g \in 1 .. at :
            /\ source[g].fn \in NCCLCommunication /\ NoEnd(g, at) /\ nccl.group = ArrayOf(g)
    BY <2>1
  <2>3. g \in 1 .. at' /\ NoEnd(g, at')
    BY <1>1, <2>1, <2>2 DEF NoEnd
  <2> QED
    BY <2>1, <2>2, <2>3
<1>3. ASSUME NEW q \in NotBlocking', source[q[1]].fn \in NCCLCommunication, NoEnd(q[1], at')
      PROVE  OpAt(q)'.mem = nccl.group /\ OpAt(q)'.slot < nccl.num
  <2>1. q \in NotBlocking /\ OpAt(q)' = OpAt(q) /\ q[1] \in 1 .. at
    BY <1>1, <1>3, NotBlockingNext
  <2>2. NoEnd(q[1], at)
    BY <1>1, <1>3, <2>1 DEF NoEnd
  <2> QED
    BY <1>1, <1>3, <2>1, <2>2 DEF GroupFilled
<1>4. \A j, k : NoEnd(j, k)' <=> NoEnd(j, k)
  BY <1>1, SourceStays
<1>5. \A g : ArrayOf(g)' = ArrayOf(g)
  BY DEF ArrayOf, NoArray
<1> QED
  BY <1>1, <1>2, <1>3, <1>4, <1>5, Zenon DEF GroupFilled

LEMMA KnownStay ==
    ASSUME NEW i, ComesPlain(i), mpi'.requests = mpi.requests
    PROVE  RequestsKnown'
<1>1. RequestsKnown /\ source' = source /\ usedModel' = usedModel
  BY ComesPlainSays
<1> QED
  BY <1>1, SourceStays, Zenon DEF RequestsKnown

(***************************************************************************)
(* What most steps do: nothing that has to do with requests.               *)
(***************************************************************************)
Idle(op) == op.blocking /\ op.kind # "wait"

LEMMA IdleKept ==
    ASSUME NEW i, ComesPlain(i), NEW ops, TextNext(i, ops, {}), \A k \in DOMAIN ops : Idle(ops[k]),
           ~ Stores(i), nccl'.group = nccl.group, nccl'.num = nccl.num,
           mpi'.requests = mpi.requests,
           "nccl" \in Converters(usedModel) => source[i].fn # "ncclGroupEnd"
    PROVE  RequestsMeant'
<1>1. StoresGood(i, ops)
  BY DEF StoresGood, Idle
<1>2. GroupFilled'
  BY GroupStaysFilled DEF Idle
<1>3. RequestsKnown'
  BY KnownStay
<1>4. \A k \in DOMAIN ops : ops[k].kind = "wait" => AnswersMeant(<<i, k>>)'
  BY DEF Idle
<1> QED
  BY <1>1, <1>2, <1>3, <1>4, RequestsKept

LEMMA OpIs ==
    ASSUME NEW i, NEW k, NEW t, NEW c
    PROVE  Op(i, k, t, c).kind = k /\ Op(i, k, t, c).blocking /\ Op(i, k, t, c).mem = NoArray
<1>1. Op(i, k, t, c) =
        [kind |-> k, path |-> source[i].path, type |-> t, blocking |-> TRUE,
         comm |-> c, mem |-> NoArray, slot |-> 0, count |-> 0, args |-> <<>>]
  BY Zenon DEF Op, Made
<1> QED
  BY <1>1

LEMMA OpWith ==
    ASSUME NEW i, NEW k, NEW t, NEW c, NEW args, NEW b
    PROVE  /\ [Op(i, k, t, c) EXCEPT !.args = args, !.blocking = b].kind = k
           /\ [Op(i, k, t, c) EXCEPT !.args = args, !.blocking = b].blocking = b
           /\ [Op(i, k, t, c) EXCEPT !.args = args].kind = k
           /\ [Op(i, k, t, c) EXCEPT !.args = args].blocking
<1>1. Op(i, k, t, c) =
        [kind |-> k, path |-> source[i].path, type |-> t, blocking |-> TRUE,
         comm |-> c, mem |-> NoArray, slot |-> 0, count |-> 0, args |-> <<>>]
  BY Zenon DEF Op, Made
<1> QED
  BY <1>1

(* One operation in the place of a call.                                   *)
LEMMA OneIdle ==
    ASSUME NEW op, Idle(op)
    PROVE  \A k \in DOMAIN <<op>> : Idle(<<op>>[k])
<1>1. \A k \in DOMAIN <<op>> : <<op>>[k] = op
  OBVIOUS
<1> QED
  BY <1>1

LEMMA ReplacedFollows ==
    ASSUME NEW i, Comes(i), NEW comm, NEW ops, ReplaceBy(i, comm, ops)
    PROVE  TextNext(i, ops, {})
<1>1. Rewritten(i, comm, ops, {})
  BY Replaced
<1>2. {} \in SUBSET {j \in DOMAIN source : j > i}
  OBVIOUS
<1> QED
  BY <1>1, <1>2, TextFollows

(* A handler with one operation that has no request.                       *)
IdleAt(i) ==
    \E comm, ops : ReplaceBy(i, comm, ops) /\ \A k \in DOMAIN ops : Idle(ops[k])

LEMMA IdleAtKept ==
    ASSUME NEW i, ComesPlain(i), IdleAt(i),
           ~ Stores(i), nccl'.group = nccl.group, nccl'.num = nccl.num,
           mpi'.requests = mpi.requests,
           "nccl" \in Converters(usedModel) => source[i].fn # "ncclGroupEnd"
    PROVE  RequestsMeant'
<1>1. PICK comm, ops : ReplaceBy(i, comm, ops) /\ \A k \in DOMAIN ops : Idle(ops[k])
  BY DEF IdleAt
<1>2. Comes(i)
  BY ComesPlainSays
<1>3. TextNext(i, ops, {})
  BY <1>1, <1>2, ReplacedFollows
<1> QED
  BY <1>1, <1>3, IdleKept

LEMMA IdleOpAt ==
    ASSUME NEW i, NEW comm, NEW k, NEW t, NEW c, k # "wait", ReplaceBy(i, comm, <<Op(i, k, t, c)>>)
    PROVE  IdleAt(i)
<1>1. Idle(Op(i, k, t, c))
  BY OpIs DEF Idle
<1> QED
  BY <1>1, OneIdle, Zenon DEF IdleAt

(***************************************************************************)
(* The handlers of MPI's functions, as far as requests go.                 *)
(***************************************************************************)
LEMMA MPIStores ==
    ASSUME NEW i, ComesMPI(i)
    PROVE  /\ source[i].fn \notin NCCLCommunication /\ source[i].fn # "ncclGroupEnd"
           /\ Stores(i) => i \in RequestCalls /\ source[i].fn \in MPICommunicating
           /\ nccl'.group = nccl.group /\ nccl'.num = nccl.num
<1>1. source[i].fn \notin NCCLNames /\ nccl' = nccl
  BY ComesMPISays DEF ComesMPI
<1>2. source[i].fn \notin NCCLCommunication /\ source[i].fn # "ncclGroupEnd"
  BY <1>1, NCCLNamed DEF CalleesNCCL, NCCLNames
<1> QED
  BY <1>1, <1>2, Zenon DEF Stores

LEMMA IdleMPI ==
    ASSUME NEW i, ComesPlain(i), ComesMPI(i), IdleAt(i), mpi'.requests = mpi.requests,
           source[i].fn \notin MPICommunicating \/ source[i].req = NoName
    PROVE  RequestsMeant'
<1>1. ~ Stores(i)
  BY MPIStores DEF RequestCalls
<1> QED
  BY <1>1, MPIStores, IdleAtKept

LEMMA StaticRequests ==
    ASSUME MPITyped, NEW i
    PROVE  /\ NextStaticMPI(i).requests = mpi.requests
           /\ \A r : [NextStaticMPI(i) EXCEPT !.requests = @ \union {r}].requests = mpi.requests \union {r}
           /\ \A comms : [mpi EXCEPT !.comms = comms].requests = mpi.requests
           /\ \A c : [mpi EXCEPT !.implicit = c].requests = mpi.requests
<1> DEFINE comms == CommsMPI(i)
           args == ArgsMapped(mpi.args, source[i].args)
<1>1. mpi = [comms |-> mpi.comms, requests |-> mpi.requests, args |-> mpi.args,
             implicit |-> mpi.implicit]
  BY Zenon DEF MPITyped
<1>2. NextStaticMPI(i) = [mpi EXCEPT !.comms = comms, !.args = args]
  BY Zenon DEF NextStaticMPI
<1> HIDE DEF comms, args
<1>3. NextStaticMPI(i) = [comms |-> comms, requests |-> mpi.requests, args |-> args,
                          implicit |-> mpi.implicit]
  BY <1>1, <1>2
<1>4. \A r : [NextStaticMPI(i) EXCEPT !.requests = @ \union {r}].requests = mpi.requests \union {r}
  BY <1>3
<1>5. /\ \A c : [mpi EXCEPT !.comms = c].requests = mpi.requests
      /\ \A c : [mpi EXCEPT !.implicit = c].requests = mpi.requests
  BY <1>1
<1> QED
  BY <1>3, <1>4, <1>5

(* The kinds of operations without requests.                               *)
LEMMA NoWaits ==
    /\ "process" # "wait" /\ "query" # "wait" /\ "world" # "wait" /\ "split" # "wait"
    /\ "destroy" # "wait" /\ "memory" # "wait" /\ "coll" # "wait"
OBVIOUS

LEMMA NamesApartMPI ==
    /\ {"MPI_Init", "MPI_Finalize", "MPI_Comm_rank", "MPI_Comm_size", "MPI_Comm_split", "MPI_Comm_free",
        "MPI_Request_free", "MPI_Alloc_mem", "MPI_Free_mem"} \intersect MPICommunicating = {}
    /\ (MPIExchanges \union MPIStarted) \intersect MPICommunicating = {}
    /\ MPIWaiting \intersect (MPICommunicating \union MPIExchanges \union MPIStarted) = {}
    /\ Listed(MPISingleWaits) \intersect Listed(MPIWaits) = {}
    /\ "ncclGroupEnd" \notin MPIExchanges
<1>1. \A fn : fn \in Listed(MPISingleWaits) => fn \in {"MPI_Wait", "MPI_Test"}
  BY InList DEF MPISingleWaits
<1>2. \A fn : fn \in Listed(MPIWaits) =>
        fn \in {"MPI_Waitall", "MPI_Waitsome", "MPI_Waitany", "MPI_Testall", "MPI_Testsome", "MPI_Testany"}
  BY InList DEF MPIWaits
<1>3. \A fn : fn \in MPIWaiting => fn \in Listed(MPISingleWaits) \/ fn \in Listed(MPIWaits)
  BY DEF MPIWaiting, Listed
<1>4. \A fn : fn \in MPICommunicating => fn \in CommunicatingNames
  BY CommunicatingNamed
<1>5. \A fn \in CommunicatingNames :
        /\ fn \notin {"MPI_Init", "MPI_Finalize", "MPI_Comm_rank", "MPI_Comm_size", "MPI_Comm_split",
                "MPI_Comm_free", "MPI_Request_free", "MPI_Alloc_mem", "MPI_Free_mem"}
        /\ fn \notin MPIExchanges \union MPIStarted
        /\ fn \notin {"MPI_Wait", "MPI_Test"}
        /\ fn \notin {"MPI_Waitall", "MPI_Waitsome", "MPI_Waitany", "MPI_Testall", "MPI_Testsome", "MPI_Testany"}
  BY DEF CommunicatingNames, MPIExchanges, MPIStarted
<1>6. \A fn \in MPIExchanges \union MPIStarted :
        /\ fn \notin {"MPI_Wait", "MPI_Test"} /\ fn # "ncclGroupEnd"
        /\ fn \notin {"MPI_Waitall", "MPI_Waitsome", "MPI_Waitany", "MPI_Testall", "MPI_Testsome", "MPI_Testany"}
  BY DEF MPIExchanges, MPIStarted
<1> QED
  BY <1>1, <1>2, <1>3, <1>4, <1>5, <1>6

LEMMA IdleMPIMeant ==
    ASSUME NEW i, ComesPlain(i), ComesMPI(i),
           \/ ProcessMPI(i) \/ QueryMPI(i) \/ SplitMPI(i) \/ FreeMPI(i) \/ MemoryMPI(i)
           \/ RequestFreeMPI(i)
    PROVE  RequestsMeant'
<1>1. MPITyped
  BY ComesMPISays
<1>2. CASE ProcessMPI(i)
  <2>1. ReplaceBy(i, None, <<Op(i, "process", source[i].fn, None)>>)
    BY <1>2 DEF ProcessMPI
  <2>2. IdleAt(i)
    BY <2>1, IdleOpAt, NoWaits
  <2>3. mpi' = mpi /\ source[i].fn \notin MPICommunicating
    BY <1>2, NamesApartMPI DEF ProcessMPI, MPIProcess
  <2> QED
    BY <2>2, <2>3, IdleMPI
<1>3. CASE QueryMPI(i)
  <2>1. ReplaceBy(i, CommMPI(i), <<Op(i, "query", source[i].var, CommMPI(i))>>)
    BY <1>3 DEF QueryMPI
  <2>2. IdleAt(i)
    BY <2>1, IdleOpAt, NoWaits
  <2>3. mpi' = NextStaticMPI(i)
    BY <1>3 DEF QueryMPI
  <2>4. source[i].fn \notin MPICommunicating
    <3>1. source[i].fn \in {"MPI_Comm_rank", "MPI_Comm_size"}
      BY <1>3, InList DEF QueryMPI, MPIQueries
    <3> QED
      BY <3>1, NamesApartMPI
  <2> QED
    BY <1>1, <2>2, <2>3, <2>4, IdleMPI, StaticRequests
<1>4. CASE SplitMPI(i)
  <2>1. IdleAt(i)
    <3>1. \/ ReplaceBy(i, None, <<Op(i, "world", NoName, None)>>)
          \/ ReplaceBy(i, CommMPI(i), <<Op(i, "split", NoName, CommMPI(i))>>)
      BY <1>4, Zenon DEF SplitMPI
    <3>2. CASE ReplaceBy(i, None, <<Op(i, "world", NoName, None)>>)
      BY <3>2, IdleOpAt, NoWaits
    <3>3. CASE ReplaceBy(i, CommMPI(i), <<Op(i, "split", NoName, CommMPI(i))>>)
      BY <3>3, IdleOpAt, NoWaits
    <3> QED
      BY <3>1, <3>2, <3>3
  <2>2. \E comms : mpi' = [mpi EXCEPT !.comms = comms]
    BY <1>4, Zenon DEF SplitMPI
  <2>3. source[i].fn \notin MPICommunicating
    BY <1>4, NamesApartMPI DEF SplitMPI
  <2> QED
    BY <1>1, <2>1, <2>2, <2>3, IdleMPI, StaticRequests
<1>5. CASE FreeMPI(i)
  <2>1. ReplaceBy(i, None, <<Op(i, "destroy", NoName, CommMPI(i))>>)
    BY <1>5 DEF FreeMPI
  <2>2. IdleAt(i)
    BY <2>1, IdleOpAt, NoWaits
  <2>3. mpi' = mpi /\ source[i].fn \notin MPICommunicating
    BY <1>5, NamesApartMPI DEF FreeMPI
  <2> QED
    BY <2>2, <2>3, IdleMPI
<1>6. CASE MemoryMPI(i)
  <2>1. ReplaceBy(i, ImplicitMPI, <<Op(i, "memory", source[i].fn, ImplicitMPI)>>)
    BY <1>6 DEF MemoryMPI
  <2>2. IdleAt(i)
    BY <2>1, IdleOpAt, NoWaits
  <2>3. mpi' = [mpi EXCEPT !.implicit = ImplicitMPI] /\ source[i].fn \notin MPICommunicating
    BY <1>6, NamesApartMPI DEF MemoryMPI, MPIMemory
  <2> QED
    BY <1>1, <2>2, <2>3, IdleMPI, StaticRequests
<1>7. CASE RequestFreeMPI(i)
  <2>1. ReplaceBy(i, None, <<>>) /\ \A k \in DOMAIN <<>> : Idle(<<>>[k])
    BY <1>7 DEF RequestFreeMPI
  <2>2. IdleAt(i)
    BY <2>1, Zenon DEF IdleAt
  <2>3. mpi' = mpi /\ source[i].fn \notin MPICommunicating
    BY <1>7, NamesApartMPI DEF RequestFreeMPI
  <2> QED
    BY <2>2, <2>3, IdleMPI
<1> QED
  BY <1>2, <1>3, <1>4, <1>5, <1>6, <1>7

(* What an operation with a request is.                                    *)
LEMMA RequestIs ==
    ASSUME NEW op \in TextOp, NEW mem, NEW slot
    PROVE  /\ WithRequest(op, mem, slot).mem = mem /\ WithRequest(op, mem, slot).slot = slot
           /\ WithRequest(op, mem, slot).kind = op.kind /\ ~ WithRequest(op, mem, slot).blocking
BY DEF WithRequest, TextOp

LEMMA ArraysAre ==
    /\ NoArray.call = 0 /\ NoArray.var = NoName
    /\ \A r : ArrayFor(r).call = 0 /\ ArrayFor(r).var = r
    /\ \A i : ArrayOf(i).call = i /\ ArrayOf(i).var = NoName
BY DEF NoArray, ArrayFor, ArrayOf

LEMMA CommunicateMPIMeant ==
    ASSUME NEW i, ComesPlain(i), ComesMPI(i), CommunicateMPI(i)
    PROVE  RequestsMeant'
<1> DEFINE row == Entry(MPICommunication, source[i].fn)
           plain == OpMPI(i, row.kind, row.type)
           op == WithRequest(plain, ArrayFor(source[i].req), StoreSlot(i))
<1>1. /\ Comes(i) /\ MPITyped /\ source[i].fn \in MPICommunicating /\ CallTyped(source[i])
      /\ i \in DOMAIN source /\ source' = source /\ usedModel' = usedModel
      /\ "mpi" \in Converters(usedModel)
  BY ComesMPISays, ComesSays DEF CommunicateMPI
<1>2. /\ row.kind \in {"coll", "send", "recv"} /\ row.type \in CollectiveNames \union {NoName}
      /\ row.blocking \in BOOLEAN
  BY <1>1, MPIRows
<1>3. plain \in TextOp /\ plain.kind = row.kind /\ plain.blocking
  <2>1. row.kind \in TextKinds /\ row.type \in OpTypes
    BY <1>2 DEF TextKinds, OpTypes
  <2> HIDE DEF row
  <2> QED
    BY <2>1, OpMPITyped
<1>4. row.blocking <=> source[i].req = NoName
  BY <1>1, Zenon DEF CallTyped
<1>5. \/ row.blocking /\ ReplaceBy(i, CommMPI(i), <<plain>>) /\ mpi' = NextStaticMPI(i)
      \/ /\ ~ row.blocking /\ ReplaceBy(i, CommMPI(i), <<op>>)
         /\ mpi' = [NextStaticMPI(i) EXCEPT !.requests = @ \union {source[i].req}]
  BY <1>2, Zenon DEF CommunicateMPI
<1> HIDE DEF plain, row
<1>6. CASE row.blocking /\ ReplaceBy(i, CommMPI(i), <<plain>>) /\ mpi' = NextStaticMPI(i)
  <2>1. Idle(plain)
    BY <1>2, <1>3 DEF Idle
  <2>2. \A k \in DOMAIN <<plain>> : Idle(<<plain>>[k])
    BY <2>1, OneIdle
  <2>3. IdleAt(i)
    BY <1>6, <2>2, Zenon DEF IdleAt
  <2> QED
    BY <1>1, <1>4, <1>6, <2>3, IdleMPI, StaticRequests
<1>7. CASE /\ ~ row.blocking /\ ReplaceBy(i, CommMPI(i), <<op>>)
           /\ mpi' = [NextStaticMPI(i) EXCEPT !.requests = @ \union {source[i].req}]
  <2>1. /\ op.mem = ArrayFor(source[i].req) /\ op.slot = StoreSlot(i) /\ ~ op.blocking
        /\ op.kind = row.kind
    BY <1>3, RequestIs
  <2>2. i \in RequestCalls /\ StoreSlot(i) = FirstNamed(i)
    BY <1>1, <1>4, <1>7 DEF RequestCalls, StoreSlot, FirstNamed
  <2> HIDE DEF op
  <2> DEFINE ops == <<op>>
  <2>3. DOMAIN ops = {1} /\ ops[1] = op
    OBVIOUS
  <2>4. TextNext(i, ops, {})
    BY <1>1, <1>7, ReplacedFollows
  <2> HIDE DEF ops
  <2>5. StoreMeant(i, 1, op)
    BY <1>1, <1>2, <2>1, <2>2, Zenon DEF StoreMeant, InVariable
  <2>6. op.mem.call = 0
    BY <2>1, ArraysAre
  <2>7. StoresGood(i, ops)
    BY <2>1, <2>3, <2>5, <2>6 DEF StoresGood
  <2>8. GroupFilled'
    BY <2>4, MPIStores, GroupStaysFilled
  <2>9. RequestsKnown'
    <3>1. mpi'.requests = mpi.requests \union {source[i].req}
      BY <1>1, <1>7, StaticRequests
    <3>2. RequestsKnown /\ RequestCalls' = RequestCalls
      BY <1>1, ComesPlainSays, SourceStays
    <3> QED
      BY <1>1, <2>2, <3>1, <3>2 DEF RequestsKnown
  <2>10. \A k \in DOMAIN ops : ops[k].kind # "wait"
    BY <1>2, <2>1, <2>3
  <2> QED
    BY <2>4, <2>7, <2>8, <2>9, <2>10, RequestsKept
<1> QED
  BY <1>5, <1>6, <1>7

(* A wait is for what is meant if its operations are those found.          *)
LEMMA AnswersFound ==
    ASSUME NEW i, ComesPlain(i), NEW ops, NEW waits, TextNext(i, ops, waits),
           NEW k \in DOMAIN ops, ops[k].mem # NoArray,
           \A q \in NotBlocking' :
                OpAt(q)'.mem = ops[k].mem /\ OpAt(q)'.slot \in 0 .. (ops[k].count - 1) =>
                    q[1] \in AwaitedBy(i),
           \A j \in AwaitedBy(i) : \E q \in NotBlocking' :
                /\ q[1] = j /\ OpAt(q)'.mem = ops[k].mem
                /\ OpAt(q)'.slot \in 0 .. (ops[k].count - 1)
    PROVE  AnswersMeant(<<i, k>>)'
<1>1. /\ Comes(i) /\ StoresMeant /\ i = at + 1 /\ at \in Nat /\ source' = source
      /\ usedModel' = usedModel
  BY ComesPlainSays
<1> DEFINE p == <<i, k>>
           T == StoredFor(OpAt(p), p[1])'
<1>2. p \in Places' /\ OpAt(p)' = ops[k] /\ p[1] = i
  BY <1>1, NotBlockingNext
<1>3. \A q : q \in T <=> /\ q \in NotBlocking' /\ q[1] <= p[1] /\ OpAt(q)'.mem = OpAt(p)'.mem
                         /\ OpAt(q)'.slot \in 0 .. (OpAt(p)'.count - 1)
  BY Zenon DEF StoredFor, NotBlocking
<1>4. \A q \in NotBlocking' : q[1] <= i
  <2>1. \A q \in NotBlocking' : q[1] \in 1 .. at \/ q[1] = i
    BY <1>1, NotBlockingNext
  <2> QED
    BY <1>1, <2>1
<1> HIDE DEF p, T
<1>5. \A q \in T : q[1] \in AwaitedBy(i)
  BY <1>2, <1>3, Zenon
<1>6. \A j \in AwaitedBy(i) : \E q \in T : q[1] = j
  BY <1>2, <1>3, <1>4, Zenon
<1>7. {q[1] : q \in T} = AwaitedBy(i)
  BY <1>5, <1>6
<1>8. AwaitedBy(i)' = AwaitedBy(i) /\ NoArray' = NoArray
  BY <1>1, SourceStays DEF NoArray
<1>9. AnswersMeant(p)' <=> OpAt(p)'.mem # NoArray' /\ {q[1] : q \in T} = AwaitedBy(p[1])'
  BY Zenon DEF AnswersMeant, T
<1>10. AnswersMeant(p)'
  BY <1>2, <1>7, <1>8, <1>9, Zenon
<1> QED
  BY <1>10 DEF p

(* Operations before the walk's next call have no array of that call.      *)
LEMMA ArraysBefore ==
    ASSUME NEW i, ComesPlain(i), NEW q \in NotBlocking
    PROVE  OpAt(q).mem.call <= at /\ OpAt(q).mem.call < i /\ OpAt(q).mem # ArrayOf(i)
<1>1. i = at + 1 /\ at \in Nat /\ q[1] \in 1 .. at /\ StoreMeant(q[1], q[2], OpAt(q))
  BY ComesPlainSays DEF StoresMeant
<1>2. \/ OpAt(q).mem = ArrayOf(q[1])
      \/ OpAt(q).mem = ArrayFor(source[q[1]].req)
      \/ \E g \in 1 .. q[1] : OpAt(q).mem = ArrayOf(g)
  BY <1>1, Zenon DEF StoreMeant, InPair, InVariable, InGroup
<1>3. OpAt(q).mem.call \in 0 .. at
  BY <1>1, <1>2, ArraysAre
<1> QED
  BY <1>1, <1>3, ArraysAre

(* The two operations of an exchange.                                      *)
LEMMA ExchangeIs ==
    ASSUME NEW i, ComesMPI(i), source[i].fn \in MPIExchanges \union MPIStarted
    PROVE  /\ Exchange(i) \in Seq(TextOp) /\ DOMAIN Exchange(i) = {1, 2}
           /\ \A k \in {1, 2} :
                /\ Exchange(i)[k].kind \in {"send", "recv"} /\ ~ Exchange(i)[k].blocking
                /\ Exchange(i)[k].mem = ArrayOf(i) /\ Exchange(i)[k].slot = k - 1
<1> DEFINE sent == OpMPI(i, "send", NoName)
           received == OpMPI(i, "recv", NoName)
           s == WithRequest(sent, ArrayOf(i), 0)
           r == WithRequest(received, ArrayOf(i), 1)
<1>1. "send" \in TextKinds /\ "recv" \in TextKinds /\ NoName \in OpTypes
  BY DEF TextKinds, OpTypes
<1>2. sent \in TextOp /\ sent.kind = "send" /\ received \in TextOp /\ received.kind = "recv"
  BY <1>1, OpMPITyped
<1>3. /\ s.kind = "send" /\ s.mem = ArrayOf(i) /\ ~ s.blocking /\ s.slot = 0
      /\ r.kind = "recv" /\ r.mem = ArrayOf(i) /\ ~ r.blocking /\ r.slot = 1
  <2> HIDE DEF sent, received
  <2> QED
    BY <1>2, RequestIs
<1>4. Exchange(i) = <<s, r>> /\ Exchange(i) \in Seq(TextOp)
  BY ExchangeTyped DEF Exchange
<1> HIDE DEF s, r
<1>5. DOMAIN <<s, r>> = {1, 2} /\ <<s, r>>[1] = s /\ <<s, r>>[2] = r
  OBVIOUS
<1> QED
  BY <1>3, <1>4, <1>5

(* Operations that start with an exchange, and have no request after it.   *)
LEMMA ExchangeStores ==
    ASSUME NEW i, ComesPlain(i), ComesMPI(i), source[i].fn \in MPIExchanges \union MPIStarted,
           NEW ops, \A k \in {1, 2} : k \in DOMAIN ops /\ ops[k] = Exchange(i)[k],
           \A k \in DOMAIN ops \ {1, 2} : ops[k].blocking
    PROVE  StoresGood(i, ops)
<1>1. \A k \in {1, 2} : /\ ~ ops[k].blocking /\ ops[k].kind \in {"send", "recv"} /\ ops[k].mem = ArrayOf(i) /\ ops[k].slot = k - 1
  BY ExchangeIs
<1>2. ASSUME NEW k \in DOMAIN ops, ~ ops[k].blocking
      PROVE  /\ k \in {1, 2} /\ StoreMeant(i, k, ops[k])
             /\ \A q \in NotBlocking : ops[k].mem # OpAt(q).mem
  <2>1. k \in {1, 2}
    BY <1>2
  <2>2. InPair(i, k, ops[k])
    BY <1>1, <2>1 DEF InPair
  <2>3. \A q \in NotBlocking : ops[k].mem # OpAt(q).mem
    BY <1>1, <2>1, ArraysBefore
  <2> QED
    BY <1>1, <2>1, <2>2, <2>3 DEF StoreMeant
<1>3. ASSUME NEW k \in DOMAIN ops, NEW l \in DOMAIN ops, ~ ops[k].blocking, ~ ops[l].blocking,
             ops[k].slot = ops[l].slot
      PROVE  k = l
  BY <1>1, <1>2, <1>3
<1>4. ~ Stores(i)
  BY MPIStores, NamesApartMPI
<1> QED
  BY <1>2, <1>3, <1>4 DEF StoresGood

LEMMA SendrecvMPIMeant ==
    ASSUME NEW i, ComesPlain(i), ComesMPI(i), SendrecvMPI(i)
    PROVE  RequestsMeant'
<1> DEFINE wait == WaitFor(i, ArrayOf(i), 2)
           both == Exchange(i)
           ops == Append(both, wait)
<1>1. /\ Comes(i) /\ MPITyped /\ CallsTyped /\ i \in DOMAIN source /\ i \in 1 .. Len(source) /\ i = at + 1
      /\ at \in Nat /\ StoresMeant /\ source[i].fn \in MPIExchanges
      /\ ReplaceBy(i, CommMPI(i), ops) /\ mpi' = NextStaticMPI(i)
  BY ComesMPISays, ComesSays, ComesPlainSays DEF SendrecvMPI
<1>2. wait \in TextOp /\ wait.kind = "wait" /\ wait.blocking /\ wait.mem = ArrayOf(i) /\ wait.count = 2
  <2>1. ArrayOf(i) \in Array /\ 2 \in Nat
    BY <1>1 DEF ArrayOf, NoArray, Array
  <2> QED
    BY <1>1, <2>1, WaitTyped, WaitIs
<1>3. /\ both \in Seq(TextOp) /\ DOMAIN both = {1, 2}
      /\ \A k \in {1, 2} : /\ both[k].kind \in {"send", "recv"} /\ ~ both[k].blocking
                           /\ both[k].mem = ArrayOf(i) /\ both[k].slot = k - 1
  BY <1>1, ExchangeIs
<1>4. TextNext(i, ops, {})
  BY <1>1, ReplacedFollows
<1> HIDE DEF wait, both
<1>5. DOMAIN ops = 1 .. 3 /\ ops[3] = wait /\ \A k \in {1, 2} : ops[k] = both[k]
  <2> DEFINE S == TextOp
  <2>1. both \in Seq(S) /\ wait \in S
    BY <1>2, <1>3
  <2> HIDE DEF S
  <2>2. Len(both) = 2
    <3>1. Len(both) \in Nat /\ DOMAIN both = 1 .. Len(both)
      BY <2>1
    <3> QED
      BY <1>3, <3>1
  <2>3. ops \in Seq(S)
    BY <2>1
  <2>4. Len(ops) = Len(both) + 1
    BY <2>1
  <2>5. ops[Len(both) + 1] = wait
    BY <2>1
  <2>6. \A k \in 1 .. Len(both) : ops[k] = both[k]
    BY <2>1
  <2> HIDE DEF ops
  <2>7. DOMAIN ops = 1 .. 3
    BY <2>2, <2>3, <2>4
  <2> QED
    BY <2>2, <2>5, <2>6, <2>7
<1> HIDE DEF ops
<1>6. StoresGood(i, ops)
  BY <1>1, <1>2, <1>5, ExchangeStores DEF both
<1>7. GroupFilled'
  BY <1>4, MPIStores, GroupStaysFilled
<1>8. RequestsKnown'
  BY <1>1, KnownStay, StaticRequests
<1>9. AnswersMeant(<<i, 3>>)'
  <2>1. AwaitedBy(i) = {i}
    BY <1>1, Zenon DEF AwaitedBy
  <2>2. wait.mem # NoArray
    BY <1>1, <1>2, ArraysAre
  <2>3. ASSUME NEW q \in NotBlocking', OpAt(q)'.mem = wait.mem PROVE q[1] = i
    <3>1. CASE q \in NotBlocking /\ OpAt(q)' = OpAt(q)
      BY <1>2, <2>3, <3>1, ArraysBefore
    <3> QED
      BY <1>1, <1>4, <3>1, NotBlockingNext
  <2>4. \E q \in NotBlocking' :
            q[1] = i /\ OpAt(q)'.mem = wait.mem /\ OpAt(q)'.slot \in 0 .. (wait.count - 1)
    <3> DEFINE q == <<i, 1>>
    <3>1. 1 \in DOMAIN ops /\ ~ ops[1].blocking /\ ops[1].mem = ArrayOf(i) /\ ops[1].slot = 0
      BY <1>3, <1>5
    <3>2. q \in NotBlocking' /\ OpAt(q)' = ops[1] /\ q[1] = i
      BY <1>1, <1>4, <3>1, NotBlockingNext
    <3> HIDE DEF q
    <3> QED
      BY <1>2, <3>1, <3>2
  <2> QED
    BY <1>4, <1>5, <2>1, <2>2, <2>3, <2>4, AnswersFound
<1>10. \A k \in DOMAIN ops : ops[k].kind = "wait" => k = 3
  BY <1>3, <1>5
<1> QED
  BY <1>4, <1>6, <1>7, <1>8, <1>9, <1>10, RequestsKept

LEMMA IsendrecvMPIMeant ==
    ASSUME NEW i, ComesPlain(i), ComesMPI(i), IsendrecvMPI(i)
    PROVE  RequestsMeant'
<1> DEFINE waits == WaitsNaming(source[i].req)
           ops == Exchange(i)
<1>1. /\ Comes(i) /\ MPITyped /\ i = at + 1 /\ at \in Nat /\ source[i].fn \in MPIStarted
      /\ mpi' = NextStaticMPI(i) /\ source' = source
  BY ComesMPISays, ComesSays DEF IsendrecvMPI
<1>2. Rewritten(i, CommMPI(i), ops, waits)
  BY Zenon DEF IsendrecvMPI, Rewritten, StartWorld
<1>3. waits \in SUBSET {j \in DOMAIN source : j > i}
  BY <1>1, WaitsAhead
<1>4. /\ DOMAIN ops = {1, 2}
      /\ \A k \in {1, 2} : ops[k].kind \in {"send", "recv"} /\ ~ ops[k].blocking
  BY <1>1, ExchangeIs
<1>5. StoresGood(i, ops)
  BY <1>1, <1>4, ExchangeStores
<1>6. \A j \in waits : /\ source[j].fn = "MPI_Wait" /\ source[j].idx = <<>>
                       /\ source[j].req = source[i].req
  BY DEF WaitsNaming
<1> HIDE DEF ops, waits
<1>7. TextNext(i, ops, waits)
  BY <1>1, <1>2, <1>3, TextFollows
<1>8. GroupFilled'
  BY <1>1, <1>7, MPIStores, GroupStaysFilled
<1>9. RequestsKnown'
  BY <1>1, KnownStay, StaticRequests
<1>10. ASSUME NEW j \in waits PROVE GivenBy(j, i)'
  <2>1. text'[j] = <<WaitFor(j, ArrayOf(i), 2)>> /\ text'[i] = ops
    BY <1>3, <1>7, <1>10 DEF TextNext
  <2>2. WaitFor(j, ArrayOf(i), 2)' = WaitFor(j, ArrayOf(i), 2)
    BY <1>1, Zenon DEF WaitFor, Op, ArrayOf, NoArray
  <2>3. \A k \in {1, 2} : k \in DOMAIN text'[i] /\ ~ text'[i][k].blocking
    BY <1>4, <2>1
  <2> QED
    BY <1>1, <1>6, <1>10, <2>1, <2>2, <2>3, Zenon DEF GivenBy
<1>11. \A k \in DOMAIN ops : ops[k].kind # "wait"
  BY <1>4
<1> QED
  BY <1>5, <1>7, <1>8, <1>9, <1>10, <1>11, RequestsKept

(* A request that is stored for a variable that the walk has an array for. *)
LEMMA StoredInVariable ==
    ASSUME NEW i, ComesPlain(i), "mpi" \in Converters(usedModel),
           NEW r \in mpi.requests, NEW j \in RequestCalls, source[j].req = r, j \in 1 .. at
    PROVE  /\ <<j, 1>> \in NotBlocking
           /\ OpAt(<<j, 1>>).mem = ArrayFor(r) /\ OpAt(<<j, 1>>).slot = FirstNamed(j)
<1>1. PlainRequests /\ RequestsKnown /\ StoresMeant /\ TypeOKConversion /\ StoredBy(j)
  BY ComesPlainSays, ComesSays DEF RequestsMeant
<1>2. source[j].fn \in MPICommunicating
  <2>1. PICK e \in RequestCalls : source[e].fn \in MPICommunicating /\ source[e].req = r
    BY <1>1 DEF RequestsKnown
  <2>2. CASE source[j].fn \in MPIStarted
    <3>1. e = j
      BY <1>1, <2>1, <2>2 DEF PlainRequests, RequestCalls
    <3> QED
      BY <2>1, <3>1
  <2> QED
    BY <2>2 DEF RequestCalls
<1> DEFINE q == <<j, 1>>
<1>3. q[1] = j /\ q[2] = 1 /\ q = <<q[1], q[2]>>
  OBVIOUS
<1> HIDE DEF q
<1>4. 1 \in DOMAIN text[j] /\ ~ text[j][1].blocking
  BY <1>1, <1>2 DEF StoredBy, Stores
<1>5. j \in DOMAIN text
  BY ComesPlainSays, <1>1 DEF RequestCalls, TypeOKConversion
<1>6. q \in NotBlocking
  BY <1>3, <1>4, <1>5, PlaceParts DEF NotBlocking, OpAt
<1>7. StoreMeant(j, 1, OpAt(q))
  BY <1>1, <1>3, <1>6 DEF StoresMeant
<1>8. source[j].fn \notin MPIExchanges \union MPIStarted /\ source[j].fn \notin NCCLCommunication
  <2>1. source[j].fn \in Handles("mpi")
    BY <1>2, HandledNames DEF CalleesMPI
  <2>2. source[j].fn \notin NCCLCommunication
    BY <2>1, LibrariesApart, NCCLNamed DEF CalleesNCCL
  <2> QED
    BY <1>2, <2>2, NamesApartMPI
<1>9. InVariable(j, OpAt(q))
  BY <1>7, <1>8 DEF StoreMeant, InPair, InGroup
<1> QED
  BY <1>6, <1>9 DEF InVariable, q

(* Where an operation stores its request to the array of a variable.       *)
LEMMA VariableStored ==
    ASSUME NEW i, ComesPlain(i), NEW q \in NotBlocking, NEW r, OpAt(q).mem = ArrayFor(r)
    PROVE  /\ q[1] \in RequestCalls /\ source[q[1]].req = r /\ q[1] \in 1 .. at
           /\ OpAt(q).slot = FirstNamed(q[1])
<1>1. q[1] \in 1 .. at /\ StoreMeant(q[1], q[2], OpAt(q)) /\ at \in Nat
  BY ComesPlainSays DEF StoresMeant
<1>2. OpAt(q).mem.call = 0 /\ OpAt(q).mem.var = r
  BY ArraysAre
<1>3. InVariable(q[1], OpAt(q))
  BY <1>1, <1>2, ArraysAre DEF StoreMeant, InPair, InGroup
<1>4. OpAt(q).mem.var = source[q[1]].req
  BY <1>3, ArraysAre DEF InVariable
<1> QED
  BY <1>1, <1>2, <1>3, <1>4 DEF InVariable

LEMMA WaitMPIMeant ==
    ASSUME NEW i, ComesPlain(i), ComesMPI(i), WaitMPI(i)
    PROVE  RequestsMeant'
<1> DEFINE r == source[i].req
           single == source[i].fn \in Listed(MPISingleWaits)
           count == IF single THEN 1 ELSE source[i].count
<1>1. /\ Comes(i) /\ PlainRequests /\ CallsTyped /\ i \in DOMAIN source /\ source[i] \in ApiCall /\ i = at + 1
      /\ at \in Nat /\ r \in mpi.requests /\ mpi' = mpi /\ "mpi" \in Converters(usedModel)
      /\ source \in Seq(ApiCall) /\ RequestsKnown
  BY ComesMPISays, ComesSays, ComesPlainSays DEF WaitMPI, WaitKnown
<1>2. source[i].fn \in MPIWaiting
  BY Zenon DEF WaitMPI, MPIWaiting, Listed
<1>3. PICK type : ReplaceBy(i, None, <<[WaitFor(i, ArrayFor(r), count) EXCEPT !.type = type]>>)
  BY NamesApartMPI, Zenon DEF WaitMPI
<1> DEFINE wait == WaitFor(i, ArrayFor(r), count)
           op == [wait EXCEPT !.type = type]
           ops == <<op>>
<1>4. wait \in TextOp /\ wait.kind = "wait" /\ wait.blocking /\ wait.mem = ArrayFor(r) /\ wait.count = count
  <2>1. ArrayFor(r) \in Array
    BY <1>1 DEF ArrayFor, NoArray, Array
  <2>2. count \in Nat
    BY <1>1 DEF ApiCall
  <2> HIDE DEF count, r
  <2> QED
    BY <1>1, <2>1, <2>2, WaitTyped, WaitIs
<1>5. TextNext(i, ops, {})
  BY <1>1, <1>3, ReplacedFollows
<1>6. op.kind = "wait" /\ op.blocking /\ op.mem = ArrayFor(r) /\ op.count = count
  <2> HIDE DEF wait
  <2> QED
    BY <1>4 DEF TextOp
<1> HIDE DEF wait, op, count, single, r
<1>7. DOMAIN ops = {1} /\ ops[1] = op
  OBVIOUS
<1> HIDE DEF ops
<1>8. StoresGood(i, ops)
  <2>1. ~ Stores(i)
    BY <1>2, MPIStores, NamesApartMPI
  <2> QED
    BY <1>6, <1>7, <2>1 DEF StoresGood
<1>9. GroupFilled'
  BY <1>5, MPIStores, GroupStaysFilled
<1>10. RequestsKnown'
  BY <1>1, KnownStay
<1>11. AwaitedBy(i) = {j \in RequestCalls : j < i /\ source[j].req = r /\ FirstNamed(j) \in 0 .. (count - 1)}
  <2>1. source[i].fn \notin MPIExchanges /\ source[i].fn # "ncclGroupEnd"
    BY <1>2, MPIStores, NamesApartMPI
  <2>2. FirstNamed(i) = 0
    <3>1. source[i].idx \in {<<>>, <<0>>}
      BY <1>1, <1>2 DEF PlainRequests
    <3> QED
      BY <3>1 DEF FirstNamed
  <2>3. count \in Nat
    BY <1>1 DEF count, ApiCall
  <2>4. ElementsNamed(i) = 0 .. (count - 1)
    <3>1. ElementsNamed(i) = 0 .. (0 + count - 1)
      BY <2>2, Zenon DEF ElementsNamed, count, single
    <3>2. 0 + count - 1 = count - 1
      BY <2>3
    <3> QED
      BY <3>1, <3>2
  <2> QED
    BY <2>1, <2>4, Zenon DEF AwaitedBy, r
<1>12. ASSUME NEW q \in NotBlocking', OpAt(q)'.mem = op.mem, OpAt(q)'.slot \in 0 .. (op.count - 1)
       PROVE  q[1] \in AwaitedBy(i)
  <2>1. q \in NotBlocking /\ OpAt(q)' = OpAt(q)
    <3>1. StoresMeant
      BY ComesPlainSays
    <3> QED
      BY <1>1, <1>5, <1>6, <1>7, <3>1, NotBlockingNext
  <2>2. q[1] \in RequestCalls /\ source[q[1]].req = r /\ q[1] \in 1 .. at /\ OpAt(q).slot = FirstNamed(q[1])
    BY <1>6, <1>12, <2>1, VariableStored
  <2> QED
    BY <1>1, <1>6, <1>11, <1>12, <2>1, <2>2
<1>13. ASSUME NEW j \in AwaitedBy(i)
       PROVE  \E q \in NotBlocking' :
                q[1] = j /\ OpAt(q)'.mem = op.mem /\ OpAt(q)'.slot \in 0 .. (op.count - 1)
  <2>1. j \in RequestCalls /\ j < i /\ source[j].req = r /\ FirstNamed(j) \in 0 .. (count - 1)
    BY <1>11
  <2>2. j \in 1 .. at
    BY <1>1, <2>1 DEF RequestCalls
  <2> DEFINE q == <<j, 1>>
  <2>3. q \in NotBlocking /\ OpAt(q).mem = ArrayFor(r) /\ OpAt(q).slot = FirstNamed(j)
    BY <1>1, <2>1, <2>2, StoredInVariable
  <2>4. q \in NotBlocking' /\ OpAt(q)' = OpAt(q)
    BY <1>1, <1>5, <2>3, ComesPlainSays, NotBlockingNext
  <2>5. q[1] = j
    OBVIOUS
  <2> HIDE DEF q
  <2> QED
    BY <1>6, <2>1, <2>3, <2>4, <2>5
<1>14. op.mem # NoArray
  <2>1. r # NoName
    BY <1>1 DEF RequestsKnown, RequestCalls
  <2> QED
    BY <1>6, <2>1, ArraysAre
<1>15. AnswersMeant(<<i, 1>>)'
  BY <1>5, <1>7, <1>12, <1>13, <1>14, AnswersFound
<1> QED
  BY <1>5, <1>7, <1>8, <1>9, <1>10, <1>15, RequestsKept

LEMMA MPIMeant ==
    ASSUME NEW i, ComesPlain(i), Converted(i, "mpi"), ConvertMPI(i)
    PROVE  RequestsMeant'
<1>1. ComesMPI(i)
  BY ComesPlainSays DEF ConvertMPI, ComesMPI
<1> QED
  BY <1>1, IdleMPIMeant, CommunicateMPIMeant, SendrecvMPIMeant, IsendrecvMPIMeant, WaitMPIMeant,
     Zenon DEF ConvertMPI

(***************************************************************************)
(* The handlers of NCCL's functions, as far as requests go.                *)
(***************************************************************************)
LEMMA NCCLStores ==
    ASSUME NEW i, ComesNCCL(i)
    PROVE  /\ Stores(i) <=> source[i].fn \in NCCLCommunication /\ nccl.started
           /\ source[i].fn \in NCCLCommunication => (InOpenGroup(i) <=> nccl.started)
           /\ "nccl" \in Converters(usedModel) /\ mpi'.requests = mpi.requests
           /\ source[i].fn \notin MPICommunicating /\ source[i].fn \notin MPIExchanges
<1>1. /\ source[i].fn \notin CalleesMPI /\ "nccl" \in Converters(usedModel) /\ mpi' = mpi /\ GroupMeant
      /\ i = at + 1 /\ at \in Nat
  BY ComesNCCLSays, ComesSays DEF ComesNCCL, StaticsMeant
<1>2. i - 1 = at
  BY <1>1
<1>3. source[i].fn \in NCCLCommunication => (InOpenGroup(i) <=> nccl.started)
  BY <1>1, <1>2, Zenon DEF InOpenGroup, GroupMeant
<1>4. source[i].fn \notin MPICommunicating /\ source[i].fn \notin MPIExchanges
  BY <1>1 DEF CalleesMPI
<1> QED
  BY <1>1, <1>3, <1>4, Zenon DEF Stores

LEMMA IdleNCCL ==
    ASSUME NEW i, ComesPlain(i), ComesNCCL(i), IdleAt(i), source[i].fn # "ncclGroupEnd",
           source[i].fn \notin NCCLCommunication \/ ~ nccl.started,
           nccl'.group = nccl.group, nccl'.num = nccl.num
    PROVE  RequestsMeant'
BY NCCLStores, IdleAtKept

LEMMA NCCLKept ==
    ASSUME NCCLRecord, NEW a, NEW b, NEW c
    PROVE  /\ [nccl EXCEPT !.comms = a, !.blocking = b].group = nccl.group
           /\ [nccl EXCEPT !.comms = a, !.blocking = b].num = nccl.num
           /\ [nccl EXCEPT !.started = a].group = nccl.group /\ [nccl EXCEPT !.started = a].num = nccl.num
           /\ [nccl EXCEPT !.implicit = a].group = nccl.group /\ [nccl EXCEPT !.implicit = a].num = nccl.num
           /\ [nccl EXCEPT !.args = a].group = nccl.group /\ [nccl EXCEPT !.args = a].num = nccl.num
           /\ [[nccl EXCEPT !.args = a] EXCEPT !.group = b, !.num = c].group = b
           /\ [[nccl EXCEPT !.args = a] EXCEPT !.group = b, !.num = c].num = c
           /\ GroupClosed.group = NoArray /\ GroupClosed.num = 0
<1>1. nccl = [comms |-> nccl.comms, args |-> nccl.args, implicit |-> nccl.implicit,
              blocking |-> nccl.blocking, started |-> nccl.started, group |-> nccl.group,
              num |-> nccl.num]
  BY Zenon DEF NCCLRecord
<1>2. GroupClosed.group = NoArray /\ GroupClosed.num = 0
  BY <1>1 DEF GroupClosed
<1>3. /\ [nccl EXCEPT !.comms = a, !.blocking = b].group = nccl.group
      /\ [nccl EXCEPT !.comms = a, !.blocking = b].num = nccl.num
      /\ [nccl EXCEPT !.started = a].group = nccl.group /\ [nccl EXCEPT !.started = a].num = nccl.num
  BY <1>1
<1>4. /\ [nccl EXCEPT !.implicit = a].group = nccl.group /\ [nccl EXCEPT !.implicit = a].num = nccl.num
      /\ [nccl EXCEPT !.args = a].group = nccl.group /\ [nccl EXCEPT !.args = a].num = nccl.num
  BY <1>1
<1>5. /\ [[nccl EXCEPT !.args = a] EXCEPT !.group = b, !.num = c].group = b
      /\ [[nccl EXCEPT !.args = a] EXCEPT !.group = b, !.num = c].num = c
  BY <1>1
<1> QED
  BY <1>2, <1>3, <1>4, <1>5

LEMMA NamesApartNCCL ==
    /\ \A fn : fn \in NCCLCommunication => fn # "ncclGroupEnd"
    /\ (NCCLInits \union Listed(NCCLQueries) \union NCCLMemory \union
        {"ncclGroupStart", "ncclGroupEnd", "ncclCommSplit", "ncclCommDestroy"})
       \intersect NCCLCommunication = {}
    /\ "ncclGroupEnd" \notin NCCLInits \union Listed(NCCLQueries) \union NCCLMemory
<1>1. \A fn : fn \in NCCLCommunication =>
        fn \in {"ncclBroadcast", "ncclBcast", "ncclReduce", "ncclAllGather", "ncclAllReduce",
                "ncclReduceScatter", "ncclSend", "ncclRecv"}
  BY InList DEF NCCLCommunication, NCCLCollectives, NCCLMessages
<1>2. \A fn : fn \in Listed(NCCLQueries) =>
        fn \in {"ncclCommUserRank", "ncclCommCuDevice", "ncclCommCount"}
  BY InList DEF NCCLQueries
<1> QED
  BY <1>1, <1>2 DEF NCCLInits, NCCLMemory

LEMMA IdleNCCLMeant ==
    ASSUME NEW i, ComesPlain(i), ComesNCCL(i),
           \/ InitRankNCCL(i) \/ GroupStartNCCL(i) \/ SplitNCCL(i) \/ DestroyNCCL(i)
           \/ QueryNCCL(i) \/ MemoryNCCL(i)
    PROVE  RequestsMeant'
<1>1. NCCLRecord
  BY ComesNCCLSays
<1>2. CASE InitRankNCCL(i)
  <2>1. /\ ReplaceBy(i, NewWorld, <<Op(i, "process", source[i].fn, None)>>)
        /\ source[i].fn \in NCCLInits
        /\ nccl' = [nccl EXCEPT !.comms = Put(@, source[i].result, NewWorld),
                                !.blocking = Put(@, NewWorld, IsBlocking(i))]
    BY <1>2 DEF InitRankNCCL
  <2>2. IdleAt(i)
    BY <2>1, IdleOpAt, NoWaits
  <2>3. nccl'.group = nccl.group /\ nccl'.num = nccl.num
    BY <1>1, <2>1, NCCLKept
  <2> QED
    BY <2>1, <2>2, <2>3, IdleNCCL, NamesApartNCCL
<1>3. CASE GroupStartNCCL(i)
  <2>1. /\ ReplaceBy(i, None, <<>>) /\ source[i].fn = "ncclGroupStart"
        /\ nccl' = [nccl EXCEPT !.started = TRUE]
    BY <1>3 DEF GroupStartNCCL
  <2>2. \A k \in DOMAIN <<>> : Idle(<<>>[k])
    OBVIOUS
  <2>3. IdleAt(i)
    BY <2>1, <2>2, Zenon DEF IdleAt
  <2>4. nccl'.group = nccl.group /\ nccl'.num = nccl.num
    BY <1>1, <2>1, NCCLKept
  <2> QED
    BY <2>1, <2>3, <2>4, IdleNCCL, NamesApartNCCL
<1>4. CASE SplitNCCL(i)
  <2>1. /\ ReplaceBy(i, None, <<Op(i, "split", NoName, CommNCCL(i))>>)
        /\ source[i].fn = "ncclCommSplit"
        /\ nccl' = [nccl EXCEPT !.comms = Put(@, source[i].result, <<i, 1>>),
                                !.blocking = Put(@, <<i, 1>>, nccl.blocking[CommNCCL(i)])]
    BY <1>4 DEF SplitNCCL
  <2>2. IdleAt(i)
    BY <2>1, IdleOpAt, NoWaits
  <2>3. nccl'.group = nccl.group /\ nccl'.num = nccl.num
    BY <1>1, <2>1, NCCLKept
  <2> QED
    BY <2>1, <2>2, <2>3, IdleNCCL, NamesApartNCCL
<1>5. CASE DestroyNCCL(i)
  <2>1. /\ \/ ReplaceBy(i, None, <<>>)
           \/ ReplaceBy(i, None, <<Op(i, "destroy", NoName, CommNCCL(i))>>)
        /\ source[i].fn = "ncclCommDestroy" /\ nccl' = nccl
    BY <1>5, Zenon DEF DestroyNCCL
  <2>2. \A k \in DOMAIN <<>> : Idle(<<>>[k])
    OBVIOUS
  <2>3. IdleAt(i)
    <3>1. CASE ReplaceBy(i, None, <<>>)
      BY <2>2, <3>1, Zenon DEF IdleAt
    <3>2. CASE ReplaceBy(i, None, <<Op(i, "destroy", NoName, CommNCCL(i))>>)
      BY <3>2, IdleOpAt, NoWaits
    <3> QED
      BY <2>1, <3>1, <3>2
  <2> QED
    BY <2>1, <2>3, IdleNCCL, NamesApartNCCL
<1>6. CASE QueryNCCL(i)
  <2>1. /\ ReplaceBy(i, None, <<Op(i, "query", source[i].var, CommNCCL(i))>>)
        /\ source[i].fn \in Listed(NCCLQueries) /\ nccl' = nccl
    BY <1>6 DEF QueryNCCL
  <2>2. IdleAt(i)
    BY <2>1, IdleOpAt, NoWaits
  <2> QED
    BY <2>1, <2>2, IdleNCCL, NamesApartNCCL
<1>7. CASE MemoryNCCL(i)
  <2>1. /\ ReplaceBy(i, ImplicitNCCL, <<Op(i, "memory", source[i].fn, ImplicitNCCL)>>)
        /\ source[i].fn \in NCCLMemory /\ nccl' = [nccl EXCEPT !.implicit = ImplicitNCCL]
    BY <1>7 DEF MemoryNCCL
  <2>2. IdleAt(i)
    BY <2>1, IdleOpAt, NoWaits
  <2>3. nccl'.group = nccl.group /\ nccl'.num = nccl.num
    BY <1>1, <2>1, NCCLKept
  <2> QED
    BY <2>1, <2>2, <2>3, IdleNCCL, NamesApartNCCL
<1> QED
  BY <1>2, <1>3, <1>4, <1>5, <1>6, <1>7

(* The operations that store to the array of the open group are in it.     *)
LEMMA GroupUsers ==
    ASSUME NEW i, ComesPlain(i), nccl.num # 0, NEW q \in NotBlocking, OpAt(q).mem = nccl.group
    PROVE  /\ q[1] \in 1 .. at /\ source[q[1]].fn \in NCCLCommunication
           /\ InOpenGroup(q[1]) /\ NoEnd(q[1], at)
<1>1. q[1] \in 1 .. at /\ StoreMeant(q[1], q[2], OpAt(q)) /\ at \in Nat /\ GroupFilled
  BY ComesPlainSays DEF StoresMeant
<1>2. PICK g \in 1 .. at : source[g].fn \in NCCLCommunication /\ NoEnd(g, at) /\ nccl.group = ArrayOf(g)
  BY <1>1 DEF GroupFilled
<1>3. OpAt(q).mem.call = g
  BY <1>2, ArraysAre
<1>4. source[g].fn \notin MPIExchanges \union MPIStarted
  <2>1. source[g].fn \in NCCLNames
    BY <1>2, NCCLNamed DEF CalleesNCCL
  <2> QED
    BY <2>1 DEF NCCLNames, MPIExchanges, MPIStarted
<1>5. InGroup(q[1], OpAt(q))
  <2>1. ~ InVariable(q[1], OpAt(q))
    BY <1>2, <1>3, ArraysAre DEF InVariable
  <2>2. ~ InPair(q[1], q[2], OpAt(q))
    BY <1>3, <1>4, ArraysAre DEF InPair
  <2> QED
    BY <1>1, <2>1, <2>2 DEF StoreMeant
<1>6. /\ g \in 1 .. q[1] /\ source[q[1]].fn \in NCCLCommunication /\ InOpenGroup(q[1])
  BY <1>3, <1>5, ArraysAre DEF InGroup
<1>7. NoEnd(q[1], at)
  BY <1>1, <1>2, <1>6 DEF NoEnd
<1> QED
  BY <1>1, <1>6, <1>7

LEMMA SlotTyped ==
    ASSUME TypeOKConversion, NEW q \in Places
    PROVE  OpAt(q) \in TextOp /\ OpAt(q).slot \in Nat
<1>1. q[1] \in DOMAIN text /\ q[2] \in DOMAIN text[q[1]]
  BY PlaceParts
<1>2. text[q[1]] \in Seq(TextOp)
  BY <1>1 DEF TypeOKConversion
<1>3. OpAt(q) \in TextOp
  BY <1>1, <1>2 DEF OpAt
<1> QED
  BY <1>3 DEF TextOp

LEMMA GroupEndNCCLMeant ==
    ASSUME NEW i, ComesPlain(i), ComesNCCL(i), GroupEndNCCL(i)
    PROVE  RequestsMeant'
<1> DEFINE wait == WaitFor(i, nccl.group, nccl.num)
           ops == <<wait>>
<1>1. /\ Comes(i) /\ RequestsMeant /\ StoresMeant /\ GroupFilled /\ TypeOKConversion
      /\ NCCLRecord /\ NCCLTyped /\ source' = source /\ usedModel' = usedModel
      /\ i \in DOMAIN source /\ i = at + 1 /\ at \in Nat /\ at' = i
      /\ source[i].fn = "ncclGroupEnd" /\ nccl.group # NoArray /\ nccl' = GroupClosed
      /\ ReplaceBy(i, None, ops) /\ DOMAIN source = 1 .. Len(source) /\ Len(source) \in Nat
  BY ComesNCCLSays, ComesSays, ComesPlainSays DEF GroupEndNCCL
<1>2. wait.kind = "wait" /\ wait.blocking /\ wait.mem = nccl.group /\ wait.count = nccl.num
  BY WaitIs
<1>3. TextNext(i, ops, {})
  BY <1>1, ReplacedFollows
<1> HIDE DEF wait
<1>4. DOMAIN ops = {1} /\ ops[1] = wait
  OBVIOUS
<1> HIDE DEF ops
<1>5. source[i].fn \notin NCCLCommunication
  BY <1>1, NamesApartNCCL
<1>6. StoresGood(i, ops)
  BY <1>2, <1>4, <1>5, NCCLStores DEF StoresGood
<1>7. GroupFilled'
  <2>1. nccl'.num = 0
    BY <1>1, NCCLKept
  <2>2. ASSUME NEW q \in NotBlocking' PROVE ~ NoEnd(q[1], at')
    <3>1. q[1] \in 1 .. at \/ q[1] = i
      BY <1>1, <1>3, NotBlockingNext
    <3>2. i \in q[1] .. at'
      BY <1>1, <3>1
    <3> QED
      BY <1>1, <3>2 DEF NoEnd
  <2>3. \A q : NoEnd(q[1], at)' <=> NoEnd(q[1], at')
    BY <1>1, Zenon DEF NoEnd
  <2> QED
    BY <2>1, <2>2, <2>3, Zenon DEF GroupFilled
<1>8. RequestsKnown'
  BY KnownStay, NCCLStores
<1>9. AwaitedBy(i) = GroupOf(i)
  BY <1>1, NCCLStores, Zenon DEF AwaitedBy
<1>10. ASSUME NEW q \in NotBlocking', OpAt(q)'.mem = wait.mem
       PROVE  q[1] \in GroupOf(i)
  <2>1. q \in NotBlocking /\ OpAt(q)' = OpAt(q)
    BY <1>1, <1>2, <1>3, <1>4, NotBlockingNext
  <2>2. /\ q[1] \in 1 .. at /\ source[q[1]].fn \in NCCLCommunication
        /\ InOpenGroup(q[1]) /\ NoEnd(q[1], at)
    <3>1. nccl.num # 0
      BY <1>1 DEF NCCLTyped
    <3> QED
      BY <1>2, <1>10, <2>1, <3>1, GroupUsers
  <2>3. PICK s \in 1 .. (q[1] - 1) :
            /\ source[s].fn = "ncclGroupStart"
            /\ \A e \in s .. (q[1] - 1) : source[e].fn # "ncclGroupEnd"
    BY <2>2 DEF InOpenGroup
  <2>4. \A e \in s .. i : source[e].fn = "ncclGroupEnd" => e = i
    BY <1>1, <2>2, <2>3 DEF NoEnd
  <2>5. q[1] \in 1 .. (i - 1)
    BY <1>1, <2>2
  <2> QED
    BY <2>2, <2>3, <2>4, <2>5 DEF GroupOf
<1>11. ASSUME NEW j \in GroupOf(i)
       PROVE  \E q \in NotBlocking' :
                q[1] = j /\ OpAt(q)'.mem = wait.mem /\ OpAt(q)'.slot \in 0 .. (wait.count - 1)
  <2>1. j \in 1 .. (i - 1) /\ source[j].fn \in NCCLCommunication
    BY DEF GroupOf
  <2>2. PICK s \in 1 .. (j - 1) :
            /\ source[s].fn = "ncclGroupStart"
            /\ \A e \in s .. i : source[e].fn = "ncclGroupEnd" => e = i
    BY DEF GroupOf
  <2>3. j \in 1 .. at /\ NoEnd(j, at)
    BY <1>1, <2>1, <2>2 DEF NoEnd
  <2>4. InOpenGroup(j)
    <3>1. \A e \in s .. (j - 1) : source[e].fn # "ncclGroupEnd"
      BY <1>1, <2>1, <2>2
    <3> QED
      BY <2>1, <2>2, <3>1 DEF InOpenGroup
  <2>5. 1 \in DOMAIN text[j] /\ ~ text[j][1].blocking
    BY <1>1, <2>1, <2>3, <2>4, NCCLStores DEF RequestsMeant, StoredBy, Stores
  <2> DEFINE q == <<j, 1>>
  <2>6. q[1] = j /\ q[2] = 1 /\ q = <<q[1], q[2]>>
    OBVIOUS
  <2> HIDE DEF q
  <2>7. j \in DOMAIN text
    BY <1>3, <2>3 DEF TextNext
  <2>8. q \in NotBlocking
    BY <2>5, <2>6, <2>7, PlaceParts DEF NotBlocking, OpAt
  <2>9. OpAt(q).mem = nccl.group /\ OpAt(q).slot < nccl.num
    BY <1>1, <2>1, <2>3, <2>6, <2>8 DEF GroupFilled
  <2>10. OpAt(q).slot \in Nat /\ nccl.num \in Nat
    BY <1>1, <2>8, SlotTyped DEF NotBlocking, NCCLTyped
  <2>11. q \in NotBlocking' /\ OpAt(q)' = OpAt(q)
    BY <1>1, <1>3, <2>8, NotBlockingNext
  <2> QED
    BY <1>2, <2>6, <2>9, <2>10, <2>11
<1>12. AnswersMeant(<<i, 1>>)'
  <2>1. wait.mem # NoArray /\ 1 \in DOMAIN ops
    BY <1>1, <1>2, <1>4
  <2> QED
    BY <1>3, <1>4, <1>9, <1>10, <1>11, <2>1, AnswersFound
<1> QED
  BY <1>3, <1>4, <1>6, <1>7, <1>8, <1>12, RequestsKept

(* The array of a group is that of its first call.                         *)
LEMMA GroupArrayOf ==
    ASSUME NEW i, ComesPlain(i), source[i].fn \in NCCLCommunication
    PROVE  \E g \in 1 .. i :
            /\ source[g].fn \in NCCLCommunication /\ NoEnd(g, i) /\ GroupArray(i) = ArrayOf(g)
<1>1. GroupFilled /\ i = at + 1 /\ at \in Nat /\ source[i].fn # "ncclGroupEnd"
  BY ComesPlainSays, NamesApartNCCL
<1>2. CASE nccl.num = 0
  <2>1. NoEnd(i, i) /\ i \in 1 .. i
    BY <1>1 DEF NoEnd
  <2> QED
    BY <1>2, <2>1 DEF GroupArray
<1>3. CASE nccl.num # 0
  <2>1. PICK g \in 1 .. at : source[g].fn \in NCCLCommunication /\ NoEnd(g, at) /\ nccl.group = ArrayOf(g)
    BY <1>1, <1>3 DEF GroupFilled
  <2>2. NoEnd(g, i) /\ g \in 1 .. i
    BY <1>1, <2>1 DEF NoEnd
  <2> QED
    BY <1>3, <2>1, <2>2 DEF GroupArray
<1> QED
  BY <1>2, <1>3

LEMMA CommunicateNCCLMeant ==
    ASSUME NEW i, ComesPlain(i), ComesNCCL(i), CommunicateNCCL(i)
    PROVE  RequestsMeant'
<1> DEFINE args == ArgsMapped(nccl.args, source[i].args)
           plain == OpNCCL(i)
           op == WithRequest(plain, GroupArray(i), nccl.num)
           ops == <<op>>
<1>1. /\ Comes(i) /\ StoresMeant /\ GroupFilled /\ TypeOKConversion
      /\ NCCLRecord /\ NCCLTyped /\ source' = source /\ usedModel' = usedModel
      /\ i = at + 1 /\ at \in Nat /\ at' = i
      /\ source[i].fn \in NCCLCommunication /\ CommKnownNCCL(i)
      /\ source[i].fn # "ncclGroupEnd"
  BY ComesNCCLSays, ComesSays, ComesPlainSays, NamesApartNCCL DEF CommunicateNCCL, ConvertibleNCCL
<1>2. plain \in TextOp /\ plain.kind \in {"coll", "send", "recv"} /\ plain.blocking
  BY <1>1, OpNCCLTyped
<1>3. \/ ~ nccl.started /\ ReplaceBy(i, None, <<plain>>) /\ nccl' = [nccl EXCEPT !.args = args]
      \/ /\ nccl.started /\ ReplaceBy(i, None, ops)
         /\ nccl' = [[nccl EXCEPT !.args = args] EXCEPT !.group = GroupArray(i), !.num = @ + 1]
  BY Zenon DEF CommunicateNCCL
<1> HIDE DEF plain, args
<1>4. CASE ~ nccl.started /\ ReplaceBy(i, None, <<plain>>) /\ nccl' = [nccl EXCEPT !.args = args]
  <2>1. Idle(plain)
    BY <1>2 DEF Idle
  <2>2. \A k \in DOMAIN <<plain>> : Idle(<<plain>>[k])
    BY <2>1, OneIdle
  <2>3. IdleAt(i)
    BY <1>4, <2>2, Zenon DEF IdleAt
  <2>4. nccl'.group = nccl.group /\ nccl'.num = nccl.num
    BY <1>1, <1>4, NCCLKept
  <2> QED
    BY <1>1, <1>4, <2>3, <2>4, IdleNCCL
<1>5. CASE /\ nccl.started /\ ReplaceBy(i, None, ops)
           /\ nccl' = [[nccl EXCEPT !.args = args] EXCEPT !.group = GroupArray(i), !.num = @ + 1]
  <2>1. /\ op.mem = GroupArray(i) /\ op.slot = nccl.num /\ ~ op.blocking
        /\ op.kind \in {"coll", "send", "recv"}
    BY <1>2, RequestIs
  <2>2. TextNext(i, ops, {})
    BY <1>1, <1>5, ReplacedFollows
  <2> HIDE DEF op
  <2>3. DOMAIN ops = {1} /\ ops[1] = op
    OBVIOUS
  <2> HIDE DEF ops
  <2>4. nccl'.group = GroupArray(i) /\ nccl'.num = nccl.num + 1
    <3>1. [nccl EXCEPT !.args = args].num = nccl.num
      BY <1>1, NCCLKept
    <3>2. nccl' = [[nccl EXCEPT !.args = args] EXCEPT !.group = GroupArray(i), !.num = nccl.num + 1]
      BY <1>5, <3>1
    <3> QED
      BY <1>1, <3>2, NCCLKept
  <2>5. PICK g \in 1 .. i :
            /\ source[g].fn \in NCCLCommunication /\ NoEnd(g, i) /\ GroupArray(i) = ArrayOf(g)
    BY <1>1, GroupArrayOf
  <2>6. StoreMeant(i, 1, op)
    <3>1. InOpenGroup(i)
      BY <1>1, <1>5, NCCLStores
    <3>2. InGroup(i, op)
      BY <1>1, <2>1, <2>5, <3>1 DEF InGroup
    <3> QED
      BY <2>1, <3>2 DEF StoreMeant
  <2>7. ASSUME NEW q \in NotBlocking, op.mem = OpAt(q).mem, op.slot = OpAt(q).slot
        PROVE  FALSE
    <3>1. CASE nccl.num = 0
      <4>1. op.mem = ArrayOf(i)
        BY <2>1, <3>1 DEF GroupArray
      <4> QED
        BY <2>7, <4>1, ArraysBefore
    <3>2. CASE nccl.num # 0
      <4>1. OpAt(q).mem = nccl.group
        BY <2>1, <2>7, <3>2 DEF GroupArray
      <4>2. source[q[1]].fn \in NCCLCommunication /\ NoEnd(q[1], at)
        BY <3>2, <4>1, GroupUsers
      <4>3. OpAt(q).slot < nccl.num /\ nccl.num \in Nat
        BY <1>1, <4>2 DEF GroupFilled, NCCLTyped
      <4> QED
        BY <2>1, <2>7, <4>3
    <3> QED
      BY <3>1, <3>2
  <2>8. StoresGood(i, ops)
    BY <2>1, <2>3, <2>6, <2>7 DEF StoresGood
  <2>9. GroupFilled'
    <3>1. /\ nccl.num \in Nat /\ "nccl" \in Converters(usedModel)
      BY <1>1, NCCLStores DEF NCCLTyped
    <3>2. ASSUME NEW q \in NotBlocking', source[q[1]].fn \in NCCLCommunication, NoEnd(q[1], at')
          PROVE  OpAt(q)'.mem = nccl'.group /\ OpAt(q)'.slot < nccl'.num
      <4>1. CASE q \in NotBlocking /\ OpAt(q)' = OpAt(q) /\ q[1] \in 1 .. at
        <5>1. NoEnd(q[1], at)
          BY <1>1, <3>2, <4>1 DEF NoEnd
        <5>2. OpAt(q).mem = nccl.group /\ OpAt(q).slot < nccl.num
          BY <1>1, <3>2, <4>1, <5>1 DEF GroupFilled
        <5>3. OpAt(q).slot \in Nat
          BY <1>1, <4>1, SlotTyped DEF NotBlocking
        <5>4. nccl.num # 0
          BY <3>1, <5>2, <5>3
        <5> QED
          BY <2>4, <3>1, <4>1, <5>2, <5>3, <5>4 DEF GroupArray
      <4>2. CASE OpAt(q)' = op
        BY <2>1, <2>4, <3>1, <4>2
      <4> QED
        BY <1>1, <2>2, <2>3, <4>1, <4>2, NotBlockingNext
    <3>3. g \in 1 .. at' /\ NoEnd(g, at')
      BY <1>1, <2>5
    <3>4. /\ \A j, k : NoEnd(j, k)' <=> NoEnd(j, k)
          /\ \A j : ArrayOf(j)' = ArrayOf(j)
      BY <1>1, SourceStays DEF ArrayOf, NoArray
    <3> QED
      BY <1>1, <2>4, <2>5, <3>1, <3>2, <3>3, <3>4, Zenon DEF GroupFilled
  <2>10. RequestsKnown'
    BY KnownStay, NCCLStores
  <2>11. \A k \in DOMAIN ops : ops[k].kind # "wait"
    BY <2>1, <2>3
  <2> QED
    BY <2>2, <2>8, <2>9, <2>10, <2>11, RequestsKept
<1> QED
  BY <1>3, <1>4, <1>5

LEMMA NCCLMeant ==
    ASSUME NEW i, ComesPlain(i), Converted(i, "nccl"), ConvertNCCL(i)
    PROVE  RequestsMeant'
<1>1. ComesNCCL(i)
  BY ComesPlainSays DEF ConvertNCCL, ComesNCCL
<1> QED
  BY <1>1, IdleNCCLMeant, GroupEndNCCLMeant, CommunicateNCCLMeant, Zenon DEF ConvertNCCL

(***************************************************************************)
(* SHMEM's functions have no requests.                                     *)
(***************************************************************************)
LEMMA SHMEMMeant ==
    ASSUME NEW i, ComesPlain(i), Converted(i, "shmem"), ConvertSHMEM(i)
    PROVE  RequestsMeant'
<1>1. ComesSHMEM(i) /\ mpi' = mpi /\ nccl' = nccl
  BY ComesPlainSays DEF ConvertSHMEM, ComesSHMEM
<1>2. source[i].fn \notin CalleesMPI \union NCCLNames
  BY LibrariesApart DEF Converted
<1>3. ~ Stores(i) /\ source[i].fn # "ncclGroupEnd"
  BY <1>2, NCCLNamed DEF Stores, CalleesMPI, CalleesNCCL, NCCLNames
<1>4. IdleAt(i)
  <2>1. CASE ProcessSHMEM(i)
    BY <2>1, IdleOpAt, NoWaits DEF ProcessSHMEM
  <2>2. CASE QuerySHMEM(i)
    BY <2>2, IdleOpAt, NoWaits DEF QuerySHMEM
  <2>3. CASE CollectiveSHMEM(i)
    <3>1. \E type : ReplaceBy(i, CommSHMEM(i), <<Op(i, "coll", type, CommSHMEM(i))>>)
      BY <2>3, Zenon DEF CollectiveSHMEM
    <3> QED
      BY <3>1, IdleOpAt, NoWaits
  <2>4. CASE MemorySHMEM(i)
    BY <2>4, IdleOpAt, NoWaits DEF MemorySHMEM
  <2>5. CASE SplitSHMEM(i)
    BY <2>5, IdleOpAt, NoWaits DEF SplitSHMEM
  <2>6. CASE DestroySHMEM(i)
    BY <2>6, IdleOpAt, NoWaits DEF DestroySHMEM
  <2> QED
    BY <2>1, <2>2, <2>3, <2>4, <2>5, <2>6, Zenon DEF ConvertSHMEM
<1> QED
  BY <1>1, <1>3, <1>4, IdleAtKept

(***************************************************************************)
(* A call that no conversion handles, or a wait that has been made for it. *)
(***************************************************************************)
LEMMA SameTextFollows ==
    ASSUME NEW i, Comes(i), text' = text
    PROVE  TextNext(i, text[i], {})
<1>1. /\ i = at + 1 /\ at \in Nat /\ DOMAIN text = 0 .. Len(source) /\ i \in 1 .. Len(source)
      /\ DOMAIN source = 1 .. Len(source) /\ Len(source) \in Nat
  BY ComesSays DEF TypeOKConversion
<1>2. Places' = Places /\ \A p : OpAt(p)' = OpAt(p)
  BY SameText
<1>3. i \in DOMAIN text /\ \A j \in 1 .. at : j \in DOMAIN text
  BY <1>1
<1>4. \A j \in DOMAIN source : text'[j] = IF j \in {} THEN <<WaitFor(j, ArrayOf(i), 2)>> ELSE text[j]
  OBVIOUS
<1> QED
  BY <1>2, <1>3, <1>4, Zenon DEF TextNext

LEMMA GivenMeant ==
    ASSUME NEW i, ComesPlain(i), text' = text, mpi' = mpi, nccl' = nccl,
           NEW j \in 1 .. at, GivenBy(i, j)
    PROVE  RequestsMeant'
<1> DEFINE wait == WaitFor(i, ArrayOf(j), 2)
           ops == <<wait>>
<1>1. /\ Comes(i) /\ PlainRequests /\ StoresMeant /\ i = at + 1 /\ at \in Nat
      /\ source \in Seq(ApiCall) /\ CallsTyped /\ j \in DOMAIN source /\ i \in DOMAIN source
      /\ j \in DOMAIN text
  BY ComesPlainSays, ComesSays DEF TypeOKConversion
<1>2. /\ source[i].fn = "MPI_Wait" /\ source[i].idx = <<>> /\ source[j].fn \in MPIStarted
      /\ source[j].req = source[i].req /\ text[i] = ops
      /\ 1 \in DOMAIN text[j] /\ ~ text[j][1].blocking
  BY DEF GivenBy
<1>3. wait.kind = "wait" /\ wait.blocking /\ wait.mem = ArrayOf(j) /\ wait.count = 2
  BY WaitIs
<1>4. TextNext(i, ops, {})
  BY <1>1, <1>2, SameTextFollows
<1> HIDE DEF wait
<1>5. DOMAIN ops = {1} /\ ops[1] = wait
  OBVIOUS
<1> HIDE DEF ops
<1>6. "MPI_Wait" \in Listed(MPISingleWaits)
  <2> DEFINE row == <<"MPI_Wait", "waitAll">>
  <2>1. row \in MPISingleWaits /\ row[1] = "MPI_Wait"
    BY DEF MPISingleWaits
  <2> QED
    BY <2>1, Zenon DEF Listed
<1>7. /\ source[i].fn \notin MPICommunicating /\ source[i].fn \notin NCCLCommunication
      /\ source[i].fn \notin MPIExchanges /\ source[i].fn # "ncclGroupEnd"
  <2>1. "MPI_Wait" \in MPIWaiting
    BY <1>6 DEF MPIWaiting, Listed
  <2>2. "MPI_Wait" \notin NCCLCommunication
    BY NCCLNamed DEF CalleesNCCL, NCCLNames
  <2> QED
    BY <1>2, <2>1, <2>2, NamesApartMPI
<1>8. StoresGood(i, ops)
  BY <1>3, <1>5, <1>7 DEF StoresGood, Stores
<1>9. GroupFilled'
  BY <1>4, <1>7, GroupStaysFilled
<1>10. RequestsKnown'
  BY KnownStay
<1>11. j \in RequestCalls
  BY <1>1, <1>2 DEF RequestCalls, CallsTyped, CallTyped
<1>12. AwaitedBy(i) = {j}
  <2>1. source[j].idx \in {<<>>, <<0>>}
    BY <1>1, <1>2 DEF PlainRequests
  <2>2. FirstNamed(j) = 0 /\ FirstNamed(i) = 0
    BY <1>2, <2>1 DEF FirstNamed
  <2>3. ElementsNamed(i) = 0 .. 0
    <3>1. ElementsNamed(i) = 0 .. (0 + 1 - 1)
      BY <1>2, <1>6, <2>2, Zenon DEF ElementsNamed
    <3> QED
      BY <3>1
  <2>4. AwaitedBy(i) = {e \in RequestCalls : e < i /\ source[e].req = source[i].req
                                             /\ FirstNamed(e) \in ElementsNamed(i)}
    BY <1>7, Zenon DEF AwaitedBy
  <2>5. j < i /\ FirstNamed(j) \in ElementsNamed(i)
    BY <1>1, <2>2, <2>3
  <2>6. \A e \in RequestCalls : source[e].req = source[j].req => e = j
    BY <1>1, <1>2 DEF PlainRequests
  <2> QED
    BY <1>2, <1>11, <2>4, <2>5, <2>6
<1>13. ASSUME NEW q \in NotBlocking, OpAt(q).mem = ArrayOf(j) \/ q[1] = j
       PROVE  q[1] = j /\ OpAt(q).mem = ArrayOf(j) /\ OpAt(q).slot \in {0, 1}
  <2>1. StoreMeant(q[1], q[2], OpAt(q)) /\ q[1] \in 1 .. at
    BY <1>1 DEF StoresMeant
  <2>2. source[j].fn \notin NCCLCommunication /\ source[j].fn \notin MPICommunicating
    <3>1. source[j].fn \notin NCCLCommunication
      BY <1>2, NCCLNamed DEF CalleesNCCL, NCCLNames, MPIStarted
    <3> QED
      BY <1>2, <3>1, NamesApartMPI
  <2>3. ~ InVariable(q[1], OpAt(q)) /\ ~ InGroup(q[1], OpAt(q))
    BY <1>1, <1>13, <2>2, ArraysAre DEF InVariable, InGroup
  <2>4. InPair(q[1], q[2], OpAt(q))
    BY <2>1, <2>3 DEF StoreMeant
  <2> QED
    BY <1>13, <2>4, ArraysAre DEF InPair
<1>14. ASSUME NEW q \in NotBlocking', OpAt(q)'.mem = wait.mem PROVE q[1] \in AwaitedBy(i)
  <2>1. q \in NotBlocking /\ OpAt(q)' = OpAt(q)
    BY <1>1, <1>3, <1>4, <1>5, NotBlockingNext
  <2> QED
    BY <1>3, <1>12, <1>13, <1>14, <2>1
<1>15. ASSUME NEW e \in AwaitedBy(i)
       PROVE  \E q \in NotBlocking' :
                q[1] = e /\ OpAt(q)'.mem = wait.mem /\ OpAt(q)'.slot \in 0 .. (wait.count - 1)
  <2> DEFINE q == <<j, 1>>
  <2>1. q[1] = j /\ q[2] = 1 /\ q = <<q[1], q[2]>>
    OBVIOUS
  <2> HIDE DEF q
  <2>2. q \in NotBlocking
    BY <1>1, <1>2, <2>1, PlaceParts DEF NotBlocking, OpAt
  <2>3. q \in NotBlocking' /\ OpAt(q)' = OpAt(q)
    BY <1>1, <1>4, <2>2, NotBlockingNext
  <2>4. OpAt(q).mem = ArrayOf(j) /\ OpAt(q).slot \in {0, 1}
    BY <1>13, <2>1, <2>2
  <2> QED
    BY <1>3, <1>12, <1>15, <2>1, <2>3, <2>4
<1>16. AnswersMeant(<<i, 1>>)'
  <2>1. wait.mem # NoArray /\ 1 \in DOMAIN ops
    BY <1>1, <1>3, <1>5, ArraysAre
  <2> QED
    BY <1>4, <1>5, <1>14, <1>15, <2>1, AnswersFound
<1> QED
  BY <1>4, <1>5, <1>8, <1>9, <1>10, <1>16, RequestsKept

(* A call that no conversion replaces leaves the requests as they were.    *)
LEMMA PassMeant ==
    ASSUME NEW i, RequestsMeant, PlainRequests, ConvInv, PassCall(i)
    PROVE  RequestsMeant'
<1>1. /\ ComesPlain(i) /\ text' = text /\ mpi' = mpi /\ nccl' = nccl
      /\ \A c \in {"mpi", "nccl", "shmem"} : ~ Converted(i, c)
  BY DEF PassCall, ComesPlain, Comes
<1>2. /\ GivenOrCall(i) /\ Comes(i) /\ i \in 1 .. Len(source)
  BY <1>1, ComesPlainSays
<1>3. CASE \E j \in 1 .. at : GivenBy(i, j)
  BY <1>1, <1>3, GivenMeant
<1>4. CASE text[i] = InitialText(source)[i]
  <2> DEFINE kind == IF source[i].fn \in BranchKinds THEN source[i].fn ELSE "call"
             op == Made(source[i].path, kind, source[i].fn, None)
  <2>1. text[i] = <<op>>
    BY <1>2, <1>4 DEF InitialText
  <2>2. op.kind = kind /\ op.blocking
    BY DEF Made
  <2>3. Idle(op)
    BY <2>2 DEF Idle, BranchKinds
  <2> HIDE DEF op
  <2>4. \A k \in DOMAIN <<op>> : Idle(<<op>>[k])
    BY <2>3, OneIdle
  <2>5. TextNext(i, <<op>>, {})
    BY <1>1, <1>2, <2>1, SameTextFollows
  <2>6. ASSUME source[i].fn \notin BranchKinds, NEW c \in {"mpi", "nccl"}, c \in Converters(usedModel)
        PROVE  source[i].fn \notin Handles(c)
    <3>1. IsCall(i)
      <4>1. <<op>> # <<>> /\ <<op>>[1] = op
        OBVIOUS
      <4> QED
        BY <2>1, <2>2, <2>6, <4>1 DEF IsCall
    <3> QED
      BY <1>1, <2>6, <3>1 DEF Converted
  <2>7. ASSUME source[i].fn \in BranchKinds
        PROVE  /\ source[i].fn \notin MPICommunicating /\ source[i].fn \notin NCCLCommunication
               /\ source[i].fn # "ncclGroupEnd"
    <3>1. source[i].fn \notin CommunicatingNames /\ source[i].fn \notin NCCLNames
      BY <2>7 DEF BranchKinds, CommunicatingNames, NCCLNames
    <3> QED
      BY <3>1, CommunicatingNamed, NCCLNamed DEF CalleesNCCL, NCCLNames
  <2>8. /\ \A fn \in MPICommunicating : fn \in Handles("mpi")
        /\ \A fn \in NCCLCommunication : fn \in Handles("nccl")
        /\ "ncclGroupEnd" \in Handles("nccl")
    <3>1. \A fn \in MPICommunicating : fn \in Handles("mpi")
      BY HandledNames DEF CalleesMPI
    <3>2. \A fn \in NCCLCommunication : fn # "ncclCommGetAsyncError"
      BY InList DEF NCCLCommunication, NCCLCollectives, NCCLMessages
    <3>3. Handles("nccl") = CalleesNCCL \ {"ncclCommGetAsyncError"}
      BY DEF Handles
    <3> QED
      BY <3>1, <3>2, <3>3 DEF CalleesNCCL
  <2>9. ~ Stores(i)
    BY <2>6, <2>7, <2>8 DEF Stores
  <2>10. "nccl" \in Converters(usedModel) => source[i].fn # "ncclGroupEnd"
    BY <2>6, <2>7, <2>8
  <2> QED
    BY <1>1, <2>4, <2>5, <2>9, <2>10, IdleKept
<1> QED
  BY <1>2, <1>3, <1>4 DEF GivenOrCall

(* What is known of requests implies what is to be shown.                  *)
LEMMA WaitsFollow == RequestsMeant => WaitsMeant
<1> SUFFICES ASSUME RequestsMeant, NEW p \in Places, OpAt(p).kind = "wait", p[1] <= at
             PROVE  LET stored == StoredFor(OpAt(p), p[1]) IN
                        /\ {q[1] : q \in stored} = AwaitedBy(p[1])
                        /\ OpAt(p).mem.call # 0 =>
                            \A q, r \in stored : OpAt(q).slot = OpAt(r).slot => q = r
  BY Zenon DEF WaitsMeant
<1>1. AnswersMeant(p)
  BY DEF RequestsMeant, WaitsAnswered
<1>2. \A q \in StoredFor(OpAt(p), p[1]) : q \in NotBlocking /\ OpAt(q).mem = OpAt(p).mem
  BY Zenon DEF StoredFor, NotBlocking
<1>3. ElementsApart
  BY DEF RequestsMeant
<1> QED
  BY <1>1, <1>2, <1>3, Zenon DEF AnswersMeant, ElementsApart

-----------------------------------------------------------------------------
(***************************************************************************)
(* The end of the pass, and all steps.                                     *)
(***************************************************************************)
(* Cleaning up keeps an operation, with its array if a wait is for it.     *)
LEMMA CleanedOp ==
    ASSUME TypeOKConversion, text' = CleanedUp, NEW p \in Places
    PROVE  /\ p \in LivePlaces /\ OpAt(p).mem \in AwaitedArrays => OpAt(p)' = OpAt(p)
           /\ p \notin LivePlaces => OpAt(p)' = Gone
           /\ \/ OpAt(p)' = OpAt(p) \/ OpAt(p)' = Gone
              \/ /\ OpAt(p).mem \notin AwaitedArrays /\ OpAt(p)'.mem = NoArray
                 /\ OpAt(p)'.kind = OpAt(p).kind /\ OpAt(p)'.blocking = OpAt(p).blocking
<1>1. p = <<p[1], p[2]>> /\ p[1] \in DOMAIN text /\ p[2] \in DOMAIN text[p[1]]
  BY PlaceParts
<1>2. CleanedUp[p[1]][p[2]] =
        IF <<p[1], p[2]>> \notin LivePlaces THEN Gone
        ELSE IF text[p[1]][p[2]].mem \notin AwaitedArrays
             THEN [text[p[1]][p[2]] EXCEPT !.mem = NoArray, !.slot = 0]
        ELSE text[p[1]][p[2]]
  BY <1>1, Zenon DEF CleanedUp
<1>3. OpAt(p)' = IF p \notin LivePlaces THEN Gone
                 ELSE IF OpAt(p).mem \notin AwaitedArrays
                      THEN [OpAt(p) EXCEPT !.mem = NoArray, !.slot = 0]
                 ELSE OpAt(p)
  BY <1>1, <1>2, Zenon DEF OpAt
<1>4. OpAt(p) \in TextOp
  BY SlotTyped
<1>5. LET op == [OpAt(p) EXCEPT !.mem = NoArray, !.slot = 0] IN
        op.mem = NoArray /\ op.kind = OpAt(p).kind /\ op.blocking = OpAt(p).blocking
  <2> DEFINE old == OpAt(p)
  <2>1. old \in TextOp
    BY <1>4
  <2> HIDE DEF old
  <2>2. LET op == [old EXCEPT !.mem = NoArray, !.slot = 0] IN
          op.mem = NoArray /\ op.kind = old.kind /\ op.blocking = old.blocking
    BY <2>1 DEF TextOp
  <2> QED
    BY <2>2 DEF old
<1> QED
  BY <1>3, <1>5, Zenon

LEMMA FinishMeant ==
    ASSUME ConvInv, RequestInv, Finish
    PROVE  RequestInv'
<1>1. /\ status = "walk" /\ status' = "done" /\ at = Len(source) /\ at' = at
      /\ usedModel' = usedModel /\ source' = source
      /\ (text' = CleanedUp \/ text' = text)
  BY Zenon DEF Finish, Unchanged
<1>2. TypeOKConversion
  BY DEF ConvInv
<1>3. SUFFICES ASSUME PlainRequests' PROVE WaitsMeant'
  BY <1>1 DEF RequestInv, WaitsMeant
<1>4. PlainRequests /\ RequestsMeant /\ WaitsMeant
  BY <1>1, <1>3, SourceStays DEF RequestInv
<1>5. ASSUME NEW p \in Places', OpAt(p)'.kind = "wait", p[1] <= at'
      PROVE  /\ p \in Places /\ OpAt(p)' = OpAt(p) /\ StoredFor(OpAt(p), p[1])' = StoredFor(OpAt(p), p[1])
             /\ \A q \in StoredFor(OpAt(p), p[1]) : OpAt(q)' = OpAt(q)
  <2>1. CASE text' = text
    <3>1. Places' = Places /\ \A q : OpAt(q)' = OpAt(q)
      BY <2>1, SameText
    <3>2. StoredFor(OpAt(p), p[1])' = StoredFor(OpAt(p), p[1])
      BY <3>1, Zenon DEF StoredFor
    <3> QED
      BY <1>5, <3>1, <3>2
  <2>2. CASE text' = CleanedUp
    <3>1. Places' = Places
      BY <1>2, <2>2, CleanedUpIs, PlaceParts, Zenon
    <3>2. p \in Places /\ OpAt(p).kind = "wait" /\ p[1] <= at
      <4>1. p \in Places
        BY <1>5, <3>1
      <4> QED
        BY <1>1, <1>2, <1>5, <2>2, <4>1, CleanedOp, GoneTyped
    <3>3. OpAt(p).mem \in AwaitedArrays /\ OpAt(p).mem # NoArray
      <4>1. AnswersMeant(p)
        BY <1>4, <3>2 DEF RequestsMeant, WaitsAnswered
      <4> QED
        BY <3>2, <4>1 DEF AwaitedArrays, AnswersMeant
    <3>4. OpAt(p)' = OpAt(p)
      <4>1. IsNeeded(p)
        BY <3>2 DEF IsNeeded, PureKinds, BranchKinds
      <4> QED
        BY <1>2, <2>2, <3>2, <3>3, <4>1, CleanedOp, NeededLives
    <3>5. ASSUME NEW q \in NotBlocking, OpAt(q).mem = OpAt(p).mem
          PROVE  q \in Places /\ OpAt(q)' = OpAt(q)
      <4>1. q \in Places /\ OpAt(q).kind \in {"coll", "send", "recv"}
        BY <1>4 DEF RequestsMeant, StoresMeant, StoreMeant, NotBlocking
      <4>2. IsNeeded(q)
        BY <4>1 DEF IsNeeded, PureKinds, BranchKinds
      <4> QED
        BY <1>2, <2>2, <3>3, <3>5, <4>1, <4>2, CleanedOp, NeededLives
    <3>6. ASSUME NEW q \in Places, ~ OpAt(q)'.blocking, OpAt(q)'.mem = OpAt(p).mem
          PROVE  OpAt(q)' = OpAt(q)
      <4>1. Gone.blocking
        BY DEF Gone, Made
      <4> QED
        BY <1>2, <2>2, <3>3, <3>6, <4>1, CleanedOp
    <3> DEFINE S == StoredFor(OpAt(p), p[1])
               T == StoredFor(OpAt(p), p[1])'
    <3>7. \A q : q \in S <=> /\ q \in Places /\ q[1] <= p[1] /\ ~ OpAt(q).blocking
                             /\ OpAt(q).mem = OpAt(p).mem /\ OpAt(q).slot \in 0 .. (OpAt(p).count - 1)
      BY Zenon DEF StoredFor
    <3>8. \A q : q \in T <=> /\ q \in Places' /\ q[1] <= p[1] /\ ~ OpAt(q)'.blocking
                             /\ OpAt(q)'.mem = OpAt(p)'.mem /\ OpAt(q)'.slot \in 0 .. (OpAt(p)'.count - 1)
      BY Zenon DEF StoredFor
    <3> HIDE DEF S, T
    <3>9. \A q \in S : q \in T /\ OpAt(q)' = OpAt(q)
      <4>1. \A q \in S : q \in NotBlocking
        BY <3>7, Zenon DEF NotBlocking
      <4> QED
        BY <3>1, <3>4, <3>5, <3>7, <3>8, <4>1, Zenon
    <3>10. \A q \in T : q \in S
      BY <3>1, <3>4, <3>6, <3>7, <3>8, Zenon
    <3>11. S = T
      BY <3>9, <3>10
    <3> QED
      BY <3>2, <3>4, <3>9, <3>11 DEF S, T
  <2> QED
    BY <1>1, <2>1, <2>2
<1>6. \A j : AwaitedBy(j)' = AwaitedBy(j)
  BY <1>1, SourceStays
<1>7. ASSUME NEW p \in Places', OpAt(p)'.kind = "wait", p[1] <= at'
      PROVE  LET stored == StoredFor(OpAt(p), p[1])' IN
                /\ {q[1] : q \in stored} = AwaitedBy(p[1])'
                /\ OpAt(p)'.mem.call # 0 =>
                    \A q, r \in stored : OpAt(q)'.slot = OpAt(r)'.slot => q = r
  <2> DEFINE S == StoredFor(OpAt(p), p[1])
  <2>1. /\ p \in Places /\ OpAt(p)' = OpAt(p) /\ StoredFor(OpAt(p), p[1])' = S
        /\ \A q \in S : OpAt(q)' = OpAt(q)
    BY <1>5, <1>7
  <2>2. /\ {q[1] : q \in S} = AwaitedBy(p[1])
        /\ OpAt(p).mem.call # 0 => \A q, r \in S : OpAt(q).slot = OpAt(r).slot => q = r
    BY <1>1, <1>4, <1>7, <2>1, Zenon DEF WaitsMeant
  <2> HIDE DEF S
  <2> QED
    BY <1>6, <2>1, <2>2, Zenon
<1> QED
  BY <1>7, Zenon DEF WaitsMeant

(* At the start no operation has a request, and no wait has been made.     *)
LEMMA InitRequests ==
    ASSUME InitConversion
    PROVE  RequestInv
<1>1. text = InitialText(source) /\ at = 0 /\ source \in Seq(ApiCall) /\ status = "start"
  BY DEF InitConversion, CallsTyped
<1>2. mpi.requests = {} /\ nccl.num = 0
  BY DEF InitConversion, InitStatics, InitMPI, InitNCCL
<1>3. ASSUME NEW p \in Places
      PROVE  OpAt(p).blocking /\ OpAt(p).kind # "wait"
  <2>1. p[1] \in 0 .. Len(source) /\ p[2] \in DOMAIN text[p[1]]
    BY <1>1, PlaceParts DEF InitialText
  <2>2. CASE p[1] = 0
    <3>1. text[0] = <<>>
      BY <1>1 DEF InitialText
    <3> QED
      BY <2>1, <2>2, <3>1
  <2>3. CASE p[1] # 0
    <3> DEFINE fn == source[p[1]].fn
               kind == IF fn \in BranchKinds THEN fn ELSE "call"
               op == Made(source[p[1]].path, kind, fn, None)
    <3>1. text[p[1]] = <<op>>
      BY <1>1, <2>1, <2>3 DEF InitialText
    <3>2. op.blocking /\ op.kind = kind
      BY DEF Made
    <3>3. kind # "wait"
      BY DEF BranchKinds
    <3> HIDE DEF op
    <3>4. p[2] = 1 /\ <<op>>[1] = op
      BY <2>1, <3>1
    <3> QED
      BY <3>1, <3>2, <3>3, <3>4 DEF OpAt
  <2> QED
    BY <2>2, <2>3
<1>4. NotBlocking = {}
  BY <1>3 DEF NotBlocking
<1>5. RequestsMeant
  <2>1. \A i \in 1 .. at : StoredBy(i)
    BY <1>1
  <2>2. StoresMeant /\ ElementsApart /\ GroupFilled
    BY <1>2, <1>4 DEF StoresMeant, ElementsApart, GroupFilled
  <2>3. RequestsKnown
    BY <1>2 DEF RequestsKnown
  <2>4. \A i \in DOMAIN source : i > at => GivenOrCall(i)
    BY <1>1 DEF GivenOrCall
  <2>5. WaitsAnswered
    BY <1>3 DEF WaitsAnswered
  <2> QED
    BY <2>1, <2>2, <2>3, <2>4, <2>5 DEF RequestsMeant
<1> QED
  BY <1>1, <1>5 DEF RequestInv, WaitsMeant

(* Steps that leave the text and the walk where they are.                  *)
LEMMA SameRequests ==
    ASSUME RequestInv, text' = text, at' = at, source' = source, usedModel' = usedModel,
           mpi' = mpi, nccl' = nccl,
           status' = status \/ (status = "start" /\ status' = "walk")
    PROVE  RequestInv'
<1>1. Places' = Places /\ \A p : OpAt(p)' = OpAt(p)
  BY SameText
<1>2. /\ \A j : Stores(j)' <=> Stores(j)
      /\ \A j, k, op : StoreMeant(j, k, op)' <=> StoreMeant(j, k, op)
      /\ \A j : AwaitedBy(j)' = AwaitedBy(j)
      /\ RequestCalls' = RequestCalls /\ InitialText(source)' = InitialText(source)
      /\ PlainRequests' <=> PlainRequests
  BY SourceStays
<1>3. NotBlocking' = NotBlocking
  BY <1>1, Zenon DEF NotBlocking
<1>4. \A p : StoredFor(OpAt(p), p[1])' = StoredFor(OpAt(p), p[1])
  BY <1>1, Zenon DEF StoredFor
<1>5. RequestsMeant' <=> RequestsMeant
  <2>1. \A j : StoredBy(j)' <=> StoredBy(j)
    BY <1>2, Zenon DEF StoredBy
  <2>2. StoresMeant' <=> StoresMeant
    <3>1. \A q, op : op = OpAt(q)' =>
            (StoreMeant(q[1], q[2], OpAt(q))' <=> StoreMeant(q[1], q[2], op)')
      BY Zenon DEF StoreMeant, InPair, InVariable, InGroup
    <3>2. \A q : StoreMeant(q[1], q[2], OpAt(q))' <=> StoreMeant(q[1], q[2], OpAt(q))
      BY <1>1, <1>2, <3>1, Zenon
    <3> QED
      BY <1>1, <1>3, <3>2, Zenon DEF StoresMeant
  <2>3. ElementsApart' <=> ElementsApart
    BY <1>1, <1>3, Zenon DEF ElementsApart
  <2>4. GroupFilled' <=> GroupFilled
    BY <1>1, <1>3, Zenon DEF GroupFilled, NoEnd, ArrayOf, NoArray
  <2>5. RequestsKnown' <=> RequestsKnown
    BY <1>2, Zenon DEF RequestsKnown
  <2>6. \A j : GivenOrCall(j)' <=> GivenOrCall(j)
    BY <1>2, Zenon DEF GivenOrCall, GivenBy, WaitFor, Op, ArrayOf, NoArray
  <2>7. WaitsAnswered' <=> WaitsAnswered
    <3>1. \A p : AnswersMeant(p)' <=> AnswersMeant(p)
      BY <1>1, <1>2, <1>4, Zenon DEF AnswersMeant, NoArray
    <3> QED
      BY <1>1, <3>1, Zenon DEF WaitsAnswered
  <2> QED
    BY <2>1, <2>2, <2>3, <2>4, <2>5, <2>6, <2>7, Zenon DEF RequestsMeant
<1>6. CASE status' \in {"start", "walk"}
  <2>1. status \in {"start", "walk"}
    BY <1>6
  <2>2. ASSUME PlainRequests PROVE RequestsMeant' /\ WaitsMeant'
    <3>1. RequestsMeant /\ RequestsMeant'
      BY <1>5, <2>1, <2>2 DEF RequestInv
    <3>2. RequestsMeant' => WaitsMeant'
      BY WaitsFollow, PTL
    <3> QED
      BY <3>1, <3>2
  <2>3. ~ PlainRequests => WaitsMeant'
    BY <1>2, Zenon DEF WaitsMeant
  <2> QED
    BY <1>2, <2>2, <2>3, Zenon DEF RequestInv
<1>7. CASE status' \notin {"start", "walk"}
  <2>1. status' = status
    BY <1>7
  <2>2. WaitsMeant
    BY DEF RequestInv
  <2>3. ASSUME status' \in {"walk", "done"}, PlainRequests',
               NEW p \in Places', OpAt(p)'.kind = "wait", p[1] <= at'
        PROVE  LET stored == StoredFor(OpAt(p), p[1])' IN
                  /\ {q[1] : q \in stored} = AwaitedBy(p[1])'
                  /\ OpAt(p)'.mem.call # 0 =>
                      \A q, r \in stored : OpAt(q)'.slot = OpAt(r)'.slot => q = r
    <3> DEFINE S == StoredFor(OpAt(p), p[1])
    <3>1. /\ p \in Places /\ OpAt(p)' = OpAt(p) /\ StoredFor(OpAt(p), p[1])' = S
          /\ p[1] <= at /\ status \in {"walk", "done"} /\ PlainRequests
      BY <1>1, <1>2, <1>4, <2>1, <2>3
    <3>2. /\ {q[1] : q \in S} = AwaitedBy(p[1])
          /\ OpAt(p).mem.call # 0 => \A q, r \in S : OpAt(q).slot = OpAt(r).slot => q = r
      BY <2>2, <2>3, <3>1 DEF WaitsMeant
    <3> HIDE DEF S
    <3> QED
      BY <1>1, <1>2, <3>1, <3>2
  <2>4. WaitsMeant'
    BY <2>3, Zenon DEF WaitsMeant
  <2> QED
    BY <1>7, <2>4 DEF RequestInv
<1> QED
  BY <1>6, <1>7

(* The steps of the walk.                                                  *)
LEMMA WalkMeant ==
    ASSUME ConvInv, RequestInv, NEW i, Visit(i), status' = status,
           RequestsMeant /\ PlainRequests => RequestsMeant'
    PROVE  RequestInv'
<1>1. status = "walk" /\ source' = source /\ usedModel' = usedModel
  BY DEF Visit
<1>2. PlainRequests' <=> PlainRequests
  BY <1>1, SourceStays
<1>3. CASE PlainRequests
  <2>1. RequestsMeant'
    BY <1>1, <1>3 DEF RequestInv
  <2>2. RequestsMeant' => WaitsMeant'
    BY WaitsFollow, PTL
  <2> QED
    BY <2>1, <2>2 DEF RequestInv
<1>4. CASE ~ PlainRequests
  BY <1>2, <1>4 DEF RequestInv, WaitsMeant
<1> QED
  BY <1>3, <1>4

LEMMA RequestsStep ==
    ConvInv /\ RequestInv /\ [NextConversion]_convVars => RequestInv'
<1> SUFFICES ASSUME ConvInv, RequestInv, [NextConversion]_convVars
             PROVE  RequestInv'
  OBVIOUS
<1>1. CASE StartWalk
  BY <1>1, SameRequests DEF StartWalk, Unchanged
<1>2. CASE FailConversion
  <2>1. status' = "failed"
    BY <1>2 DEF FailConversion
  <2> QED
    BY <2>1 DEF RequestInv, WaitsMeant
<1>3. CASE Finish
  BY <1>3, FinishMeant
<1>4. ASSUME NEW i \in DOMAIN source, PassCall(i) PROVE RequestInv'
  <2>1. Visit(i) /\ status' = status
    BY <1>4 DEF PassCall
  <2> QED
    BY <1>4, <2>1, PassMeant, WalkMeant
<1>5. ASSUME NEW i \in DOMAIN source, NEW how \in {"unreachable", "undefined"}, BreakOff(i, how)
      PROVE  RequestInv'
  <2>1. status' \notin {"start", "walk", "done"}
    BY <1>5 DEF BreakOff
  <2> QED
    BY <2>1 DEF RequestInv, WaitsMeant
<1>6. ASSUME NEW i \in DOMAIN source, ConvertCall(i) PROVE RequestInv'
  <2>1. CASE Converted(i, "mpi") /\ ConvertMPI(i)
    <3>1. Visit(i) /\ status' = status
      BY <2>1, Zenon DEF ConvertMPI, ProcessMPI, QueryMPI, CommunicateMPI, SendrecvMPI, IsendrecvMPI,
                  WaitMPI, SplitMPI, FreeMPI, MemoryMPI, RequestFreeMPI, ReplaceBy
    <3>2. RequestsMeant /\ PlainRequests => RequestsMeant'
      BY <2>1, <3>1, MPIMeant DEF ComesPlain, Comes
    <3> QED
      BY <3>1, <3>2, WalkMeant
  <2>2. CASE Converted(i, "nccl") /\ ConvertNCCL(i)
    <3>1. Visit(i) /\ status' = status
      BY <2>2, Zenon DEF ConvertNCCL, InitRankNCCL, GroupStartNCCL, GroupEndNCCL, CommunicateNCCL,
                  SplitNCCL, DestroyNCCL, QueryNCCL, MemoryNCCL, ReplaceBy
    <3>2. RequestsMeant /\ PlainRequests => RequestsMeant'
      BY <2>2, <3>1, NCCLMeant DEF ComesPlain, Comes
    <3> QED
      BY <3>1, <3>2, WalkMeant
  <2>3. CASE Converted(i, "shmem") /\ ConvertSHMEM(i)
    <3>1. Visit(i) /\ status' = status
      BY <2>3, Zenon DEF ConvertSHMEM, ProcessSHMEM, QuerySHMEM, CollectiveSHMEM, MemorySHMEM,
                  SplitSHMEM, DestroySHMEM, ReplaceBy
    <3>2. RequestsMeant /\ PlainRequests => RequestsMeant'
      BY <2>3, <3>1, SHMEMMeant DEF ComesPlain, Comes
    <3> QED
      BY <3>1, <3>2, WalkMeant
  <2>4. CASE BreakOffMPI(i) \/ BreakOffNCCL(i) \/ BreakOffSHMEM(i)
    <3>1. \E how \in {"unreachable", "undefined"} : BreakOff(i, how)
      BY <2>4, Zenon DEF BreakOffMPI, BreakOffNCCL, BreakOffSHMEM
    <3> QED
      BY <1>5, <3>1
  <2> QED
    BY <1>6, <2>1, <2>2, <2>3, <2>4, Zenon DEF ConvertCall
<1>7. CASE UNCHANGED convVars
  BY <1>7, SameRequests DEF convVars
<1> QED
  BY <1>1, <1>2, <1>3, <1>4, <1>6, <1>7, Zenon DEF NextConversion

-----------------------------------------------------------------------------
(***************************************************************************)
(* In all states, a wait is for the requests of exactly the calls that the *)
(* program waits for there, if the program has PlainRequests.              *)
(***************************************************************************)
THEOREM WaitsMeantAlways == SpecConversion => []WaitsMeant
<1>1. InitConversion => ConvInv /\ RequestInv
  BY InitKeeps, InitRequests
<1>2. ConvInv /\ RequestInv /\ [NextConversion]_convVars => (ConvInv /\ RequestInv)'
  BY StepKeeps, RequestsStep
<1>3. ConvInv /\ RequestInv => WaitsMeant
  BY DEF RequestInv
<1> QED
  BY <1>1, <1>2, <1>3, PTL DEF SpecConversion

=============================================================================
