----------------------- MODULE CheckCollectives_proofs -----------------------
(***************************************************************************)
(* Proofs about CheckCollectives, for every program, number of types of    *)
(* collectives and number of ranks: types and bounds first, then what the  *)
(* pass finds and reports.  The walk gives every collective the slot that  *)
(* the program alone determines, files every one it is to find, and none   *)
(* of them twice; a report blames a conditional around one of its          *)
(* collectives, inside (or itself) a multi-valued one, and no collective is*)
(* reported twice.                                                         *)
(***************************************************************************)
EXTENDS CheckCollectives, FiniteSetTheorems, SequenceTheorems, WellFoundedInduction, TLAPS

(* A non-empty set of natural numbers has a least element, and Min is it.  *)
LEMMA MinOfNats ==
    ASSUME NEW S \in SUBSET Nat, S # {}
    PROVE  Min(S) \in S /\ \A y \in S : Min(S) <= y
<1> DEFINE T == {0 .. x : x \in S}
<1>1. T \subseteq FiniteSubsetsOf(Nat) /\ T # {}
  <2>1. ASSUME NEW x \in S PROVE 0 .. x \in FiniteSubsetsOf(Nat)
    <3>1. IsFiniteSet(0 .. x)
      BY FS_Interval
    <3> QED
      BY <3>1 DEF FiniteSubsetsOf
  <2> QED
    BY <2>1
<1>2. PICK U \in T : \A V \in T : ~(<<V, U>> \in StrictSubsetOrdering(Nat))
  BY <1>1, FS_StrictSubsetOrderingWellFounded, WFMin
<1>3. PICK x \in S : U = 0 .. x
  OBVIOUS
<1>4. ASSUME NEW y \in S, y < x PROVE FALSE
  <2>1. 0 .. y \in T /\ 0 .. y \subseteq 0 .. x /\ 0 .. y # 0 .. x
    BY <1>4
  <2>2. <<0 .. y, 0 .. x>> \in StrictSubsetOrdering(Nat)
    <3>1. 0 .. y \in SUBSET Nat /\ 0 .. x \in SUBSET Nat
      OBVIOUS
    <3> HIDE DEF T
    <3> QED
      BY <2>1, <3>1 DEF StrictSubsetOrdering
  <2> QED
    BY <1>2, <1>3, <2>1, <2>2
<1>5. \E z \in S : \A y \in S : z <= y
  BY <1>4
<1> QED
  BY <1>5 DEF Min

-----------------------------------------------------------------------------
(* Programs.                                                               *)

(* The operations of a program are numbered from 1.                        *)
LEMMA ProgramDomain ==
    ASSUME NEW p, WellFormed(p)
    PROVE  /\ Len(p) \in Nat
           /\ DOMAIN p = 1 .. Len(p)
           /\ \A o \in DOMAIN p : p[o] \in Operation
BY DEF WellFormed

(* An operation's position is a sequence of pairs <<op, region>>.          *)
LEMMA PathType ==
    ASSUME NEW p, WellFormed(p), NEW o \in DOMAIN p
    PROVE  /\ p[o].path \in Seq((Nat \ {0}) \X {1, 2})
           /\ Len(p[o].path) \in Nat
           /\ DOMAIN p[o].path = 1 .. Len(p[o].path)
BY ProgramDomain DEF Operation

(* unifyCommWorlds changes nothing but the communicator of collectives.    *)
LEMMA UnifyKeeps ==
    ASSUME NEW p, WellFormed(p)
    PROVE  LET q == UnifyCommWorlds(p) IN
           /\ Len(q) = Len(p) /\ DOMAIN q = DOMAIN p
           /\ \A o \in DOMAIN p : /\ q[o].kind = p[o].kind
                                  /\ q[o].path = p[o].path
                                  /\ q[o].bounds = p[o].bounds
<1> DEFINE q == UnifyCommWorlds(p)
<1>1. DOMAIN q = DOMAIN p
  BY DEF UnifyCommWorlds
<1>2. \A o \in DOMAIN p : q[o].kind = p[o].kind /\ q[o].path = p[o].path /\ q[o].bounds = p[o].bounds
  BY ProgramDomain DEF UnifyCommWorlds, Operation
<1>3. Len(q) = Len(p)
  BY ProgramDomain DEF UnifyCommWorlds
<1> QED
  BY <1>1, <1>2, <1>3

(* The first commWorld comes no later than any other.                      *)
LEMMA FirstWorld ==
    ASSUME NEW p, WellFormed(p), NEW c \in Worlds(p)
    PROVE  Min(Worlds(p)) \in Worlds(p) /\ Min(Worlds(p)) <= c
<1>1. Worlds(p) \in SUBSET Nat /\ Worlds(p) # {}
  BY ProgramDomain DEF Worlds
<1> QED
  BY <1>1, MinOfNats

(* A program stays well formed under unifyCommWorlds.                      *)
LEMMA UnifyWellFormed ==
    ASSUME NEW p, WellFormed(p)
    PROVE  WellFormed(UnifyCommWorlds(p))
<1> DEFINE q == UnifyCommWorlds(p)
<1>1. DOMAIN q = 1 .. Len(p) /\ Len(p) \in Nat /\ DOMAIN p = 1 .. Len(p)
  BY ProgramDomain DEF UnifyCommWorlds
<1>2. ASSUME NEW o \in DOMAIN p, p[o].kind = "coll"
      PROVE  /\ q[o] = [p[o] EXCEPT !.comm = UnifiedComm(p[o].comm, p)]
             /\ q[o].comm = UnifiedComm(p[o].comm, p)
             /\ UnifiedComm(p[o].comm, p) \in 1 .. (o - 1)
             /\ p[UnifiedComm(p[o].comm, p)].kind \in CommKinds
  <2>1. p[o].comm \in 1 .. (o - 1) /\ p[p[o].comm].kind \in CommKinds
    BY <1>2 DEF WellFormed, OperandsDefined, OpsOf
  <2>2. UnifiedComm(p[o].comm, p) \in 1 .. (o - 1) /\ p[UnifiedComm(p[o].comm, p)].kind \in CommKinds
    <3>1. CASE p[o].comm \in Worlds(p)
      <4>1. Min(Worlds(p)) \in Worlds(p) /\ Min(Worlds(p)) <= p[o].comm
        BY <3>1, FirstWorld
      <4>2. UnifiedComm(p[o].comm, p) = Min(Worlds(p))
        BY <3>1 DEF UnifiedComm
      <4>3. Min(Worlds(p)) \in DOMAIN p /\ p[Min(Worlds(p))].kind = "world"
        BY <4>1 DEF Worlds
      <4> QED
        BY <1>1, <2>1, <4>1, <4>2, <4>3 DEF CommKinds
    <3>2. CASE p[o].comm \notin Worlds(p)
      BY <2>1, <3>2 DEF UnifiedComm
    <3> QED
      BY <3>1, <3>2
  <2>3. q[o] = [p[o] EXCEPT !.comm = UnifiedComm(p[o].comm, p)]
    BY <1>2 DEF UnifyCommWorlds
  <2>4. p[o] \in Operation
    BY ProgramDomain
  <2> QED
    BY <2>2, <2>3, <2>4 DEF Operation
<1>3. ASSUME NEW o \in DOMAIN p, p[o].kind # "coll"
      PROVE  q[o] = p[o]
  BY <1>3 DEF UnifyCommWorlds
<1>4. ASSUME NEW o \in DOMAIN p PROVE q[o] \in Operation
  <2>1. p[o] \in Operation
    BY ProgramDomain
  <2>2. CASE p[o].kind = "coll"
    <3> DEFINE c == UnifiedComm(p[o].comm, p)
    <3>1. c \in Nat
      BY <1>1, <1>2, <2>2
    <3>2. q[o] = [p[o] EXCEPT !.comm = c]
      BY <1>2, <2>2
    <3> HIDE DEF q, c
    <3> QED
      BY <2>1, <3>1, <3>2 DEF Operation
  <2>3. CASE p[o].kind # "coll"
    BY <1>3, <2>1, <2>3
  <2> QED
    BY <2>2, <2>3
<1>5. q \in Seq(Operation)
  <2>1. q = [o \in 1 .. Len(p) |-> q[o]]
    BY <1>1 DEF UnifyCommWorlds
  <2> HIDE DEF q
  <2> QED
    BY <1>1, <1>4, <2>1, IsASeq
<1>6. /\ DOMAIN q = DOMAIN p
      /\ \A o \in DOMAIN p : q[o].kind = p[o].kind /\ q[o].path = p[o].path /\ q[o].bounds = p[o].bounds
  BY UnifyKeeps
<1> HIDE DEF q
<1>7. PathsNested(q)
  <2> DEFINE Nested(o, path, k) ==
                LET r == path[k][1] IN
                    /\ r \in 1 .. (o - 1)
                    /\ IsBranch(q, r)
                    /\ path[k][2] = 2 => q[r].kind = "if"
                    /\ q[r].path = SubSeq(path, 1, k - 1)
  <2>1. ASSUME NEW o \in DOMAIN p, NEW k \in 1 .. Len(p[o].path)
        PROVE  Nested(o, p[o].path, k)
    <3>1. LET r == p[o].path[k][1] IN
            /\ r \in 1 .. (o - 1)
            /\ IsBranch(p, r)
            /\ p[o].path[k][2] = 2 => p[r].kind = "if"
            /\ p[r].path = SubSeq(p[o].path, 1, k - 1)
      BY DEF WellFormed, PathsNested, OpsOf
    <3>2. p[o].path[k][1] \in DOMAIN p
      BY <1>1, <3>1
    <3> QED
      BY <1>6, <3>1, <3>2 DEF IsBranch
  <2> HIDE DEF Nested
  <2>2. ASSUME NEW o \in DOMAIN q, NEW k \in 1 .. Len(q[o].path)
        PROVE  Nested(o, q[o].path, k)
    <3>1. o \in DOMAIN p /\ q[o].path = p[o].path
      BY <1>6
    <3> QED
      BY <2>1, <3>1
  <2> QED
    BY <2>2 DEF PathsNested, OpsOf, Nested
<1>8. SubtreesConsecutive(q)
  <2>1. SubtreesConsecutive(p)
    BY DEF WellFormed
  <2> SUFFICES ASSUME NEW o \in DOMAIN p, NEW k \in 1 .. Len(p[o].path), NEW j \in DOMAIN p,
                      p[o].path[k][1] < j, j < o
               PROVE  /\ Len(p[j].path) >= k
                      /\ p[j].path[k][1] = p[o].path[k][1]
                      /\ p[j].path[k][2] <= p[o].path[k][2]
    BY <1>6 DEF SubtreesConsecutive, OpsOf
  <2> QED
    BY <2>1 DEF SubtreesConsecutive, OpsOf
<1>9. OperandsDefined(q)
  BY <1>1, <1>2, <1>6 DEF WellFormed, OperandsDefined, OpsOf
<1> QED
  BY <1>5, <1>7, <1>8, <1>9 DEF WellFormed, q

-----------------------------------------------------------------------------
(* The enclosing operations of a collective.                               *)

(* getEnclosingOps returns operations of the program, one for each level.  *)
LEMMA EnclosingType ==
    ASSUME NEW p, WellFormed(p), NEW o \in DOMAIN p
    PROVE  /\ EnclosingOps(o, p) \in Seq(DOMAIN p)
           /\ Len(EnclosingOps(o, p)) = Len(p[o].path)
           /\ \A k \in 1 .. Len(p[o].path) : EnclosingOps(o, p)[k] = p[o].path[k][1]
<1>1. Len(p[o].path) \in Nat /\ DOMAIN p[o].path = 1 .. Len(p[o].path)
  BY PathType
<1>2. \A k \in 1 .. Len(p[o].path) : p[o].path[k][1] \in DOMAIN p
  BY ProgramDomain DEF WellFormed, PathsNested, OpsOf
<1> QED
  BY <1>1, <1>2 DEF EnclosingOps

(* The list that getPDFP keeps is the beginning of the enclosing ones.     *)
LEMMA ShortenedType ==
    ASSUME NEW p, WellFormed(p), NEW o \in DOMAIN p
    PROVE  /\ Shortened(o, p) \in Seq(DOMAIN p)
           /\ Len(Shortened(o, p)) <= Len(p[o].path)
           /\ \A k \in 1 .. Len(Shortened(o, p)) : Shortened(o, p)[k] = p[o].path[k][1]
<1> DEFINE n == Len(p[o].path)
           c == Cardinality(CountedLoops(o, p))
           e == EnclosingOps(o, p)
<1>1. n \in Nat /\ e \in Seq(DOMAIN p) /\ Len(e) = n /\ \A k \in 1 .. n : e[k] = p[o].path[k][1]
  BY EnclosingType, PathType
<1>2. c \in Nat
  <2>1. CountedLoops(o, p) \in SUBSET (1 .. n)
    BY <1>1 DEF CountedLoops
  <2>2. IsFiniteSet(1 .. n)
    BY <1>1, FS_Interval
  <2>3. IsFiniteSet(CountedLoops(o, p))
    BY <2>1, <2>2, FS_Subset
  <2> QED
    BY <2>3, FS_CardinalityType
<1>3. Shortened(o, p) = SubSeq(e, 1, n - c)
  BY DEF Shortened
<1> HIDE DEF n, c, e
<1>4. \A k \in 1 .. (n - c) : e[k] \in DOMAIN p
  BY <1>1, <1>2
<1>5. /\ SubSeq(e, 1, n - c) \in Seq(DOMAIN p)
      /\ Len(SubSeq(e, 1, n - c)) = IF 1 <= n - c THEN n - c ELSE 0
      /\ \A k \in 1 .. (n - c) : SubSeq(e, 1, n - c)[k] = e[k]
  BY <1>1, <1>2, <1>4, SubSeqProperties
<1> QED
  BY <1>1, <1>2, <1>3, <1>5 DEF n

(* fuse keeps lists of operations, and each list was there or is the new.  *)
LEMMA FuseType ==
    ASSUME NEW D, NEW lists \in Seq(Seq(D)), NEW l \in Seq(D)
    PROVE  /\ Fuse(lists, l) \in Seq(Seq(D))
           /\ \A i \in DOMAIN Fuse(lists, l) :
                Fuse(lists, l)[i] = l \/ \E j \in DOMAIN lists : Fuse(lists, l)[i] = lists[j]
<1> DEFINE like == {i \in DOMAIN lists : StartsSame(l, lists[i])}
<1>1. CASE Fuse(lists, l) = lists
  BY <1>1
<1>2. CASE Fuse(lists, l) = Append(lists, l)
  BY <1>2
<1>3. CASE like # {} /\ Fuse(lists, l) = [lists EXCEPT ![Min(like)] = l]
  <2>1. Min(like) \in DOMAIN lists
    <3>1. like \in SUBSET Nat
      OBVIOUS
    <3>2. Min(like) \in like
      BY <1>3, <3>1, MinOfNats
    <3> QED
      BY <3>2
  <2> HIDE DEF like
  <2> QED
    BY <1>3, <2>1
<1> QED
  BY <1>1, <1>2, <1>3 DEF Fuse

-----------------------------------------------------------------------------
(* The containers.                                                         *)

LEMMA NumClassesType == NumClasses \in Nat
BY TypeOrderAssumption DEF NumClasses

(* Every number up to NumClasses stands for a class.                       *)
LEMMA ClassAtType ==
    ASSUME NEW q \in 1 .. NumClasses
    PROVE  ClassAt(q) \in Classes
<1>1. Len(TypeOrder) \in Nat /\ DOMAIN TypeOrder = 1 .. Len(TypeOrder)
  BY TypeOrderAssumption
<1>2. (q + 1) \div 2 \in 1 .. Len(TypeOrder)
  BY <1>1 DEF NumClasses
<1>3. TypeOrder[(q + 1) \div 2] \in CollTypes
  BY <1>1, <1>2 DEF CollTypes
<1> QED
  BY <1>3 DEF ClassAt, Classes

LEMMA ClassType ==
    ASSUME NEW p, WellFormed(p), NEW o \in DOMAIN p
    PROVE  Class(o, p) \in Classes
BY ProgramDomain DEF Class, Classes, Operation

(* increaseContainerSizesIfNeeded makes room for the slot counter when no  *)
(* slot before it is missing, and keeps what is filed.                     *)
LEMMA GrownType ==
    ASSUME NEW D, NEW ord \in Seq([Classes -> Seq(D)]), NEW c \in Nat, c <= Len(ord)
    PROVE  /\ Grown(ord, c) \in Seq([Classes -> Seq(D)])
           /\ c + 1 \in DOMAIN Grown(ord, c)
           /\ Len(ord) <= Len(Grown(ord, c))
           /\ c + 1 <= Len(Grown(ord, c))
           /\ \A s \in DOMAIN Grown(ord, c) :
                \/ s \in DOMAIN ord /\ Grown(ord, c)[s] = ord[s]
                \/ Grown(ord, c)[s] = EmptySlot
<1>1. EmptySlot \in [Classes -> Seq(D)]
  BY DEF EmptySlot
<1>2. CASE c = Len(ord)
  <2>1. Grown(ord, c) = Append(ord, EmptySlot)
    BY <1>2 DEF Grown
  <2> QED
    BY <1>1, <1>2, <2>1, AppendProperties
<1>3. CASE c # Len(ord)
  BY <1>3 DEF Grown
<1> QED
  BY <1>2, <1>3

(* Filing an operation changes one container of one slot.                  *)
LEMMA FiledType ==
    ASSUME NEW D, NEW ord \in Seq([Classes -> Seq(D)]), NEW s \in DOMAIN ord, NEW k \in Classes,
           NEW o \in D
    PROVE  LET new == [ord EXCEPT ![s][k] = Append(@, o)] IN
           /\ new \in Seq([Classes -> Seq(D)])
           /\ Len(new) = Len(ord) /\ DOMAIN new = DOMAIN ord
           /\ \A t \in DOMAIN ord : \A c \in Classes :
                new[t][c] = IF t = s /\ c = k THEN Append(ord[s][k], o) ELSE ord[t][c]
<1> DEFINE slot == [ord[s] EXCEPT ![k] = Append(@, o)]
           new  == [ord EXCEPT ![s] = slot]
<1>1. ord[s] \in [Classes -> Seq(D)]
  OBVIOUS
<1>2. slot \in [Classes -> Seq(D)]
  BY <1>1
<1>3. [ord EXCEPT ![s][k] = Append(@, o)] = new
  OBVIOUS
<1>4. \A c \in Classes : slot[c] = IF c = k THEN Append(ord[s][k], o) ELSE ord[s][c]
  BY <1>1
<1> HIDE DEF slot
<1>5. new \in Seq([Classes -> Seq(D)]) /\ Len(new) = Len(ord) /\ DOMAIN new = DOMAIN ord
  BY <1>2
<1>6. \A t \in DOMAIN ord : new[t] = IF t = s THEN slot ELSE ord[t]
  OBVIOUS
<1> QED
  BY <1>3, <1>4, <1>5, <1>6

-----------------------------------------------------------------------------
(* Type correctness.                                                       *)

(* While getPDFP works on a container, there is one.                       *)
CellInRange ==
    pc \in {"fuse", "scan"} => cell.class <= NumClasses /\ cell.slot <= Len(order)

(* Before runOnOperation has begun, nothing is collected or reported.      *)
NothingYet ==
    pc = "start" => comms = {} /\ comm = 0 /\ order = <<>> /\ stack = <<>> /\ pdfp = <<>> /\ errors = <<>>

TypeInv == TypeOK /\ CellInRange /\ NothingYet /\ SlotsInBounds

(* The members of the container at hand are operations.                    *)
LEMMA MembersType ==
    ASSUME TypeOK, cell.class <= NumClasses, cell.slot <= Len(order)
    PROVE  Members \in Seq(DOMAIN prog)
<1>1. cell.class \in 1 .. NumClasses /\ cell.slot \in 1 .. Len(order)
  BY NumClassesType DEF TypeOK
<1>2. ClassAt(cell.class) \in Classes
  BY <1>1, ClassAtType
<1> QED
  BY <1>1, <1>2 DEF TypeOK, Members

(* The running activation, and the operation it deals with next.           *)
LEMMA TopType ==
    ASSUME TypeOK, stack # <<>>
    PROVE  /\ Top \in ActivationType
           /\ Callers \in Seq(ActivationType)
           /\ Len(Callers) = Len(stack) - 1
           /\ \A i \in 1 .. Len(Callers) : Callers[i] = stack[i]
<1>1. stack \in Seq(ActivationType) /\ Len(stack) \in Nat /\ Len(stack) # 0
  BY DEF TypeOK
<1>2. Top \in ActivationType
  BY <1>1 DEF Top
<1> DEFINE n == Len(stack) - 1
<1>3. n \in Nat /\ \A i \in 1 .. n : stack[i] \in ActivationType
  BY <1>1
<1> HIDE DEF n
<1>4. /\ SubSeq(stack, 1, n) \in Seq(ActivationType)
      /\ Len(SubSeq(stack, 1, n)) = IF 1 <= n THEN n - 1 + 1 ELSE 0
      /\ \A i \in 1 .. (n - 1 + 1) : SubSeq(stack, 1, n)[i] = stack[1 + i - 1]
  BY <1>3, SubSeqProperties
<1>5. /\ Len(SubSeq(stack, 1, n)) = n
      /\ \A i \in 1 .. n : SubSeq(stack, 1, n)[i] = stack[i]
  BY <1>1, <1>3, <1>4
<1> QED
  BY <1>2, <1>4, <1>5 DEF Callers, n

LEMMA AtOpType ==
    ASSUME TypeOK, NEW o, AtOp(o)
    PROVE  /\ o \in DOMAIN prog
           /\ prog[o].path = Top.region
           /\ Top.at < o
           /\ \A j \in DOMAIN prog : prog[j].path = Top.region /\ Top.at < j => o <= j
           /\ Past(o) = [Top EXCEPT !.at = o]
           /\ Past(o) \in ActivationType
           /\ Past(o).region = Top.region /\ Past(o).at = o /\ Past(o).counter = Top.counter
<1>1. stack # <<>> /\ Ahead(Top, prog) # {} /\ o = Min(Ahead(Top, prog))
  BY DEF AtOp, NextOp
<1>2. Ahead(Top, prog) \in SUBSET Nat
  BY ProgramDomain DEF Ahead, TypeOK
<1>3. o \in Ahead(Top, prog) /\ \A j \in Ahead(Top, prog) : o <= j
  BY <1>1, <1>2, MinOfNats
<1>4. o \in Nat /\ Top \in ActivationType
  BY <1>1, <1>2, <1>3, TopType
<1> QED
  BY <1>3, <1>4 DEF Ahead, Past, ActivationType

(* The activations for the regions of an operation.                        *)
LEMMA ActivationIsType ==
    ASSUME TypeOK, NEW o \in DOMAIN prog, NEW r \in {1, 2}, NEW c \in Nat
    PROVE  Activation(Body(o, r, prog), o, c) \in ActivationType
<1>1. prog[o].path \in Seq((Nat \ {0}) \X {1, 2}) /\ o \in Nat \ {0}
  BY PathType, ProgramDomain DEF TypeOK
<1> QED
  BY <1>1 DEF Activation, ActivationType, Body

(* The counters of the activations stay within the containers.             *)
LEMMA CountersBounded ==
    ASSUME TypeOK, SlotsInBounds, stack # <<>>
    PROVE  /\ Len(order) \in Nat
           /\ Top.counter \in Nat /\ Top.counter <= Len(order)
           /\ \A i \in DOMAIN Callers : Callers[i].counter <= Len(order)
<1>1. stack \in Seq(ActivationType) /\ Len(stack) \in DOMAIN stack /\ Len(order) \in Nat
  BY DEF TypeOK
<1>2. Top \in ActivationType /\ Top.counter <= Len(order)
  BY <1>1, TopType DEF Top, SlotsInBounds
<1>3. ASSUME NEW i \in DOMAIN Callers PROVE Callers[i].counter <= Len(order)
  <2>1. Callers[i] = stack[i] /\ i \in DOMAIN stack
    BY <1>1, TopType
  <2> QED
    BY <2>1 DEF SlotsInBounds
<1> QED
  BY <1>1, <1>2, <1>3 DEF ActivationType

(* Pushing activations whose counters are bounded.                         *)
LEMMA Pushed ==
    ASSUME NEW n \in Nat,
           NEW s \in Seq(ActivationType), \A i \in DOMAIN s : s[i].counter <= n,
           NEW u \in Seq(ActivationType), \A i \in DOMAIN u : u[i].counter <= n
    PROVE  /\ s \o u \in Seq(ActivationType)
           /\ \A i \in DOMAIN (s \o u) : (s \o u)[i].counter <= n
<1>1. /\ s \o u \in Seq(ActivationType)
      /\ DOMAIN (s \o u) = 1 .. (Len(s) + Len(u))
      /\ \A i \in 1 .. Len(s) : (s \o u)[i] = s[i]
      /\ \A i \in (Len(s) + 1) .. (Len(s) + Len(u)) : (s \o u)[i] = u[i - Len(s)]
  OBVIOUS
<1> QED
  BY <1>1

LEMMA InitTypeInv == Init => TypeInv
BY DEF Init, InitPass, TypeInv, TypeOK, CellInRange, NothingYet, SlotsInBounds, Phases

(* The scan of one list yields operations of the program.                  *)
LEMMA ScanType ==
    ASSUME NEW p, WellFormed(p), NEW l \in Seq(DOMAIN p), NEW members, NEW counts
    PROVE  /\ FirstMV(l, p) \in 1 .. (Len(l) + 1)
           /\ FirstMV(l, p) <= Len(l) => p[l[FirstMV(l, p)]].mv
           /\ StopAt(l, members, p, counts) \in FirstMV(l, p) .. (Len(l) + 1)
<1>1. Len(l) \in Nat /\ DOMAIN l = 1 .. Len(l)
  OBVIOUS
<1> DEFINE M == {k \in DOMAIN l : p[l[k]].mv} \union {Len(l) + 1}
<1>2. M \in SUBSET Nat /\ M # {}
  BY <1>1
<1>3. FirstMV(l, p) \in M
  BY <1>2, MinOfNats DEF FirstMV
<1>4. FirstMV(l, p) \in 1 .. (Len(l) + 1) /\ (FirstMV(l, p) <= Len(l) => p[l[FirstMV(l, p)]].mv)
  BY <1>1, <1>3
<1> DEFINE C == CausesIn(l, members, p, counts) \union {Len(l) + 1}
<1>5. C \subseteq FirstMV(l, p) .. (Len(l) + 1)
  BY <1>1, <1>4 DEF CausesIn
<1>6. C \in SUBSET Nat /\ C # {}
  BY <1>4, <1>5
<1>7. StopAt(l, members, p, counts) \in C
  BY <1>6, MinOfNats DEF StopAt
<1> QED
  BY <1>4, <1>5, <1>7

LEMMA NextTypeInv == TypeInv /\ [Next]_vars => TypeInv'
<1> SUFFICES ASSUME TypeInv, [Next]_vars PROVE TypeInv'
  OBVIOUS
<1> USE DEF TypeInv, CellInRange, NothingYet, SlotsInBounds
<1>0. [cell EXCEPT !.slot = @ + 1] \in [class : Nat \ {0}, slot : Nat \ {0}]
  <2>1. cell \in [class : Nat \ {0}, slot : Nat \ {0}]
    BY DEF TypeOK
  <2> HIDE DEF TypeInv
  <2> QED
    BY <2>1
<1>1. CASE Start
  <2>1. DOMAIN UnifyCommWorlds(prog) = DOMAIN prog
    BY UnifyKeeps DEF TypeOK
  <2>2. WellFormed(UnifyCommWorlds(prog))
    BY UnifyWellFormed DEF TypeOK
  <2> QED
    BY <1>1, <2>1, <2>2 DEF Start, Comms, TypeOK, Phases, walkVars, pdfVars
<1>2. CASE NoMain
  BY <1>2 DEF NoMain, TypeOK, Phases, walkVars, pdfVars
<1>3. CASE NextComm
  <2>1. Min(CommsLeft) \in CommsLeft
    <3>1. CommsLeft \in SUBSET Nat
      BY ProgramDomain DEF CommsLeft, TypeOK
    <3> QED
      BY <1>3, <3>1, MinOfNats DEF NextComm
  <2>2. Activation(<<>>, 0, 0) \in ActivationType
    BY DEF Activation, ActivationType
  <2>3. /\ stack' \in Seq(ActivationType) /\ order' = <<>>
        /\ \A i \in DOMAIN stack' : stack'[i].counter <= Len(order')
    BY <1>3, <2>2 DEF NextComm, Activation
  <2>4. order' \in Seq([Classes -> Seq(DOMAIN prog)])
    BY <2>3
  <2>5. comm' \in comms
    BY <1>3, <2>1 DEF NextComm, CommsLeft
  <2> QED
    BY <1>3, <2>3, <2>4, <2>5 DEF NextComm, TypeOK, Phases, pdfVars
<1>4. CASE Report
  BY <1>4 DEF Report, TypeOK, Phases, walkVars, pdfVars
<1>5. ASSUME NEW o \in DOMAIN prog, Collect(o) PROVE TypeInv'
  <2>1. AtOp(o) /\ pc = "collect" /\ stack # <<>>
    BY <1>5 DEF Collect, AtOp
  <2>2. /\ Top \in ActivationType /\ Callers \in Seq(ActivationType)
        /\ Len(Callers) = Len(stack) - 1 /\ \A i \in 1 .. Len(Callers) : Callers[i] = stack[i]
    BY <2>1, TopType
  <2>3. Top.counter \in Nat /\ Top.counter <= Len(order)
    BY <2>1, <2>2, SMTT(30) DEF Top, ActivationType, TypeOK
  <2> DEFINE g == Grown(order, Top.counter)
             s == Top.counter + 1
             k == Class(o, prog)
             f == [Past(o) EXCEPT !.counter = @ + 1]
  <2>4. order' = [g EXCEPT ![s][k] = Append(@, o)] /\ stack' = Append(Callers, f)
    BY <1>5 DEF Collect
  <2>5. /\ g \in Seq([Classes -> Seq(DOMAIN prog)]) /\ s \in DOMAIN g
        /\ Len(order) <= Len(g) /\ s <= Len(g)
    BY <2>3, GrownType DEF TypeOK
  <2>6. k \in Classes
    BY ClassType DEF TypeOK
  <2>7. f \in ActivationType /\ f.counter = s
    BY <2>1, <2>3, AtOpType DEF ActivationType
  <2> HIDE DEF g, s, k, f
  <2>8. order' \in Seq([Classes -> Seq(DOMAIN prog)]) /\ Len(order') = Len(g)
    BY <2>4, <2>5, <2>6, FiledType
  <2>9. stack' \in Seq(ActivationType)
    BY <2>2, <2>4, <2>7
  <2>10. \A i \in DOMAIN stack' : stack'[i].counter <= Len(order')
    <3> SUFFICES ASSUME NEW i \in DOMAIN stack' PROVE stack'[i].counter <= Len(order')
      OBVIOUS
    <3>1. CASE i \in 1 .. Len(Callers)
      <4>1. stack'[i] = stack[i] /\ i \in DOMAIN stack /\ stack[i] \in ActivationType
        BY <2>2, <2>4, <3>1 DEF TypeOK
      <4>2. stack[i].counter <= Len(order) /\ stack[i].counter \in Nat
        BY <4>1 DEF ActivationType
      <4> QED
        BY <2>5, <2>8, <4>1, <4>2 DEF TypeOK
    <3>2. CASE i = Len(Callers) + 1
      BY <2>2, <2>4, <2>5, <2>7, <2>8, <3>2
    <3> QED
      BY <2>2, <2>4, <3>1, <3>2
  <2> QED
    BY <1>5, <2>1, <2>8, <2>9, <2>10 DEF Collect, TypeOK, pdfVars
<1>6. ASSUME NEW o \in DOMAIN prog, EnterIf(o) PROVE TypeInv'
  <2>1. AtOp(o) /\ pc = "collect" /\ stack # <<>>
    BY <1>6 DEF EnterIf, AtOp
  <2>2. /\ Callers \in Seq(ActivationType) /\ \A i \in DOMAIN Callers : Callers[i].counter <= Len(order)
        /\ Top.counter \in Nat /\ Top.counter <= Len(order) /\ Len(order) \in Nat
    BY <2>1, TopType, CountersBounded
  <2> DEFINE u == << Past(o), Activation(Body(o, 2, prog), o, Top.counter),
                   Activation(Body(o, 1, prog), o, Top.counter) >>
  <2>3. stack' = Callers \o u
    BY <1>6, <2>2 DEF EnterIf
  <2>4. u \in Seq(ActivationType) /\ \A i \in DOMAIN u : u[i].counter <= Len(order)
    BY <2>1, <2>2, AtOpType, ActivationIsType DEF Activation
  <2> HIDE DEF u
  <2>5. stack' \in Seq(ActivationType) /\ \A i \in DOMAIN stack' : stack'[i].counter <= Len(order)
    BY <2>2, <2>3, <2>4, Pushed
  <2> QED
    BY <1>6, <2>1, <2>5 DEF EnterIf, TypeOK, pdfVars
<1>7. ASSUME NEW o \in DOMAIN prog, EnterFor(o) PROVE TypeInv'
  <2>1. AtOp(o) /\ pc = "collect" /\ stack # <<>>
    BY <1>7 DEF EnterFor, AtOp
  <2>2. /\ Callers \in Seq(ActivationType) /\ \A i \in DOMAIN Callers : Callers[i].counter <= Len(order)
        /\ Top.counter \in Nat /\ Top.counter <= Len(order) /\ Len(order) \in Nat
    BY <2>1, TopType, CountersBounded
  <2> DEFINE u == << Past(o), Activation(Body(o, 1, prog), o, Top.counter) >>
  <2>3. stack' = Callers \o u
    BY <1>7, <2>2 DEF EnterFor
  <2>4. u \in Seq(ActivationType) /\ \A i \in DOMAIN u : u[i].counter <= Len(order)
    BY <2>1, <2>2, AtOpType, ActivationIsType DEF Activation
  <2> HIDE DEF u
  <2>5. stack' \in Seq(ActivationType) /\ \A i \in DOMAIN stack' : stack'[i].counter <= Len(order)
    BY <2>2, <2>3, <2>4, Pushed
  <2> QED
    BY <1>7, <2>1, <2>5 DEF EnterFor, TypeOK, pdfVars
<1>8. ASSUME NEW o \in DOMAIN prog, PassOver(o) PROVE TypeInv'
  <2>1. AtOp(o) /\ pc = "collect" /\ stack # <<>>
    BY <1>8 DEF PassOver, AtOp
  <2>2. /\ Callers \in Seq(ActivationType) /\ \A i \in DOMAIN Callers : Callers[i].counter <= Len(order)
        /\ Top.counter \in Nat /\ Top.counter <= Len(order) /\ Len(order) \in Nat
    BY <2>1, TopType, CountersBounded
  <2> DEFINE u == << Past(o) >>
  <2>3. stack' = Callers \o u
    BY <1>8, <2>2 DEF PassOver
  <2>4. u \in Seq(ActivationType) /\ \A i \in DOMAIN u : u[i].counter <= Len(order)
    BY <2>1, <2>2, AtOpType
  <2> HIDE DEF u
  <2>5. stack' \in Seq(ActivationType) /\ \A i \in DOMAIN stack' : stack'[i].counter <= Len(order)
    BY <2>2, <2>3, <2>4, Pushed
  <2> QED
    BY <1>8, <2>1, <2>5 DEF PassOver, TypeOK, pdfVars
<1>9. CASE Return
  <2>1. stack # <<>>
    BY <1>9 DEF Return
  <2>2. stack' \in Seq(ActivationType) /\ \A i \in DOMAIN stack' : stack'[i].counter <= Len(order)
    BY <1>9, <2>1, TopType, CountersBounded DEF Return
  <2>3. pc' \in Phases \ {"start", "fuse", "scan"} /\ cell' \in [class : Nat \ {0}, slot : Nat \ {0}]
    BY <1>9 DEF Return, TypeOK, Phases
  <2> QED
    BY <1>9, <2>2, <2>3 DEF Return, TypeOK, pdfVars
<1>10. CASE SkipContainer
  BY <1>0, <1>10 DEF SkipContainer, NextCell, TypeOK, walkVars, pdfVars
<1>11. CASE NextClass
  BY <1>11 DEF NextClass, TypeOK, walkVars, pdfVars
<1>12. CASE EndCheck
  BY <1>12 DEF EndCheck, TypeOK, Phases, walkVars, pdfVars
<1>13. CASE StartPDFP
  <2>1. Members \in Seq(DOMAIN prog)
    BY <1>13, MembersType DEF StartPDFP
  <2>2. DOMAIN numExec' \subseteq DOMAIN prog
    BY <1>13, <2>1 DEF StartPDFP, TypeOK
  <2> QED
    BY <1>13, <2>2 DEF StartPDFP, TypeOK, Phases, walkVars
<1>14. CASE FuseMember
  <2>1. Members \in Seq(DOMAIN prog) /\ Members[next] \in DOMAIN prog
    <3>1. Members \in Seq(DOMAIN prog)
      BY <1>14, MembersType DEF FuseMember
    <3> QED
      BY <1>14, <3>1 DEF FuseMember, TypeOK
  <2>2. Shortened(Members[next], prog) \in Seq(DOMAIN prog)
    BY <2>1, ShortenedType DEF TypeOK
  <2>3. fused' \in Seq(Seq(DOMAIN prog))
    BY <1>14, <2>2, FuseType DEF FuseMember, TypeOK
  <2> QED
    BY <1>14, <2>3 DEF FuseMember, TypeOK, walkVars
<1>15. CASE EndFuse
  BY <1>15 DEF EndFuse, TypeOK, Phases, walkVars, pdfVars
<1>16. CASE ScanList
  <2> DEFINE l    == Head(fused)
             stop == StopAt(l, Members, prog, numExec)
             from == FirstMV(l, prog)
  <2>1. l \in Seq(DOMAIN prog) /\ Tail(fused) \in Seq(Seq(DOMAIN prog))
    BY <1>16 DEF ScanList, TypeOK
  <2>2. from \in 1 .. (Len(l) + 1) /\ stop \in from .. (Len(l) + 1)
    BY <2>1, ScanType DEF TypeOK
  <2>3. \A k \in from .. Len(l) : l[k] \in DOMAIN prog
    BY <2>1, <2>2
  <2>4. stop <= Len(l) => l[stop] \in DOMAIN prog
    BY <2>2, <2>3
  <2>5. pdfp' \in Seq(DOMAIN prog)
    <3>1. CASE stop <= Len(l)
      <4>1. pdfp' = Append(pdfp, l[stop]) /\ pdfp \in Seq(DOMAIN prog)
        BY <1>16, <3>1 DEF ScanList, TypeOK
      <4> QED
        BY <2>4, <3>1, <4>1, AppendProperties
    <3>2. CASE ~(stop <= Len(l))
      BY <1>16, <3>2 DEF ScanList, TypeOK
    <3> QED
      BY <3>1, <3>2
  <2>6. checked' \subseteq DOMAIN prog
    BY <1>16, <2>3 DEF ScanList, TypeOK
  <2> QED
    BY <1>16, <2>1, <2>5, <2>6 DEF ScanList, TypeOK, walkVars
<1>17. CASE EndPDFP
  <2>1. Members \in Seq(DOMAIN prog)
    BY <1>17, MembersType DEF EndPDFP
  <2>2. errors' \in Seq([conflict : Seq(DOMAIN prog), causing : Seq(DOMAIN prog)])
    <3> DEFINE E == [conflict : Seq(DOMAIN prog), causing : Seq(DOMAIN prog)]
               e == [conflict |-> Members, causing |-> pdfp]
    <3>1. e \in E /\ errors \in Seq(E)
      BY <2>1 DEF TypeOK
    <3>2. errors' = errors \/ errors' = Append(errors, e)
      BY <1>17 DEF EndPDFP
    <3> HIDE DEF E, e
    <3>3. errors' \in Seq(E)
      BY <3>1, <3>2, AppendProperties
    <3> QED
      BY <3>3 DEF E
  <2> QED
    BY <1>0, <1>17, <2>2 DEF EndPDFP, NextCell, TypeOK, Phases, walkVars, pdfVars
<1>18. CASE UNCHANGED vars
  BY <1>18 DEF vars, walkVars, pdfVars, TypeOK, Members
<1> QED
  BY <1>1, <1>2, <1>3, <1>4, <1>5, <1>6, <1>7, <1>8, <1>9, <1>10, <1>11, <1>12,
     <1>13, <1>14, <1>15, <1>16, <1>17, <1>18 DEF Next, Walk

(***************************************************************************)
(* The variables keep their types, and the program stays well formed, on   *)
(* every program and for every number of ranks.                            *)
(***************************************************************************)
THEOREM TypeCorrect == Spec => []TypeOK
<1>1. Spec => []TypeInv
  BY InitTypeInv, NextTypeInv, PTL DEF Spec
<1> QED
  BY <1>1, PTL DEF TypeInv

(***************************************************************************)
(* No activation of the walk indexes a container past the slots there are, *)
(* on every program.                                                       *)
(***************************************************************************)
THEOREM SlotsStayInBounds == Spec => []SlotsInBounds
<1>1. Spec => []TypeInv
  BY InitTypeInv, NextTypeInv, PTL DEF Spec
<1> QED
  BY <1>1, PTL DEF TypeInv

-----------------------------------------------------------------------------
(***************************************************************************)
(* Slots.                                                                  *)
(*                                                                         *)
(* What makes FiledInSlot inductive is a fact about every activation of    *)
(* iterateForCollectives: its by-value counter is the number of searched   *)
(* collectives, among the operations up to its position, that lie in its   *)
(* own region or in a region around it.                                    *)
(***************************************************************************)

(* The calls an activation has to count.                                   *)
Counted(f, p, c) ==
    {j \in 1 .. f.at : IsSearched(j, p, c) /\ Encloses(p[j].path, f.region)}

FrameCounts(f, p, c) ==
    /\ f.at <= Len(p)
    /\ \A k \in DOMAIN f.region : f.region[k][1] <= f.at
    /\ f.counter = Cardinality(Counted(f, p, c))

FramesCount == \A i \in DOMAIN stack : FrameCounts(stack[i], prog, comm)

SlotInv == TypeInv /\ FramesCount /\ FiledInSlot

-----------------------------------------------------------------------------
(* Two paths of which one encloses the other and that are as long are one. *)
LEMMA EnclosesEqual ==
    ASSUME NEW S, NEW r \in Seq(S), NEW s \in Seq(S), Len(r) = Len(s)
    PROVE  Encloses(r, s) <=> r = s
BY DEF Encloses

(* A path that encloses a region with one more step around it either       *)
(* encloses the region or is all of it.                                    *)
LEMMA EnclosesLonger ==
    ASSUME NEW S, NEW r \in Seq(S), NEW s \in Seq(S), NEW x \in S
    PROVE  /\ Encloses(r, s) => Encloses(r, Append(s, x))
           /\ Encloses(r, Append(s, x)) =>
                Encloses(r, s) \/ (Len(r) = Len(s) + 1 /\ r[Len(s) + 1] = x)
BY DEF Encloses

(* The counted calls of an activation are finitely many.                   *)
LEMMA CountedFinite ==
    ASSUME NEW f \in ActivationType
    PROVE  IsFiniteSet(Counted(f, prog, comm))
<1>1. f.at \in Nat
  BY DEF ActivationType
<1>2. IsFiniteSet(1 .. f.at) /\ Counted(f, prog, comm) \in SUBSET (1 .. f.at)
  BY <1>1, FS_Interval DEF Counted
<1> QED
  BY <1>2, FS_Subset

(***************************************************************************)
(* Between the position of the running activation and the next operation   *)
(* of its region lie only operations of inner regions, none of which it    *)
(* has to count.                                                           *)
(***************************************************************************)
LEMMA NothingMissed ==
    ASSUME TypeOK, NEW o, AtOp(o), FrameCounts(Top, prog, comm)
    PROVE  CallsBefore(o, prog, comm) = Counted(Top, prog, comm)
<1>1. /\ o \in DOMAIN prog /\ prog[o].path = Top.region /\ Top.at < o
      /\ \A j \in DOMAIN prog : prog[j].path = Top.region /\ Top.at < j => o <= j
  BY AtOpType
<1>2. WellFormed(prog) /\ DOMAIN prog = 1 .. Len(prog) /\ Len(prog) \in Nat
  BY ProgramDomain DEF TypeOK
<1>3. Top \in ActivationType /\ Top.at \in Nat
  BY TopType DEF AtOp, ActivationType
<1>4. ASSUME NEW j \in 1 .. (o - 1), Top.at < j, Encloses(prog[j].path, prog[o].path)
      PROVE  FALSE
  <2>1. /\ j \in DOMAIN prog /\ j < o
        /\ prog[j].path \in Seq((Nat \ {0}) \X {1, 2}) /\ Len(prog[j].path) \in Nat
        /\ prog[o].path \in Seq((Nat \ {0}) \X {1, 2}) /\ Len(prog[o].path) \in Nat
    BY <1>1, <1>2, PathType
  <2>2. CASE Len(prog[j].path) = Len(prog[o].path)
    <3>1. prog[j].path = prog[o].path
      BY <1>4, <2>1, <2>2, EnclosesEqual
    <3> QED
      BY <1>1, <1>2, <1>4, <2>1, <3>1
  <2>3. CASE Len(prog[j].path) < Len(prog[o].path)
    <3> DEFINE k == Len(prog[j].path) + 1
    <3>1. k \in 1 .. Len(prog[o].path) /\ k \in DOMAIN Top.region
      BY <1>1, <2>1, <2>3
    <3>2. prog[o].path[k][1] <= Top.at
      BY <1>1, <3>1 DEF FrameCounts
    <3>3. prog[o].path[k][1] \in Nat
      BY <2>1, <3>1
    <3>4. prog[o].path[k][1] < j
      BY <1>2, <1>3, <1>4, <3>2, <3>3
    <3>5. Len(prog[j].path) >= k
      BY <1>1, <1>2, <2>1, <3>1, <3>4 DEF WellFormed, SubtreesConsecutive, OpsOf
    <3> QED
      BY <2>1, <3>5
  <2> QED
    BY <1>4, <2>1, <2>2, <2>3 DEF Encloses
<1>5. \A j \in 1 .. (o - 1) : Encloses(prog[j].path, prog[o].path) => j <= Top.at
  BY <1>2, <1>3, <1>4, <1>1
<1> QED
  BY <1>1, <1>2, <1>3, <1>5 DEF CallsBefore, Counted

(***************************************************************************)
(* What the activation that has dealt with o counts.                       *)
(***************************************************************************)
LEMMA PastCounts ==
    ASSUME TypeOK, NEW o, AtOp(o), FrameCounts(Top, prog, comm)
    PROVE  /\ ~IsSearched(o, prog, comm) => FrameCounts(Past(o), prog, comm)
           /\ IsSearched(o, prog, comm) => FrameCounts([Past(o) EXCEPT !.counter = @ + 1], prog, comm)
<1>1. /\ o \in DOMAIN prog /\ prog[o].path = Top.region /\ Top.at < o
      /\ Past(o) \in ActivationType
      /\ Past(o).region = Top.region /\ Past(o).at = o /\ Past(o).counter = Top.counter
  BY AtOpType
<1>2. DOMAIN prog = 1 .. Len(prog) /\ Len(prog) \in Nat
  BY ProgramDomain DEF TypeOK
<1>3. Top \in ActivationType /\ Top.at \in Nat /\ Top.counter \in Nat
  BY TopType DEF AtOp, ActivationType
<1>4. \A k \in DOMAIN Top.region : Top.region[k][1] <= o
  <2> SUFFICES ASSUME NEW k \in DOMAIN Top.region PROVE Top.region[k][1] <= o
    OBVIOUS
  <2>1. Top.region[k][1] \in Nat
    BY <1>3 DEF ActivationType
  <2> QED
    BY <1>1, <1>2, <1>3, <2>1 DEF FrameCounts
<1>5. CallsBefore(o, prog, comm) = Counted(Top, prog, comm)
  BY NothingMissed
<1>6. Encloses(prog[o].path, Top.region)
  BY <1>1, <1>3, EnclosesEqual DEF ActivationType
<1>7. Counted(Past(o), prog, comm) = {j \in 1 .. o : IsSearched(j, prog, comm) /\ Encloses(prog[j].path, Top.region)}
  BY <1>1 DEF Counted
<1>8. Counted(Past(o), prog, comm) = IF IsSearched(o, prog, comm) THEN Counted(Top, prog, comm) \union {o} ELSE Counted(Top, prog, comm)
  <2>1. 1 .. o = (1 .. (o - 1)) \union {o}
    BY <1>1, <1>2
  <2> QED
    BY <1>1, <1>5, <1>6, <1>7, <2>1 DEF CallsBefore
<1>9. CASE ~IsSearched(o, prog, comm)
  BY <1>1, <1>2, <1>4, <1>8, <1>9 DEF FrameCounts
<1>10. CASE IsSearched(o, prog, comm)
  <2> DEFINE f == [Past(o) EXCEPT !.counter = @ + 1]
  <2>1. f.region = Top.region /\ f.at = o /\ f.counter = Top.counter + 1
    BY <1>1 DEF ActivationType
  <2>2. o \notin Counted(Top, prog, comm)
    BY <1>1, <1>3, <1>2 DEF Counted
  <2>3. Cardinality(Counted(Top, prog, comm) \union {o}) = Cardinality(Counted(Top, prog, comm)) + 1
    BY <1>3, <2>2, CountedFinite, FS_AddElement
  <2>4. Counted(f, prog, comm) = Counted(Past(o), prog, comm)
    BY <1>1, <2>1 DEF Counted
  <2>5. f.counter = Cardinality(Counted(f, prog, comm))
    BY <1>8, <1>10, <2>1, <2>3, <2>4 DEF FrameCounts
  <2> HIDE DEF f
  <2> QED
    BY <1>1, <1>2, <1>4, <1>10, <2>1, <2>5 DEF FrameCounts, f
<1> QED
  BY <1>9, <1>10

(***************************************************************************)
(* What the activation for a region of o begins with: the region has no    *)
(* operation up to o, so its callers' count is its own.                    *)
(***************************************************************************)
LEMMA InnerCounts ==
    ASSUME TypeOK, NEW o, AtOp(o), FrameCounts(Top, prog, comm), ~IsSearched(o, prog, comm),
           NEW r \in {1, 2}
    PROVE  FrameCounts(Activation(Body(o, r, prog), o, Top.counter), prog, comm)
<1> DEFINE f == Activation(Body(o, r, prog), o, Top.counter)
           P == (Nat \ {0}) \X {1, 2}
<1>1. /\ o \in DOMAIN prog /\ prog[o].path = Top.region /\ Top.at < o
      /\ Past(o).region = Top.region /\ Past(o).at = o /\ Past(o).counter = Top.counter
  BY AtOpType
<1>2. WellFormed(prog) /\ DOMAIN prog = 1 .. Len(prog) /\ Len(prog) \in Nat
  BY ProgramDomain DEF TypeOK
<1>3. Top.region \in Seq(P)
  BY TopType DEF AtOp, ActivationType
<1>4. f.region = Append(Top.region, <<o, r>>) /\ f.at = o /\ f.counter = Top.counter
  BY <1>1 DEF Activation, Body
<1>5. <<o, r>> \in P
  BY <1>1, <1>2
<1>6. FrameCounts(Past(o), prog, comm)
  BY PastCounts
<1>7. \A k \in DOMAIN f.region : f.region[k][1] <= o
  <2> SUFFICES ASSUME NEW k \in DOMAIN f.region PROVE f.region[k][1] <= o
    OBVIOUS
  <2>1. (k \in DOMAIN Top.region /\ f.region[k] = Top.region[k]) \/ f.region[k] = <<o, r>>
    BY <1>3, <1>4, <1>5
  <2> HIDE DEF f
  <2> QED
    BY <1>1, <1>2, <1>6, <2>1 DEF FrameCounts
<1>8. ASSUME NEW j \in 1 .. o
      PROVE  Encloses(prog[j].path, Append(Top.region, <<o, r>>)) <=> Encloses(prog[j].path, Top.region)
  <2>1. j \in DOMAIN prog /\ prog[j].path \in Seq(P)
    BY <1>1, <1>2, PathType
  <2>2. ~(Len(prog[j].path) = Len(Top.region) + 1 /\ prog[j].path[Len(Top.region) + 1] = <<o, r>>)
    <3> SUFFICES ASSUME Len(prog[j].path) = Len(Top.region) + 1,
                        prog[j].path[Len(Top.region) + 1] = <<o, r>>
                 PROVE  FALSE
      OBVIOUS
    <3>1. Len(Top.region) + 1 \in 1 .. Len(prog[j].path)
      BY <1>3
    <3>2. prog[j].path[Len(Top.region) + 1][1] \in 1 .. (j - 1)
      BY <1>2, <2>1, <3>1 DEF WellFormed, PathsNested, OpsOf
    <3> QED
      BY <1>1, <1>2, <3>2
  <2> HIDE DEF P
  <2> QED
    BY <1>3, <1>5, <2>1, <2>2, EnclosesLonger
<1>9. Counted(f, prog, comm) = Counted(Past(o), prog, comm)
  BY <1>1, <1>4, <1>8 DEF Counted
<1> HIDE DEF f
<1> QED
  BY <1>1, <1>2, <1>4, <1>6, <1>7, <1>9 DEF FrameCounts, f

-----------------------------------------------------------------------------
(* The counts and the slots depend on the program, the communicator, the   *)
(* stack and the containers only.                                          *)
LEMMA SlotInvKept ==
    ASSUME SlotInv, TypeInv', UNCHANGED <<prog, comm, stack, order>>
    PROVE  SlotInv'
BY DEF SlotInv, FramesCount, FrameCounts, Counted, FiledInSlot

(* Replacing the running activation by others, with the callers as they    *)
(* were.                                                                   *)
LEMMA FramesPushed ==
    ASSUME TypeOK, FramesCount, stack # <<>>, UNCHANGED <<prog, comm>>,
           NEW u \in Seq(ActivationType), stack' = Callers \o u,
           \A i \in DOMAIN u : FrameCounts(u[i], prog, comm)
    PROVE  FramesCount'
<1>1. /\ Callers \in Seq(ActivationType) /\ Len(Callers) = Len(stack) - 1
      /\ \A i \in 1 .. Len(Callers) : Callers[i] = stack[i]
      /\ stack \in Seq(ActivationType)
  BY TopType DEF TypeOK
<1>2. /\ DOMAIN stack' = 1 .. (Len(Callers) + Len(u))
      /\ \A i \in 1 .. Len(Callers) : stack'[i] = Callers[i]
      /\ \A i \in (Len(Callers) + 1) .. (Len(Callers) + Len(u)) : stack'[i] = u[i - Len(Callers)]
  <2> DEFINE c == Callers
  <2>1. c \in Seq(ActivationType) /\ stack' = c \o u
    BY <1>1
  <2> HIDE DEF c
  <2>2. /\ DOMAIN stack' = 1 .. (Len(c) + Len(u))
        /\ \A i \in 1 .. Len(c) : stack'[i] = c[i]
        /\ \A i \in (Len(c) + 1) .. (Len(c) + Len(u)) : stack'[i] = u[i - Len(c)]
    BY <2>1
  <2> QED
    BY <2>2 DEF c
<1>3. ASSUME NEW i \in DOMAIN stack' PROVE FrameCounts(stack'[i], prog, comm)
  <2>1. CASE i \in 1 .. Len(Callers)
    <3>1. Len(stack) \in Nat /\ DOMAIN stack = 1 .. Len(stack)
      BY <1>1
    <3>2. stack'[i] = stack[i]
      <4>1. stack'[i] = Callers[i]
        BY <1>2, <2>1
      <4>2. Callers[i] = stack[i]
        BY <1>1, <2>1
      <4> QED
        BY <4>1, <4>2
    <3>3. i \in DOMAIN stack
      <4> DEFINE n == Len(Callers)
      <4>1. n = Len(stack) - 1 /\ i \in 1 .. n
        BY <1>1, <2>1
      <4> HIDE DEF n
      <4> QED
        BY <3>1, <4>1
    <3> QED
      BY <3>2, <3>3 DEF FramesCount
  <2>2. CASE i \in (Len(Callers) + 1) .. (Len(Callers) + Len(u))
    <3>1. i - Len(Callers) \in DOMAIN u /\ stack'[i] = u[i - Len(Callers)]
      BY <1>1, <1>2, <2>2
    <3> QED
      BY <3>1
  <2> QED
    BY <1>1, <1>2, <2>1, <2>2
<1> QED
  BY <1>3 DEF FramesCount

(***************************************************************************)
(* A collective goes to the slot after the calls before it.                *)
(***************************************************************************)
LEMMA CollectFiles ==
    ASSUME SlotInv, NEW o, Collect(o)
    PROVE  FiledInSlot'
<1>1. /\ TypeOK /\ SlotsInBounds /\ FiledInSlot /\ AtOp(o) /\ stack # <<>>
      /\ IsSearched(o, prog, comm) /\ UNCHANGED <<prog, comm>>
  BY DEF SlotInv, TypeInv, Collect, AtOp
<1>2. o \in DOMAIN prog /\ Class(o, prog) \in Classes
  BY <1>1, AtOpType, ClassType DEF TypeOK
<1>3. Top.counter \in Nat /\ Top.counter <= Len(order) /\ order \in Seq([Classes -> Seq(DOMAIN prog)])
  BY <1>1, CountersBounded DEF TypeOK
<1>4. FrameCounts(Top, prog, comm)
  <2>1. Len(stack) \in DOMAIN stack
    BY <1>1 DEF TypeOK
  <2> QED
    BY <2>1 DEF SlotInv, FramesCount, Top
<1> DEFINE g == Grown(order, Top.counter)
           s == Top.counter + 1
           b == Class(o, prog)
<1>5. /\ g \in Seq([Classes -> Seq(DOMAIN prog)]) /\ s \in DOMAIN g
      /\ \A t \in DOMAIN g : \/ t \in DOMAIN order /\ g[t] = order[t]
                             \/ g[t] = EmptySlot
  <2> HIDE DEF s
  <2>1. /\ g \in Seq([Classes -> Seq(DOMAIN prog)]) /\ Top.counter + 1 \in DOMAIN g
        /\ \A t \in DOMAIN g : \/ t \in DOMAIN order /\ g[t] = order[t]
                               \/ g[t] = EmptySlot
    BY <1>3, GrownType
  <2> QED
    BY <2>1 DEF s
<1>6. order' = [g EXCEPT ![s][b] = Append(@, o)]
  BY DEF Collect
<1>7. s = Cardinality(CallsBefore(o, prog, comm)) + 1
  BY <1>1, <1>4, NothingMissed DEF FrameCounts
<1> DEFINE Fits(t, c, x) == /\ IsSearched(x, prog, comm)
                            /\ Class(x, prog) = c
                            /\ t = Cardinality(CallsBefore(x, prog, comm)) + 1
<1>8. \A t \in DOMAIN g : \A c \in Classes : \A i \in DOMAIN g[t][c] : Fits(t, c, g[t][c][i])
  <2>1. \A t \in DOMAIN order : \A c \in Classes : \A i \in DOMAIN order[t][c] : Fits(t, c, order[t][c][i])
    BY <1>1 DEF FiledInSlot
  <2> HIDE DEF g, s, b, Fits
  <2> SUFFICES ASSUME NEW t \in DOMAIN g, NEW c \in Classes, NEW i \in DOMAIN g[t][c]
               PROVE  Fits(t, c, g[t][c][i])
    OBVIOUS
  <2>2. CASE t \in DOMAIN order /\ g[t] = order[t]
    BY <2>1, <2>2
  <2>3. CASE g[t] = EmptySlot
    BY <2>3 DEF EmptySlot
  <2> QED
    BY <1>5, <2>2, <2>3
<1>9. Fits(s, b, o)
  BY <1>1, <1>7
<1>10. /\ DOMAIN order' = DOMAIN g
       /\ \A t \in DOMAIN g : \A c \in Classes :
            order'[t][c] = IF t = s /\ c = b THEN Append(g[s][b], o) ELSE g[t][c]
  <2> HIDE DEF g, s, b
  <2>1. b \in Classes
    BY <1>2 DEF b
  <2> QED
    BY <1>2, <1>5, <1>6, <2>1, FiledType, SMTT(30)
<1> HIDE DEF g, s, b, Fits
<1>11. ASSUME NEW t \in DOMAIN order', NEW c \in Classes, NEW i \in DOMAIN order'[t][c]
       PROVE  Fits(t, c, order'[t][c][i])
  <2>1. t \in DOMAIN g /\ g[t][c] \in Seq(DOMAIN prog)
    BY <1>5, <1>10
  <2>2. CASE t = s /\ c = b
    <3>1. order'[t][c] = Append(g[t][c], o)
      BY <1>10, <2>1, <2>2
    <3>2. (i \in DOMAIN g[t][c] /\ order'[t][c][i] = g[t][c][i]) \/ order'[t][c][i] = o
      BY <1>2, <2>1, <3>1
    <3> QED
      BY <1>8, <1>9, <2>1, <2>2, <3>2
  <2>3. CASE ~(t = s /\ c = b)
    BY <1>8, <1>10, <2>1, <2>3
  <2> QED
    BY <2>2, <2>3
<1>12. \A t \in DOMAIN order' : \A c \in Classes : \A i \in DOMAIN order'[t][c] :
         Fits(t, c, order'[t][c][i])
  BY <1>11
<1> QED
  BY <1>1, <1>12 DEF FiledInSlot, Fits

LEMMA InitSlotInv == Init => SlotInv
<1> SUFFICES ASSUME Init PROVE SlotInv
  OBVIOUS
<1>1. stack = <<>> /\ order = <<>>
  BY DEF Init, InitPass
<1> QED
  BY <1>1, InitTypeInv DEF SlotInv, FramesCount, FiledInSlot

LEMMA NextSlotInv == SlotInv /\ [Next]_vars => SlotInv'
<1> SUFFICES ASSUME SlotInv, [Next]_vars PROVE SlotInv'
  OBVIOUS
<1>1. TypeInv' /\ TypeOK /\ TypeInv
  BY NextTypeInv DEF SlotInv, TypeInv
<1>2. ASSUME stack # <<>> PROVE FrameCounts(Top, prog, comm)
  <2>1. Len(stack) \in DOMAIN stack
    BY <1>1, <1>2 DEF TypeOK
  <2> QED
    BY <2>1 DEF SlotInv, FramesCount, Top
<1>3. CASE Start
  <2>1. stack' = <<>> /\ order' = <<>>
    BY <1>1, <1>3 DEF Start, TypeInv, NothingYet, walkVars
  <2> QED
    BY <1>1, <2>1 DEF SlotInv, FramesCount, FiledInSlot
<1>4. CASE NextComm
  <2> DEFINE f == Activation(<<>>, 0, 0)
  <2>1. stack' = <<f>> /\ order' = <<>> /\ prog' = prog
    BY <1>4 DEF NextComm
  <2>2. f.region = <<>> /\ f.at = 0 /\ f.counter = 0
    BY DEF Activation
  <2>3. Counted(f, prog', comm') = {}
    BY <2>2 DEF Counted
  <2>4. FrameCounts(f, prog', comm')
    <3>1. Len(prog') \in Nat
      BY <1>1, <2>1, ProgramDomain DEF TypeOK
    <3> HIDE DEF f
    <3> QED
      BY <2>2, <2>3, <3>1, FS_EmptySet DEF FrameCounts
  <2> HIDE DEF f
  <2>5. FramesCount'
    BY <2>1, <2>4 DEF FramesCount
  <2> QED
    BY <1>1, <2>1, <2>5 DEF SlotInv, FiledInSlot
<1>5. ASSUME NEW o \in DOMAIN prog, Collect(o) PROVE SlotInv'
  <2>1. AtOp(o) /\ stack # <<>> /\ IsSearched(o, prog, comm) /\ UNCHANGED <<prog, comm>>
    BY <1>5 DEF Collect, AtOp
  <2> DEFINE f == [Past(o) EXCEPT !.counter = @ + 1]
  <2>2. FrameCounts(f, prog, comm) /\ f \in ActivationType
    BY <1>1, <1>2, <2>1, PastCounts, AtOpType DEF ActivationType
  <2>3. stack' = Append(Callers, f) /\ Callers \in Seq(ActivationType)
    BY <1>1, <1>5, <2>1, TopType DEF Collect
  <2> HIDE DEF f
  <2> DEFINE u == <<f>>
  <2>4. u \in Seq(ActivationType) /\ \A i \in DOMAIN u : FrameCounts(u[i], prog, comm)
    BY <2>2
  <2>5. stack' = Callers \o u
    BY <2>2, <2>3, AppendIsConcat
  <2> HIDE DEF u
  <2>6. FramesCount'
    BY <1>1, <2>1, <2>4, <2>5, FramesPushed DEF SlotInv
  <2> QED
    BY <1>1, <1>5, <2>6, CollectFiles DEF SlotInv
<1>6. ASSUME NEW o \in DOMAIN prog, EnterIf(o) PROVE SlotInv'
  <2>1. /\ AtOp(o) /\ stack # <<>> /\ ~IsSearched(o, prog, comm)
        /\ UNCHANGED <<prog, comm, order>>
    BY <1>6 DEF EnterIf, AtOp, IsSearched
  <2> DEFINE f == Activation(Body(o, 2, prog), o, Top.counter)
             h == Activation(Body(o, 1, prog), o, Top.counter)
             e == Past(o)
  <2>2. FrameCounts(e, prog, comm) /\ FrameCounts(f, prog, comm) /\ FrameCounts(h, prog, comm)
    BY <1>1, <1>2, <2>1, PastCounts, InnerCounts
  <2>3. e \in ActivationType /\ f \in ActivationType /\ h \in ActivationType
    <3>1. Top.counter \in Nat
      BY <2>1, <1>1, CountersBounded DEF TypeInv
    <3> QED
      BY <1>1, <2>1, <3>1, AtOpType, ActivationIsType
  <2>4. stack' = Callers \o <<e, f, h>>
    BY <1>6 DEF EnterIf
  <2> HIDE DEF e, f, h
  <2> DEFINE u == <<e, f, h>>
  <2>5. u \in Seq(ActivationType) /\ \A i \in DOMAIN u : FrameCounts(u[i], prog, comm)
    BY <2>2, <2>3
  <2> HIDE DEF u
  <2>6. FramesCount'
    BY <1>1, <2>1, <2>4, <2>5, FramesPushed DEF SlotInv, u
  <2> QED
    BY <1>1, <2>1, <2>6 DEF SlotInv, FiledInSlot
<1>7. ASSUME NEW o \in DOMAIN prog, EnterFor(o) PROVE SlotInv'
  <2>1. /\ AtOp(o) /\ stack # <<>> /\ ~IsSearched(o, prog, comm)
        /\ UNCHANGED <<prog, comm, order>>
    BY <1>7 DEF EnterFor, AtOp, IsSearched
  <2> DEFINE h == Activation(Body(o, 1, prog), o, Top.counter)
             e == Past(o)
  <2>2. FrameCounts(e, prog, comm) /\ FrameCounts(h, prog, comm)
    BY <1>1, <1>2, <2>1, PastCounts, InnerCounts
  <2>3. e \in ActivationType /\ h \in ActivationType
    <3>1. Top.counter \in Nat
      BY <2>1, <1>1, CountersBounded DEF TypeInv
    <3> QED
      BY <1>1, <2>1, <3>1, AtOpType, ActivationIsType
  <2>4. stack' = Callers \o <<e, h>>
    BY <1>7 DEF EnterFor
  <2> HIDE DEF e, h
  <2> DEFINE u == <<e, h>>
  <2>5. u \in Seq(ActivationType) /\ \A i \in DOMAIN u : FrameCounts(u[i], prog, comm)
    BY <2>2, <2>3
  <2> HIDE DEF u
  <2>6. FramesCount'
    BY <1>1, <2>1, <2>4, <2>5, FramesPushed DEF SlotInv, u
  <2> QED
    BY <1>1, <2>1, <2>6 DEF SlotInv, FiledInSlot
<1>8. ASSUME NEW o \in DOMAIN prog, PassOver(o) PROVE SlotInv'
  <2>1. /\ AtOp(o) /\ stack # <<>> /\ ~IsSearched(o, prog, comm)
        /\ UNCHANGED <<prog, comm, order>>
    BY <1>8 DEF PassOver, AtOp
  <2> DEFINE f == Past(o)
  <2>2. FrameCounts(f, prog, comm) /\ f \in ActivationType
    BY <1>1, <1>2, <2>1, PastCounts, AtOpType
  <2>3. stack' = Append(Callers, f) /\ Callers \in Seq(ActivationType)
    BY <1>1, <1>8, <2>1, TopType DEF PassOver
  <2> HIDE DEF f
  <2> DEFINE u == <<f>>
  <2>4. u \in Seq(ActivationType) /\ \A i \in DOMAIN u : FrameCounts(u[i], prog, comm)
    BY <2>2
  <2>5. stack' = Callers \o u
    BY <2>2, <2>3, AppendIsConcat
  <2> HIDE DEF u
  <2>6. FramesCount'
    BY <1>1, <2>1, <2>4, <2>5, FramesPushed DEF SlotInv
  <2> QED
    BY <1>1, <2>1, <2>6 DEF SlotInv, FiledInSlot
<1>9. CASE Return
  <2>1. stack # <<>> /\ UNCHANGED <<prog, comm, order>>
    BY <1>9 DEF Return
  <2>2. stack' = Callers \o <<>>
    BY <1>1, <1>9, <2>1, TopType DEF Return
  <2> DEFINE u == << >>
  <2>3. u \in Seq(ActivationType) /\ \A i \in DOMAIN u : FrameCounts(u[i], prog, comm)
    OBVIOUS
  <2> HIDE DEF u
  <2>4. FramesCount'
    BY <1>1, <2>1, <2>2, <2>3, FramesPushed DEF SlotInv, u
  <2> QED
    BY <1>1, <2>1, <2>4 DEF SlotInv, FiledInSlot
<1>10. CASE UNCHANGED <<prog, comm, stack, order>>
  BY <1>1, <1>10, SlotInvKept
<1>11. \/ Start \/ NextComm \/ Walk \/ Return
       \/ UNCHANGED <<prog, comm, stack, order>>
  BY DEF Next, NoMain, Report, SkipContainer, NextClass, EndCheck, StartPDFP, FuseMember,
         EndFuse, ScanList, EndPDFP, vars, walkVars
<1> QED
  BY <1>3, <1>4, <1>5, <1>6, <1>7, <1>8, <1>9, <1>10, <1>11 DEF Walk

(***************************************************************************)
(* On every program, at any moment of the walk for any communicator, what  *)
(* iterateForCollectives has filed is in the slot after the collectives on *)
(* that communicator that precede it in its region or around it.           *)
(***************************************************************************)
THEOREM FiledInSlotAlways == Spec => []FiledInSlot
<1>1. Spec => []SlotInv
  BY InitSlotInv, NextSlotInv, PTL DEF Spec
<1> QED
  BY <1>1, PTL DEF SlotInv

-----------------------------------------------------------------------------
(***************************************************************************)
(* The walk finds every collective, once.                                  *)
(*                                                                         *)
(* What makes FiledOnce inductive is the frontier of the walk: each        *)
(* operation still to be visited is ahead of exactly one activation of     *)
(* iterateForCollectives, and nothing that is filed is ahead of any.       *)
(***************************************************************************)

(* The operation of region r that is j or encloses j.                      *)
Anchor(r, p, j) == IF Len(p[j].path) = Len(r) THEN j ELSE p[j].path[Len(r) + 1][1]

(* An activation, or one that it will call, is still to come to j.         *)
Pending(f, p, j) == Encloses(f.region, p[j].path) /\ f.at < Anchor(f.region, p, j)

Filed(j) == \E s \in DOMAIN order : \E k \in Classes : \E i \in DOMAIN order[s][k] : order[s][k][i] = j

UnderWhile(j, p) == \E k \in DOMAIN p[j].path : p[p[j].path[k][1]].kind = "while"

(* No operation is ahead of two activations.                               *)
AheadOfOne ==
    \A a, b \in DOMAIN stack : \A j \in DOMAIN prog :
        Pending(stack[a], prog, j) /\ Pending(stack[b], prog, j) => a = b

NothingFiledAhead ==
    \A a \in DOMAIN stack : \A j \in DOMAIN prog : Pending(stack[a], prog, j) => ~Filed(j)

(* Of the collectives that are searched, none is lost.                     *)
NoneLost ==
    \A j \in DOMAIN prog :
        IsSearched(j, prog, comm) /\ ~UnderWhile(j, prog) =>
            Filed(j) \/ \E a \in DOMAIN stack : Pending(stack[a], prog, j)

Frontier == AheadOfOne /\ NothingFiledAhead /\ NoneLost

NoneTwice ==
    \A s \in DOMAIN order : \A k \in Classes : \A i, l \in DOMAIN order[s][k] :
        order[s][k][i] = order[s][k][l] => i = l

FiledInv ==
    /\ SlotInv
    /\ pc \in {"collect", "check", "fuse", "scan"} => Frontier
    /\ pc \in {"check", "fuse", "scan"} => stack = <<>>
    /\ NoneTwice

-----------------------------------------------------------------------------
(* The frontier of one activation.                                         *)

(* What an entry of a path says of the operation it names.                 *)
LEMMA EnclosingOp ==
    ASSUME NEW p, WellFormed(p), NEW j \in DOMAIN p, NEW k \in 1 .. Len(p[j].path)
    PROVE  /\ p[j].path[k][1] \in 1 .. (j - 1)
           /\ IsBranch(p, p[j].path[k][1])
           /\ p[j].path[k][2] = 2 => p[p[j].path[k][1]].kind = "if"
           /\ p[p[j].path[k][1]].path = SubSeq(p[j].path, 1, k - 1)
BY Zenon DEF WellFormed, PathsNested, OpsOf

(* An operation and a region around it have an anchor, an operation of     *)
(* that region.                                                            *)
LEMMA AnchorInRegion ==
    ASSUME NEW p, WellFormed(p), NEW j \in DOMAIN p,
           NEW r \in Seq((Nat \ {0}) \X {1, 2}), Encloses(r, p[j].path)
    PROVE  /\ Anchor(r, p, j) \in DOMAIN p
           /\ p[Anchor(r, p, j)].path = r
           /\ Anchor(r, p, j) <= j
<1> DEFINE n == Len(r)
           a == p[j].path[n + 1][1]
<1>1. /\ DOMAIN p = 1 .. Len(p) /\ Len(p) \in Nat /\ j \in Nat
      /\ p[j].path \in Seq((Nat \ {0}) \X {1, 2}) /\ Len(p[j].path) \in Nat
      /\ n \in Nat /\ n <= Len(p[j].path)
  BY ProgramDomain, PathType DEF Encloses
<1>2. CASE Len(p[j].path) = n
  BY <1>1, <1>2, EnclosesEqual DEF Anchor
<1>3. CASE Len(p[j].path) # n
  <2>1. n + 1 \in 1 .. Len(p[j].path)
    BY <1>1, <1>3
  <2>2. a \in 1 .. (j - 1) /\ p[a].path = SubSeq(p[j].path, 1, n)
    <3>1. a \in 1 .. (j - 1) /\ p[a].path = SubSeq(p[j].path, 1, (n + 1) - 1)
      BY <2>1, EnclosingOp, Zenon
    <3>2. n \in Nat
      BY <1>1
    <3>3. (n + 1) - 1 = n
      BY <3>2
    <3> QED
      BY <3>1, <3>3, SMTT(30)
  <2>3. Anchor(r, p, j) = a /\ a \in DOMAIN p /\ a <= j
    BY <1>1, <1>3, <2>2 DEF Anchor
  <2>4. \A k \in 1 .. n : p[j].path[k] = r[k]
    BY <1>1 DEF Encloses
  <2> HIDE DEF n, a
  <2>5. /\ SubSeq(p[j].path, 1, n) \in Seq((Nat \ {0}) \X {1, 2})
        /\ Len(SubSeq(p[j].path, 1, n)) = n
        /\ \A k \in 1 .. n : SubSeq(p[j].path, 1, n)[k] = p[j].path[k]
    BY <1>1
  <2>6. SubSeq(p[j].path, 1, n) = r
    BY <1>1, <2>4, <2>5 DEF n
  <2> QED
    BY <2>2, <2>3, <2>6
<1> QED
  BY <1>2, <1>3

(* Whatever is nested in o comes after it, and so does what encloses it    *)
(* below o; o has that region then.                                        *)
LEMMA InsideRegion ==
    ASSUME NEW p, WellFormed(p), NEW o \in DOMAIN p, NEW r \in {1, 2}, NEW j \in DOMAIN p,
           Encloses(Body(o, r, p), p[j].path)
    PROVE  /\ o < Anchor(Body(o, r, p), p, j)
           /\ o < j
           /\ IsBranch(p, o)
           /\ r = 2 => p[o].kind = "if"
           /\ p[o].kind = "while" => UnderWhile(j, p)
           /\ Encloses(p[o].path, p[j].path)
           /\ Anchor(p[o].path, p, j) = o
           /\ Len(p[j].path) > Len(p[o].path)
           /\ p[j].path[Len(p[o].path) + 1] = <<o, r>>
<1> DEFINE B == Body(o, r, p)
           n == Len(p[o].path)
<1>1. /\ DOMAIN p = 1 .. Len(p) /\ Len(p) \in Nat /\ j \in Nat /\ o \in Nat \ {0}
      /\ p[j].path \in Seq((Nat \ {0}) \X {1, 2}) /\ Len(p[j].path) \in Nat
      /\ DOMAIN p[j].path = 1 .. Len(p[j].path)
      /\ p[o].path \in Seq((Nat \ {0}) \X {1, 2}) /\ n \in Nat
  BY ProgramDomain, PathType
<1>2. /\ B \in Seq((Nat \ {0}) \X {1, 2}) /\ Len(B) = n + 1 /\ B[n + 1] = <<o, r>>
      /\ \A k \in 1 .. n : B[k] = p[o].path[k]
  BY <1>1 DEF Body
<1> HIDE DEF B
<1>3. /\ n + 1 \in 1 .. Len(p[j].path) /\ p[j].path[n + 1] = <<o, r>>
      /\ \A k \in 1 .. n : p[j].path[k] = p[o].path[k]
  <2>1. Encloses(B, p[j].path)
    BY DEF B
  <2>2. Len(B) <= Len(p[j].path) /\ \A k \in 1 .. Len(B) : B[k] = p[j].path[k]
    BY <2>1 DEF Encloses
  <2>3. n + 1 \in 1 .. Len(p[j].path) /\ n + 1 \in 1 .. Len(B) /\ \A k \in 1 .. n : k \in 1 .. Len(B)
    BY <1>1, <1>2, <2>2
  <2> QED
    BY <1>2, <2>2, <2>3, SMTT(30)
<1>4. p[j].path[n + 1][1] = o /\ p[j].path[n + 1][2] = r
  BY <1>3
<1>5. /\ o \in 1 .. (j - 1) /\ IsBranch(p, o) /\ (r = 2 => p[o].kind = "if")
      /\ p[o].kind = "while" => UnderWhile(j, p)
  <2> DEFINE k == n + 1
             q == p[j].path[k][1]
  <2>0. q \in 1 .. (j - 1) /\ IsBranch(p, q) /\ (p[j].path[k][2] = 2 => p[q].kind = "if")
    <3>1. k \in 1 .. Len(p[j].path)
      BY <1>3
    <3> HIDE DEF k
    <3> QED
      BY <3>1, EnclosingOp
  <2>1. o \in 1 .. (j - 1) /\ IsBranch(p, o) /\ (r = 2 => p[o].kind = "if")
    BY <1>4, <2>0, Zenon
  <2>2. n + 1 \in DOMAIN p[j].path
    BY <1>1, <1>3
  <2> QED
    BY <1>4, <2>1, <2>2, Zenon DEF UnderWhile
<1>6. Encloses(p[o].path, p[j].path) /\ Anchor(p[o].path, p, j) = o
  BY <1>1, <1>3, SMTT(30) DEF Encloses, Anchor
<1>7. o < Anchor(B, p, j)
  <2> DEFINE a == Anchor(B, p, j)
  <2>1. a \in DOMAIN p /\ p[a].path = B
    BY <1>2, AnchorInRegion DEF B
  <2>2. n + 1 \in 1 .. Len(p[a].path) /\ p[a].path[n + 1][1] = o
    BY <1>1, <1>2, <2>1, SMTT(30)
  <2>3. o \in 1 .. (a - 1)
    BY <2>1, <2>2, EnclosingOp, ZenonT(40)
  <2> QED
    BY <1>1, <2>1, <2>3
<1> QED
  BY <1>1, <1>3, <1>4, <1>5, <1>6, <1>7 DEF B

(* Regions of one operation have nothing in common.                        *)
LEMMA RegionsApart ==
    ASSUME NEW p, WellFormed(p), NEW o \in DOMAIN p, NEW j \in DOMAIN p,
           Encloses(Body(o, 1, p), p[j].path), Encloses(Body(o, 2, p), p[j].path)
    PROVE  FALSE
<1>1. p[j].path[Len(p[o].path) + 1] = <<o, 1>> /\ p[j].path[Len(p[o].path) + 1] = <<o, 2>>
  BY InsideRegion
<1> QED
  BY <1>1

(* The activation for a region has everything in it ahead.                 *)
LEMMA InnerPending ==
    ASSUME NEW p, WellFormed(p), NEW o \in DOMAIN p, NEW r \in {1, 2}, NEW c, NEW j \in DOMAIN p
    PROVE  Pending(Activation(Body(o, r, p), o, c), p, j) <=> Encloses(Body(o, r, p), p[j].path)
<1>1. /\ Activation(Body(o, r, p), o, c).region = Body(o, r, p)
      /\ Activation(Body(o, r, p), o, c).at = o
  BY DEF Activation
<1> QED
  BY <1>1, InsideRegion DEF Pending

(***************************************************************************)
(* What is ahead of the running activation: the next operation o, what is  *)
(* nested in o, and what is ahead of it after o.                           *)
(***************************************************************************)
LEMMA PendingSplit ==
    ASSUME TypeOK, NEW o, AtOp(o), NEW j \in DOMAIN prog
    PROVE  /\ Pending(Top, prog, j) <=>
                \/ j = o
                \/ Pending(Past(o), prog, j)
                \/ \E r \in {1, 2} : Encloses(Body(o, r, prog), prog[j].path)
           /\ Pending(Past(o), prog, j) =>
                j # o /\ \A r \in {1, 2} : ~Encloses(Body(o, r, prog), prog[j].path)
<1>1. /\ o \in DOMAIN prog /\ prog[o].path = Top.region /\ Top.at < o
      /\ \A i \in DOMAIN prog : prog[i].path = Top.region /\ Top.at < i => o <= i
      /\ Past(o).region = Top.region /\ Past(o).at = o
  BY AtOpType
<1>2. /\ WellFormed(prog) /\ DOMAIN prog = 1 .. Len(prog) /\ Len(prog) \in Nat
      /\ o \in Nat /\ j \in Nat
  BY <1>1, ProgramDomain DEF TypeOK
<1>3. Top.region \in Seq((Nat \ {0}) \X {1, 2}) /\ Top.at \in Nat
  BY TopType DEF AtOp, ActivationType
<1> DEFINE a == Anchor(Top.region, prog, j)
<1>4. ASSUME Encloses(Top.region, prog[j].path)
      PROVE  a \in DOMAIN prog /\ prog[a].path = Top.region
  BY <1>2, <1>3, <1>4, AnchorInRegion
<1>5. Encloses(Top.region, prog[o].path) /\ Anchor(Top.region, prog, o) = o
  BY <1>1, <1>3 DEF Encloses, Anchor
<1>6. ASSUME NEW r \in {1, 2}, Encloses(Body(o, r, prog), prog[j].path)
      PROVE  Encloses(Top.region, prog[j].path) /\ a = o
  BY <1>1, <1>2, <1>6, InsideRegion
<1>7. ASSUME Encloses(Top.region, prog[j].path), a = o, j # o
      PROVE  \E r \in {1, 2} : Encloses(Body(o, r, prog), prog[j].path)
  <2> DEFINE n == Len(Top.region)
             path == prog[j].path
  <2>1. path \in Seq((Nat \ {0}) \X {1, 2}) /\ Len(path) \in Nat /\ n \in Nat
    BY <1>2, <1>3, PathType
  <2>2. n <= Len(path) /\ \A k \in 1 .. n : Top.region[k] = path[k]
    BY <1>7 DEF Encloses
  <2>3. Len(path) # n /\ path[n + 1][1] = o
    BY <1>7 DEF Anchor
  <2>4. n + 1 \in 1 .. Len(path)
    BY <2>1, <2>2, <2>3
  <2>5. PICK r \in {1, 2} : path[n + 1] = <<o, r>>
    <3>1. path[n + 1] \in (Nat \ {0}) \X {1, 2}
      BY <2>1, <2>4
    <3> QED
      BY <2>3, <3>1
  <2> DEFINE B == Append(Top.region, <<o, r>>)
  <2>6. Body(o, r, prog) = B
    BY <1>1 DEF Body
  <2>7. Len(B) = n + 1 /\ B[n + 1] = <<o, r>> /\ \A k \in 1 .. n : B[k] = Top.region[k]
    BY <1>3
  <2> HIDE DEF B, n, path
  <2>8. Encloses(B, path)
    <3>1. ASSUME NEW k \in 1 .. Len(B) PROVE B[k] = path[k]
      <4>1. CASE k \in 1 .. n
        BY <2>2, <2>7, <4>1
      <4>2. CASE k = n + 1
        BY <2>5, <2>7, <4>2
      <4> QED
        BY <2>1, <2>7, <4>1, <4>2
    <3>2. Len(B) <= Len(path)
      BY <2>1, <2>4, <2>7
    <3> QED
      BY <3>1, <3>2 DEF Encloses
  <2> QED
    BY <2>6, <2>8 DEF path
<1>8. Pending(Top, prog, j) <=> Encloses(Top.region, prog[j].path) /\ Top.at < a
  BY DEF Pending
<1>9. Pending(Past(o), prog, j) <=> Encloses(Top.region, prog[j].path) /\ o < a
  BY <1>1 DEF Pending
<1> HIDE DEF a
<1>10. Pending(Top, prog, j) <=> Encloses(Top.region, prog[j].path) /\ (a = o \/ o < a)
  BY <1>1, <1>2, <1>3, <1>4, <1>8
<1>11. j = o => Encloses(Top.region, prog[j].path) /\ a = o
  BY <1>5 DEF a
<1> QED
  BY <1>2, <1>4, <1>6, <1>7, <1>9, <1>10, <1>11

-----------------------------------------------------------------------------
(* The frontier of the walk.                                               *)

(***************************************************************************)
(* Replacing the running activation by others, u: what was ahead of it is  *)
(* ahead of one of them, or filed, or not searched.                        *)
(***************************************************************************)
LEMMA FrontierPushed ==
    ASSUME TypeOK, Frontier, stack # <<>>, UNCHANGED <<prog, comm>>,
           NEW u \in Seq(ActivationType), stack' = Callers \o u,
           \A i \in DOMAIN u : \A j \in DOMAIN prog : Pending(u[i], prog, j) => Pending(Top, prog, j),
           \A i, k \in DOMAIN u : \A j \in DOMAIN prog :
             Pending(u[i], prog, j) /\ Pending(u[k], prog, j) => i = k,
           \A j \in DOMAIN prog : Filed(j) => Filed(j)',
           \A j \in DOMAIN prog : Filed(j)' => \/ Filed(j)
                                             \/ /\ Pending(Top, prog, j)
                                                /\ \A i \in DOMAIN u : ~Pending(u[i], prog, j),
           \A j \in DOMAIN prog :
             Pending(Top, prog, j) /\ IsSearched(j, prog, comm) /\ ~UnderWhile(j, prog) =>
               Filed(j)' \/ \E i \in DOMAIN u : Pending(u[i], prog, j)
    PROVE  Frontier'
<1> DEFINE n == Len(Callers)
           m == Len(u)
<1>1. /\ stack \in Seq(ActivationType) /\ Len(stack) \in Nat /\ n = Len(stack) - 1 /\ n \in Nat
      /\ m \in Nat /\ DOMAIN u = 1 .. m
      /\ DOMAIN stack = 1 .. (n + 1) /\ Top = stack[n + 1]
      /\ \A i \in 1 .. n : Callers[i] = stack[i]
  <2>1. /\ stack \in Seq(ActivationType) /\ Len(Callers) = Len(stack) - 1 /\ Len(stack) # 0
        /\ \A i \in 1 .. Len(Callers) : Callers[i] = stack[i]
    BY TopType DEF TypeOK
  <2> QED
    BY <2>1 DEF Top
<1>2. /\ DOMAIN stack' = 1 .. (n + m)
      /\ \A i \in 1 .. n : stack'[i] = stack[i]
      /\ \A i \in 1 .. m : stack'[n + i] = u[i]
  <2> DEFINE c == Callers
  <2>1. c \in Seq(ActivationType) /\ stack' = c \o u
    BY TopType
  <2> HIDE DEF c
  <2>2. /\ DOMAIN stack' = 1 .. (Len(c) + Len(u))
        /\ \A i \in 1 .. Len(c) : stack'[i] = c[i]
        /\ \A i \in 1 .. Len(u) : stack'[Len(c) + i] = u[i]
    BY <2>1
  <2> QED
    BY <1>1, <2>2 DEF c
<1> HIDE DEF n, m
<1>3. /\ \A a, b \in 1 .. (n + 1) : \A j \in DOMAIN prog :
           Pending(stack[a], prog, j) /\ Pending(stack[b], prog, j) => a = b
      /\ \A a \in 1 .. (n + 1) : \A j \in DOMAIN prog : Pending(stack[a], prog, j) => ~Filed(j)
      /\ \A j \in DOMAIN prog : IsSearched(j, prog, comm) /\ ~UnderWhile(j, prog) =>
           Filed(j) \/ \E a \in 1 .. (n + 1) : Pending(stack[a], prog, j)
  <2>1. \A a, b \in 1 .. (n + 1) : \A j \in DOMAIN prog :
           Pending(stack[a], prog, j) /\ Pending(stack[b], prog, j) => a = b
    BY <1>1 DEF Frontier, AheadOfOne
  <2>2. \A a \in 1 .. (n + 1) : \A j \in DOMAIN prog : Pending(stack[a], prog, j) => ~Filed(j)
    BY <1>1 DEF Frontier, NothingFiledAhead
  <2>3. \A j \in DOMAIN prog : IsSearched(j, prog, comm) /\ ~UnderWhile(j, prog) =>
           Filed(j) \/ \E a \in 1 .. (n + 1) : Pending(stack[a], prog, j)
    BY <1>1 DEF Frontier, NoneLost
  <2> QED
    BY <2>1, <2>2, <2>3
<1>4. \A a \in DOMAIN stack' : \/ a \in 1 .. n /\ stack'[a] = stack[a]
                               \/ \E i \in 1 .. m : a = n + i /\ stack'[a] = u[i]
  <2> SUFFICES ASSUME NEW a \in DOMAIN stack', a \notin 1 .. n
               PROVE  \E i \in 1 .. m : a = n + i /\ stack'[a] = u[i]
    BY <1>2
  <2>1. a - n \in 1 .. m /\ a = n + (a - n)
    BY <1>1, <1>2
  <2> QED
    BY <1>2, <2>1
<1>5. ASSUME NEW a \in DOMAIN stack', NEW j \in DOMAIN prog, Pending(stack'[a], prog, j)
      PROVE  \/ a \in 1 .. n /\ Pending(stack[a], prog, j) /\ ~Pending(Top, prog, j)
             \/ \E i \in 1 .. m : a = n + i /\ Pending(u[i], prog, j) /\ Pending(Top, prog, j)
  <2>1. CASE a \in 1 .. n /\ stack'[a] = stack[a]
    <3>1. a \in 1 .. (n + 1) /\ n + 1 \in 1 .. (n + 1) /\ a # n + 1
      BY <1>1, <2>1
    <3> QED
      BY <1>1, <1>3, <1>5, <2>1, <3>1
  <2>2. CASE \E i \in 1 .. m : a = n + i /\ stack'[a] = u[i]
    BY <1>1, <1>5, <2>2
  <2> QED
    BY <1>4, <2>1, <2>2
<1>6. AheadOfOne'
  <2> SUFFICES ASSUME NEW a \in DOMAIN stack', NEW b \in DOMAIN stack', NEW j \in DOMAIN prog,
                      Pending(stack'[a], prog, j), Pending(stack'[b], prog, j)
               PROVE  a = b
    BY DEF AheadOfOne
  <2>1. CASE Pending(Top, prog, j)
    <3>1. PICK i \in 1 .. m : a = n + i /\ Pending(u[i], prog, j)
      BY <1>5, <2>1
    <3>2. PICK k \in 1 .. m : b = n + k /\ Pending(u[k], prog, j)
      BY <1>5, <2>1
    <3>3. i = k
      BY <1>1, <3>1, <3>2
    <3> QED
      BY <3>1, <3>2, <3>3
  <2>2. CASE ~Pending(Top, prog, j)
    <3>1. /\ a \in 1 .. n /\ Pending(stack[a], prog, j)
          /\ b \in 1 .. n /\ Pending(stack[b], prog, j)
      BY <1>5, <2>2
    <3>2. a \in 1 .. (n + 1) /\ b \in 1 .. (n + 1)
      BY <1>1, <3>1
    <3> QED
      BY <1>3, <3>1, <3>2
  <2> QED
    BY <2>1, <2>2
<1>7. NothingFiledAhead'
  <2> SUFFICES ASSUME NEW a \in DOMAIN stack', NEW j \in DOMAIN prog, Pending(stack'[a], prog, j)
               PROVE  ~Filed(j)'
    BY DEF NothingFiledAhead
  <2>1. ~Filed(j)
    <3>1. CASE Pending(Top, prog, j)
      <4>1. n + 1 \in 1 .. (n + 1)
        BY <1>1
      <4> QED
        BY <1>1, <1>3, <3>1, <4>1
    <3>2. CASE ~Pending(Top, prog, j)
      <4>1. a \in 1 .. n /\ Pending(stack[a], prog, j)
        BY <1>5, <3>2
      <4>2. a \in 1 .. (n + 1)
        BY <1>1, <4>1
      <4> QED
        BY <1>3, <4>1, <4>2
    <3> QED
      BY <3>1, <3>2
  <2> QED
    BY <1>1, <1>5, <2>1
<1>8. NoneLost'
  <2> SUFFICES ASSUME NEW j \in DOMAIN prog, IsSearched(j, prog, comm), ~UnderWhile(j, prog), ~Filed(j)'
               PROVE  \E a \in DOMAIN stack' : Pending(stack'[a], prog, j)
    BY DEF NoneLost
  <2>1. PICK a \in 1 .. (n + 1) : Pending(stack[a], prog, j)
    BY <1>3
  <2>2. CASE a = n + 1
    <3>1. PICK i \in DOMAIN u : Pending(u[i], prog, j)
      BY <1>1, <2>1, <2>2
    <3>2. n + i \in DOMAIN stack' /\ stack'[n + i] = u[i]
      BY <1>1, <1>2, <3>1
    <3> QED
      BY <3>1, <3>2
  <2>3. CASE a # n + 1
    <3>1. a \in 1 .. n /\ a \in DOMAIN stack'
      BY <1>1, <1>2, <2>1, <2>3
    <3>2. stack'[a] = stack[a]
      BY <1>2, <3>1
    <3> QED
      BY <2>1, <3>1, <3>2
  <2> QED
    BY <2>2, <2>3
<1> QED
  BY <1>6, <1>7, <1>8 DEF Frontier

-----------------------------------------------------------------------------
(* The containers.                                                         *)

(* The container of class c and slot t, empty where there is none yet.     *)
Container(t, c) == IF t \in DOMAIN order THEN order[t][c] ELSE << >>

(* o is put at the end of the container of class b and slot s, and nothing *)
(* else is filed.                                                          *)
FilesAt(o, s, b) ==
    \A t \in DOMAIN order' : \A c \in Classes :
        order'[t][c] = IF t = s /\ c = b THEN Append(Container(t, c), o) ELSE Container(t, c)

(* Growing keeps what there is.                                            *)
LEMMA GrownKeeps ==
    ASSUME NEW D, NEW ord \in Seq([Classes -> Seq(D)]), NEW c \in Nat, NEW t \in DOMAIN ord
    PROVE  t \in DOMAIN Grown(ord, c) /\ Grown(ord, c)[t] = ord[t]
<1>1. EmptySlot \in [Classes -> Seq(D)]
  BY DEF EmptySlot
<1> HIDE DEF EmptySlot
<1>2. CASE Grown(ord, c) = Append(ord, EmptySlot)
  BY <1>1, <1>2
<1>3. CASE Grown(ord, c) = ord
  BY <1>3
<1> QED
  BY <1>2, <1>3 DEF Grown

(* Filing o puts it at the end of one container.                           *)
LEMMA CollectAppends ==
    ASSUME TypeOK, SlotsInBounds, NEW o, Collect(o)
    PROVE  /\ o \in DOMAIN prog
           /\ DOMAIN order \subseteq DOMAIN order'
           /\ \E s \in DOMAIN order' : \E b \in Classes : FilesAt(o, s, b)
           /\ \A t \in DOMAIN order' : \A c \in Classes : Container(t, c) \in Seq(DOMAIN prog)
<1>1. AtOp(o) /\ stack # <<>>
  BY DEF Collect, AtOp
<1>2. o \in DOMAIN prog /\ Class(o, prog) \in Classes
  BY <1>1, AtOpType, ClassType DEF TypeOK
<1>3. Top.counter \in Nat /\ Top.counter <= Len(order) /\ order \in Seq([Classes -> Seq(DOMAIN prog)])
  BY <1>1, CountersBounded DEF TypeOK
<1> DEFINE g == Grown(order, Top.counter)
           s == Top.counter + 1
           b == Class(o, prog)
<1>4. /\ g \in Seq([Classes -> Seq(DOMAIN prog)]) /\ s \in DOMAIN g
      /\ \A t \in DOMAIN g : (t \in DOMAIN order /\ g[t] = order[t]) \/ g[t] = EmptySlot
      /\ \A t \in DOMAIN order : t \in DOMAIN g /\ g[t] = order[t]
  <2> HIDE DEF s
  <2>1. /\ g \in Seq([Classes -> Seq(DOMAIN prog)]) /\ Top.counter + 1 \in DOMAIN g
        /\ \A t \in DOMAIN g : (t \in DOMAIN order /\ g[t] = order[t]) \/ g[t] = EmptySlot
    BY <1>3, GrownType
  <2>2. \A t \in DOMAIN order : t \in DOMAIN g /\ g[t] = order[t]
    BY <1>3, GrownKeeps
  <2> QED
    BY <2>1, <2>2 DEF s
<1>5. order' = [g EXCEPT ![s][b] = Append(@, o)]
  BY DEF Collect
<1> HIDE DEF g, s, b
<1>6. b \in Classes
  BY <1>2 DEF b
<1>7. /\ DOMAIN order' = DOMAIN g
      /\ \A t \in DOMAIN g : \A c \in Classes :
           order'[t][c] = IF t = s /\ c = b THEN Append(g[s][b], o) ELSE g[t][c]
  BY <1>2, <1>4, <1>5, <1>6, FiledType
<1>8. \A t \in DOMAIN g : \A c \in Classes : g[t][c] = Container(t, c)
  <2> SUFFICES ASSUME NEW t \in DOMAIN g, NEW c \in Classes PROVE g[t][c] = Container(t, c)
    OBVIOUS
  <2>1. CASE t \in DOMAIN order
    BY <1>4, <2>1 DEF Container
  <2>2. CASE t \notin DOMAIN order
    BY <1>4, <2>2 DEF Container, EmptySlot
  <2> QED
    BY <2>1, <2>2
<1>9. \A t \in DOMAIN order' : \A c \in Classes : Container(t, c) \in Seq(DOMAIN prog)
  BY <1>4, <1>7, <1>8
<1>10. \E x \in DOMAIN order' : \E c \in Classes : FilesAt(o, x, c)
  <2>1. FilesAt(o, s, b) /\ s \in DOMAIN order'
    BY <1>4, <1>6, <1>7, <1>8 DEF FilesAt
  <2> QED
    BY <1>6, <2>1
<1>11. DOMAIN order \subseteq DOMAIN order'
  BY <1>4, <1>7
<1> QED
  BY <1>2, <1>9, <1>10, <1>11

(* What is filed not twice: filing something new keeps it so.              *)
LEMMA CollectOnce ==
    ASSUME TypeOK, SlotsInBounds, NoneTwice, NEW o, Collect(o), ~Filed(o)
    PROVE  NoneTwice' /\ \A j : Filed(j)' <=> Filed(j) \/ j = o
<1>1. /\ o \in DOMAIN prog /\ DOMAIN order \subseteq DOMAIN order'
      /\ \A t \in DOMAIN order' : \A c \in Classes : Container(t, c) \in Seq(DOMAIN prog)
  BY CollectAppends
<1>2. PICK s \in DOMAIN order', b \in Classes : FilesAt(o, s, b)
  BY CollectAppends
<1>3. \A j : Filed(j) <=> \E t \in DOMAIN order' : \E c \in Classes :
                             \E i \in DOMAIN Container(t, c) : Container(t, c)[i] = j
  <2> SUFFICES ASSUME NEW j
               PROVE  Filed(j) <=> \E t \in DOMAIN order' : \E c \in Classes :
                                     \E i \in DOMAIN Container(t, c) : Container(t, c)[i] = j
    OBVIOUS
  <2>1. ASSUME Filed(j)
        PROVE  \E t \in DOMAIN order' : \E c \in Classes :
                 \E i \in DOMAIN Container(t, c) : Container(t, c)[i] = j
    BY <1>1, <2>1 DEF Filed, Container
  <2>2. ASSUME NEW t \in DOMAIN order', NEW c \in Classes,
               NEW i \in DOMAIN Container(t, c), Container(t, c)[i] = j
        PROVE  Filed(j)
    <3>1. t \in DOMAIN order
      <4>1. DOMAIN << >> = {}
        OBVIOUS
      <4> QED
        BY <2>2, <4>1 DEF Container
    <3> QED
      BY <2>2, <3>1 DEF Filed, Container
  <2> QED
    BY <2>1, <2>2
<1>4. ASSUME NEW t \in DOMAIN order', NEW c \in Classes, NEW i \in DOMAIN order'[t][c]
      PROVE  \/ i \in DOMAIN Container(t, c) /\ order'[t][c][i] = Container(t, c)[i]
             \/ t = s /\ c = b /\ i = Len(Container(t, c)) + 1 /\ order'[t][c][i] = o
  <2> DEFINE l == Container(t, c)
  <2>1. l \in Seq(DOMAIN prog)
    BY <1>1
  <2> HIDE DEF l
  <2>2. CASE t = s /\ c = b
    <3>1. order'[t][c] = Append(l, o)
      BY <1>2, <2>2 DEF l, FilesAt
    <3>2. \/ i \in DOMAIN l /\ Append(l, o)[i] = l[i]
          \/ i = Len(l) + 1 /\ Append(l, o)[i] = o
      BY <1>1, <2>1, <3>1
    <3> QED
      BY <2>2, <3>1, <3>2 DEF l
  <2>3. CASE ~(t = s /\ c = b)
    BY <1>2, <2>3 DEF FilesAt
  <2> QED
    BY <2>2, <2>3
<1>5. ASSUME NEW t \in DOMAIN order', NEW c \in Classes, NEW i \in DOMAIN Container(t, c)
      PROVE  i \in DOMAIN order'[t][c] /\ order'[t][c][i] = Container(t, c)[i]
  <2> DEFINE l == Container(t, c)
  <2>1. l \in Seq(DOMAIN prog) /\ i \in DOMAIN l
    BY <1>1
  <2>2. order'[t][c] = Append(l, o) \/ order'[t][c] = l
    BY <1>2 DEF FilesAt
  <2> HIDE DEF l
  <2>3. i \in DOMAIN Append(l, o) /\ Append(l, o)[i] = l[i]
    BY <1>1, <2>1
  <2>4. i \in DOMAIN order'[t][c] /\ order'[t][c][i] = l[i]
    BY <2>1, <2>2, <2>3
  <2> QED
    BY <2>4 DEF l
<1>6. \E i \in DOMAIN order'[s][b] : order'[s][b][i] = o
  <2> DEFINE l == Container(s, b)
  <2>1. l \in Seq(DOMAIN prog) /\ order'[s][b] = Append(l, o)
    BY <1>1, <1>2 DEF FilesAt
  <2> HIDE DEF l
  <2>2. Len(l) + 1 \in DOMAIN Append(l, o) /\ Append(l, o)[Len(l) + 1] = o
    BY <1>1, <2>1
  <2> QED
    BY <2>1, <2>2
<1>7. ASSUME NEW j PROVE Filed(j)' <=> Filed(j) \/ j = o
  <2>1. ASSUME Filed(j)' PROVE Filed(j) \/ j = o
    <3>1. PICK t \in DOMAIN order', c \in Classes : \E i \in DOMAIN order'[t][c] : order'[t][c][i] = j
      BY <2>1 DEF Filed
    <3>2. PICK i \in DOMAIN order'[t][c] : order'[t][c][i] = j
      BY <3>1
    <3> QED
      BY <1>3, <1>4, <3>2
  <2>2. ASSUME Filed(j) PROVE Filed(j)'
    <3>1. PICK t \in DOMAIN order', c \in Classes :
            \E i \in DOMAIN Container(t, c) : Container(t, c)[i] = j
      BY <1>3, <2>2
    <3>2. PICK i \in DOMAIN Container(t, c) : Container(t, c)[i] = j
      BY <3>1
    <3>3. i \in DOMAIN order'[t][c] /\ order'[t][c][i] = j
      BY <1>5, <3>2
    <3> QED
      BY <3>3 DEF Filed
  <2>3. ASSUME j = o PROVE Filed(j)'
    BY <1>6, <2>3 DEF Filed
  <2> QED
    BY <2>1, <2>2, <2>3
<1>8. NoneTwice'
  <2> SUFFICES ASSUME NEW t \in DOMAIN order', NEW c \in Classes,
                      NEW i \in DOMAIN order'[t][c], NEW l \in DOMAIN order'[t][c],
                      order'[t][c][i] = order'[t][c][l]
               PROVE  i = l
    BY DEF NoneTwice
  <2>1. \A x \in DOMAIN Container(t, c) : Container(t, c)[x] # o
    BY <1>3
  <2>2. ASSUME i \in DOMAIN Container(t, c), l \in DOMAIN Container(t, c),
               Container(t, c)[i] = Container(t, c)[l]
        PROVE  i = l
    <3>1. t \in DOMAIN order
      <4>1. DOMAIN << >> = {}
        OBVIOUS
      <4> QED
        BY <2>2, <4>1 DEF Container
    <3> QED
      BY <2>2, <3>1 DEF NoneTwice, Container
  <2> QED
    BY <1>4, <2>1, <2>2
<1> QED
  BY <1>7, <1>8

-----------------------------------------------------------------------------
(* The steps of the walk.                                                  *)

(* What is filed is not ahead of the running activation.                   *)
LEMMA TopUnfiled ==
    ASSUME TypeOK, Frontier, NEW o, AtOp(o)
    PROVE  ~Filed(o) /\ Pending(Top, prog, o)
<1>1. o \in DOMAIN prog /\ Pending(Top, prog, o)
  BY AtOpType, PendingSplit
<1>2. Len(stack) \in DOMAIN stack
  BY DEF AtOp, TypeOK
<1> QED
  BY <1>1, <1>2 DEF Frontier, NothingFiledAhead, Top

(* What is filed depends on the containers only.                           *)
LEMMA SameFiled ==
    ASSUME order' = order
    PROVE  \A j : Filed(j)' <=> Filed(j)
BY DEF Filed

(* A collective and a passed operation have nothing in them to find.       *)
LEMMA CollectFrontier ==
    ASSUME TypeInv, Frontier, NoneTwice, NEW o, Collect(o)
    PROVE  Frontier' /\ NoneTwice'
<1>1. /\ TypeOK /\ SlotsInBounds /\ AtOp(o) /\ stack # <<>>
      /\ IsSearched(o, prog, comm) /\ UNCHANGED <<prog, comm>>
  BY DEF TypeInv, Collect, AtOp
<1>2. NoneTwice' /\ (\A j : Filed(j)' <=> (Filed(j) \/ j = o)) /\ Pending(Top, prog, o)
  BY <1>1, TopUnfiled, CollectOnce
<1> DEFINE f == [Past(o) EXCEPT !.counter = @ + 1]
           u == <<f>>
<1>3. f \in ActivationType /\ f.region = Past(o).region /\ f.at = Past(o).at
  BY <1>1, AtOpType DEF ActivationType
<1>4. stack' = Append(Callers, f) /\ Callers \in Seq(ActivationType)
  BY <1>1, TopType DEF Collect
<1>5. \A j \in DOMAIN prog : Pending(f, prog, j) <=> Pending(Past(o), prog, j)
  BY <1>3 DEF Pending
<1> HIDE DEF f
<1>6. u \in Seq(ActivationType) /\ stack' = Callers \o u
  BY <1>3, <1>4, AppendIsConcat
<1>7. \A j \in DOMAIN prog : /\ Pending(Top, prog, j) => j = o \/ Pending(f, prog, j)
                             /\ Pending(f, prog, j) => Pending(Top, prog, j) /\ j # o
  <2> SUFFICES ASSUME NEW j \in DOMAIN prog
               PROVE  /\ Pending(Top, prog, j) => j = o \/ Pending(f, prog, j)
                      /\ Pending(f, prog, j) => Pending(Top, prog, j) /\ j # o
    OBVIOUS
  <2>1. ASSUME NEW r \in {1, 2}, Encloses(Body(o, r, prog), prog[j].path) PROVE FALSE
    <3>1. IsBranch(prog, o)
      BY <1>1, <2>1, InsideRegion, AtOpType DEF TypeOK
    <3>2. prog[o].kind = "coll"
      BY <1>1 DEF IsSearched
    <3> QED
      BY <3>1, <3>2 DEF IsBranch, BranchKinds
  <2> QED
    BY <1>1, <1>5, <2>1, PendingSplit
<1>8. \A i \in DOMAIN u : u[i] = f /\ i = 1
  OBVIOUS
<1>9. DOMAIN u = {1} /\ u[1] = f
  OBVIOUS
<1> HIDE DEF u
<1>10. Frontier'
  <2>1. \A j \in DOMAIN prog : Filed(j)' => \/ Filed(j)
                                            \/ /\ Pending(Top, prog, j)
                                               /\ \A i \in DOMAIN u : ~Pending(u[i], prog, j)
    BY <1>2, <1>7, <1>8
  <2>2. \A i \in DOMAIN u : \A j \in DOMAIN prog : Pending(u[i], prog, j) => Pending(Top, prog, j)
    BY <1>7, <1>8
  <2>3. \A i, k \in DOMAIN u : \A j \in DOMAIN prog :
          Pending(u[i], prog, j) /\ Pending(u[k], prog, j) => i = k
    BY <1>8
  <2>4. \A j \in DOMAIN prog : Filed(j) => Filed(j)'
    BY <1>2
  <2>5. \A j \in DOMAIN prog :
          Pending(Top, prog, j) /\ IsSearched(j, prog, comm) /\ ~UnderWhile(j, prog) =>
            Filed(j)' \/ \E i \in DOMAIN u : Pending(u[i], prog, j)
    BY <1>2, <1>7, <1>9
  <2> QED
    BY <1>1, <1>6, <2>1, <2>2, <2>3, <2>4, <2>5, FrontierPushed
<1> QED
  BY <1>2, <1>10

(* Where nothing is filed, only what is ahead has to be looked at.         *)
LEMMA FrontierMoved ==
    ASSUME TypeOK, Frontier, stack # <<>>, UNCHANGED <<prog, comm, order>>,
           NEW u \in Seq(ActivationType), stack' = Callers \o u,
           \A i \in DOMAIN u : \A j \in DOMAIN prog : Pending(u[i], prog, j) => Pending(Top, prog, j),
           \A i, k \in DOMAIN u : \A j \in DOMAIN prog :
             Pending(u[i], prog, j) /\ Pending(u[k], prog, j) => i = k,
           \A j \in DOMAIN prog :
             Pending(Top, prog, j) /\ IsSearched(j, prog, comm) /\ ~UnderWhile(j, prog) =>
               \E i \in DOMAIN u : Pending(u[i], prog, j)
    PROVE  Frontier'
<1>1. \A j \in DOMAIN prog : Filed(j)' <=> Filed(j)
  BY SameFiled
<1>2. \A j \in DOMAIN prog : Filed(j) => Filed(j)'
  BY <1>1
<1>3. \A j \in DOMAIN prog : Filed(j)' => \/ Filed(j)
                                          \/ /\ Pending(Top, prog, j)
                                             /\ \A i \in DOMAIN u : ~Pending(u[i], prog, j)
  BY <1>1
<1>4. \A j \in DOMAIN prog :
        Pending(Top, prog, j) /\ IsSearched(j, prog, comm) /\ ~UnderWhile(j, prog) =>
          Filed(j)' \/ \E i \in DOMAIN u : Pending(u[i], prog, j)
  OBVIOUS
<1> QED
  BY <1>2, <1>3, <1>4, FrontierPushed

(* An operation that is passed over is no collective to find, and has none *)
(* in it but under an scf.while.                                           *)
LEMMA PassOverFrontier ==
    ASSUME TypeOK, Frontier, NEW o, PassOver(o)
    PROVE  Frontier'
<1>1. /\ AtOp(o) /\ stack # <<>> /\ ~IsSearched(o, prog, comm)
      /\ prog[o].kind \notin {"if", "for"} /\ UNCHANGED <<prog, comm, order>>
  BY DEF PassOver, AtOp
<1> DEFINE f == Past(o)
           u == <<f>>
<1>2. f \in ActivationType /\ stack' = Append(Callers, f) /\ Callers \in Seq(ActivationType)
  BY <1>1, AtOpType, TopType DEF PassOver
<1>3. \A j \in DOMAIN prog : Pending(f, prog, j) => Pending(Top, prog, j)
  BY <1>1, PendingSplit
<1>4. ASSUME NEW j \in DOMAIN prog, Pending(Top, prog, j), IsSearched(j, prog, comm), ~UnderWhile(j, prog)
      PROVE  Pending(f, prog, j)
  <2>1. ASSUME NEW r \in {1, 2}, Encloses(Body(o, r, prog), prog[j].path) PROVE FALSE
    <3>1. IsBranch(prog, o) /\ (prog[o].kind = "while" => UnderWhile(j, prog))
      BY <1>1, <2>1, InsideRegion, AtOpType DEF TypeOK
    <3> QED
      BY <1>1, <1>4, <3>1 DEF IsBranch, BranchKinds
  <2> QED
    BY <1>1, <1>4, <2>1, PendingSplit
<1> HIDE DEF f
<1>5. u \in Seq(ActivationType) /\ stack' = Callers \o u
  BY <1>2, AppendIsConcat
<1>6. DOMAIN u = {1} /\ u[1] = f
  OBVIOUS
<1> HIDE DEF u
<1> QED
  BY <1>1, <1>3, <1>4, <1>5, <1>6, FrontierMoved

(* The activation for the body of a loop takes what is in it.              *)
LEMMA EnterForFrontier ==
    ASSUME TypeInv, Frontier, NEW o, EnterFor(o)
    PROVE  Frontier'
<1>1. /\ TypeOK /\ SlotsInBounds /\ AtOp(o) /\ stack # <<>> /\ prog[o].kind = "for"
      /\ o \in DOMAIN prog /\ WellFormed(prog) /\ UNCHANGED <<prog, comm, order>>
  BY AtOpType DEF TypeInv, TypeOK, EnterFor, AtOp
<1> DEFINE e == Past(o)
           h == Activation(Body(o, 1, prog), o, Top.counter)
           u == <<e, h>>
<1>2. e \in ActivationType /\ h \in ActivationType /\ stack' = Callers \o u
  BY <1>1, AtOpType, ActivationIsType, CountersBounded DEF EnterFor
<1>3. \A j \in DOMAIN prog : Pending(h, prog, j) <=> Encloses(Body(o, 1, prog), prog[j].path)
  BY <1>1, InnerPending
<1>4. \A j \in DOMAIN prog : ~Encloses(Body(o, 2, prog), prog[j].path)
  BY <1>1, InsideRegion
<1>5. \A j \in DOMAIN prog :
        /\ Pending(Top, prog, j) <=> j = o \/ Pending(e, prog, j) \/ Pending(h, prog, j)
        /\ ~(Pending(e, prog, j) /\ Pending(h, prog, j))
  BY <1>1, <1>3, <1>4, PendingSplit
<1> HIDE DEF e, h
<1>6. u \in Seq(ActivationType) /\ DOMAIN u = {1, 2} /\ u[1] = e /\ u[2] = h
  BY <1>2
<1> HIDE DEF u
<1>7. ~IsSearched(o, prog, comm)
  BY <1>1 DEF IsSearched
<1>8. \A i \in DOMAIN u : \A j \in DOMAIN prog : Pending(u[i], prog, j) => Pending(Top, prog, j)
  BY <1>5, <1>6
<1>9. \A i, k \in DOMAIN u : \A j \in DOMAIN prog :
        Pending(u[i], prog, j) /\ Pending(u[k], prog, j) => i = k
  BY <1>5, <1>6
<1>10. \A j \in DOMAIN prog :
         Pending(Top, prog, j) /\ IsSearched(j, prog, comm) /\ ~UnderWhile(j, prog) =>
           \E i \in DOMAIN u : Pending(u[i], prog, j)
  BY <1>5, <1>6, <1>7
<1> QED
  BY <1>1, <1>2, <1>6, <1>8, <1>9, <1>10, FrontierMoved

(* So do those for the two regions of a conditional, one each.             *)
LEMMA EnterIfFrontier ==
    ASSUME TypeInv, Frontier, NEW o, EnterIf(o)
    PROVE  Frontier'
<1>1. /\ TypeOK /\ SlotsInBounds /\ AtOp(o) /\ stack # <<>> /\ prog[o].kind = "if"
      /\ o \in DOMAIN prog /\ WellFormed(prog) /\ UNCHANGED <<prog, comm, order>>
  BY AtOpType DEF TypeInv, TypeOK, EnterIf, AtOp
<1> DEFINE e == Past(o)
           g == Activation(Body(o, 2, prog), o, Top.counter)
           h == Activation(Body(o, 1, prog), o, Top.counter)
           u == <<e, g, h>>
<1>2. e \in ActivationType /\ g \in ActivationType /\ h \in ActivationType /\ stack' = Callers \o u
  BY <1>1, AtOpType, ActivationIsType, CountersBounded DEF EnterIf
<1>3. \A j \in DOMAIN prog : /\ Pending(g, prog, j) <=> Encloses(Body(o, 2, prog), prog[j].path)
                             /\ Pending(h, prog, j) <=> Encloses(Body(o, 1, prog), prog[j].path)
  BY <1>1, InnerPending
<1>4. \A j \in DOMAIN prog : ~(Pending(g, prog, j) /\ Pending(h, prog, j))
  BY <1>1, <1>3, RegionsApart
<1>5. \A j \in DOMAIN prog :
        /\ Pending(Top, prog, j) <=> j = o \/ Pending(e, prog, j) \/ Pending(g, prog, j) \/ Pending(h, prog, j)
        /\ ~(Pending(e, prog, j) /\ Pending(g, prog, j))
        /\ ~(Pending(e, prog, j) /\ Pending(h, prog, j))
  BY <1>1, <1>3, PendingSplit
<1> HIDE DEF e, g, h
<1>6. u \in Seq(ActivationType) /\ DOMAIN u = {1, 2, 3} /\ u[1] = e /\ u[2] = g /\ u[3] = h
  BY <1>2
<1> HIDE DEF u
<1>7. ~IsSearched(o, prog, comm)
  BY <1>1 DEF IsSearched
<1>8. \A i \in DOMAIN u : \A j \in DOMAIN prog : Pending(u[i], prog, j) => Pending(Top, prog, j)
  BY <1>5, <1>6
<1>9. \A i, k \in DOMAIN u : \A j \in DOMAIN prog :
        Pending(u[i], prog, j) /\ Pending(u[k], prog, j) => i = k
  BY <1>4, <1>5, <1>6
<1>10. \A j \in DOMAIN prog :
         Pending(Top, prog, j) /\ IsSearched(j, prog, comm) /\ ~UnderWhile(j, prog) =>
           \E i \in DOMAIN u : Pending(u[i], prog, j)
  BY <1>5, <1>6, <1>7
<1> QED
  BY <1>1, <1>2, <1>6, <1>8, <1>9, <1>10, FrontierMoved

(* An activation that returns has nothing ahead.                           *)
LEMMA ReturnFrontier ==
    ASSUME TypeOK, Frontier, Return
    PROVE  Frontier'
<1>1. stack # <<>> /\ Ahead(Top, prog) = {} /\ UNCHANGED <<prog, comm, order>>
  BY DEF Return
<1>2. WellFormed(prog) /\ Top.region \in Seq((Nat \ {0}) \X {1, 2})
  BY <1>1, TopType DEF TypeOK, ActivationType
<1>3. \A j \in DOMAIN prog : ~Pending(Top, prog, j)
  BY <1>1, <1>2, AnchorInRegion DEF Pending, Ahead
<1> DEFINE u == << >>
<1>4. u \in Seq(ActivationType) /\ DOMAIN u = {} /\ stack' = Callers \o u
  BY <1>1, TopType DEF Return
<1> HIDE DEF u
<1> QED
  BY <1>1, <1>3, <1>4, FrontierMoved

(* The walk begins with everything ahead of its only activation.           *)
LEMMA NextCommFrontier ==
    ASSUME TypeOK, NextComm
    PROVE  Frontier' /\ NoneTwice'
<1> DEFINE f == Activation(<<>>, 0, 0)
<1>1. stack' = <<f>> /\ order' = <<>> /\ prog' = prog /\ WellFormed(prog)
  BY DEF NextComm, TypeOK
<1>2. f.region = <<>> /\ f.at = 0
  BY DEF Activation
<1>3. \A j : ~Filed(j)'
  BY <1>1 DEF Filed
<1>4. NoneTwice'
  BY <1>1 DEF NoneTwice
<1>5. \A j \in DOMAIN prog : Pending(f, prog, j)
  <2> SUFFICES ASSUME NEW j \in DOMAIN prog PROVE Pending(f, prog, j)
    OBVIOUS
  <2>1. << >> \in Seq((Nat \ {0}) \X {1, 2}) /\ Encloses(<< >>, prog[j].path)
    <3>1. Len(prog[j].path) \in Nat
      BY <1>1, PathType
    <3> QED
      BY <3>1 DEF Encloses
  <2>2. Anchor(<< >>, prog, j) \in DOMAIN prog
    BY <1>1, <2>1, AnchorInRegion
  <2>3. 0 < Anchor(<< >>, prog, j)
    BY <1>1, <2>2, ProgramDomain
  <2> QED
    BY <1>2, <2>1, <2>3 DEF Pending
<1> HIDE DEF f
<1>6. DOMAIN stack' = {1} /\ stack'[1] = f
  BY <1>1
<1>7. Frontier'
  BY <1>1, <1>3, <1>5, <1>6 DEF Frontier, AheadOfOne, NothingFiledAhead, NoneLost
<1> QED
  BY <1>4, <1>7

-----------------------------------------------------------------------------
(* The invariant.                                                          *)

LEMMA InitFiledInv == Init => FiledInv
<1> SUFFICES ASSUME Init PROVE FiledInv
  OBVIOUS
<1>1. stack = <<>> /\ order = <<>> /\ pc = "start"
  BY DEF Init, InitPass
<1> QED
  BY <1>1, InitSlotInv DEF FiledInv, NoneTwice

(* The frontier depends on the program, the communicator, the stack and    *)
(* the containers only.                                                    *)
LEMMA FrontierKept ==
    ASSUME UNCHANGED <<prog, comm, stack, order>>
    PROVE  /\ Frontier => Frontier'
           /\ NoneTwice => NoneTwice'
BY DEF Frontier, AheadOfOne, NothingFiledAhead, NoneLost, NoneTwice, Filed

LEMMA NextFiledInv == FiledInv /\ [Next]_vars => FiledInv'
<1> SUFFICES ASSUME FiledInv, [Next]_vars PROVE FiledInv'
  OBVIOUS
<1>1. SlotInv' /\ TypeInv /\ TypeOK /\ NoneTwice
  BY NextSlotInv DEF FiledInv, SlotInv, TypeInv
<1>2. CASE Start
  <2>1. order' = <<>> /\ pc' = "loop"
    BY <1>1, <1>2 DEF Start, TypeInv, NothingYet, walkVars
  <2> QED
    BY <1>1, <2>1 DEF FiledInv, NoneTwice
<1>3. CASE NextComm
  <2>1. pc' = "collect"
    BY <1>3 DEF NextComm
  <2> QED
    BY <1>1, <1>3, <2>1, NextCommFrontier DEF FiledInv
<1>4. ASSUME NEW o \in DOMAIN prog, Collect(o) \/ EnterIf(o) \/ EnterFor(o) \/ PassOver(o)
      PROVE  FiledInv'
  <2>1. pc = "collect" /\ pc' = "collect" /\ Frontier
    BY <1>4 DEF Collect, EnterIf, EnterFor, PassOver, AtOp, FiledInv
  <2>2. ASSUME order' = order PROVE NoneTwice'
    BY <1>1, <2>2 DEF NoneTwice
  <2>3. Frontier' /\ NoneTwice'
    <3>1. CASE Collect(o)
      BY <1>1, <2>1, <3>1, CollectFrontier
    <3>2. CASE EnterIf(o)
      BY <1>1, <2>1, <2>2, <3>2, EnterIfFrontier DEF EnterIf
    <3>3. CASE EnterFor(o)
      BY <1>1, <2>1, <2>2, <3>3, EnterForFrontier DEF EnterFor
    <3>4. CASE PassOver(o)
      BY <1>1, <2>1, <2>2, <3>4, PassOverFrontier DEF PassOver
    <3> QED
      BY <1>4, <3>1, <3>2, <3>3, <3>4
  <2> QED
    BY <1>1, <2>1, <2>3 DEF FiledInv
<1>5. CASE Return
  <2>1. /\ pc = "collect" /\ Frontier /\ order' = order /\ stack' = Callers
        /\ pc' = "collect" \/ (pc' = "check" /\ Callers = <<>>)
    BY <1>5 DEF Return, FiledInv
  <2>2. Frontier' /\ NoneTwice'
    BY <1>1, <1>5, <2>1, ReturnFrontier DEF NoneTwice
  <2> QED
    BY <1>1, <2>1, <2>2 DEF FiledInv
<1>6. CASE UNCHANGED <<prog, comm, stack, order>> /\ (pc' \in {"check", "fuse", "scan"} => pc \in {"check", "fuse", "scan"})
                                                  /\ (pc' = "collect" => pc = "collect")
  BY <1>1, <1>6, FrontierKept DEF FiledInv
<1>7. \/ Start \/ NextComm \/ Walk \/ Return
      \/ /\ UNCHANGED <<prog, comm, stack, order>>
         /\ pc' \in {"check", "fuse", "scan"} => pc \in {"check", "fuse", "scan"}
         /\ pc' = "collect" => pc = "collect"
  BY DEF Next, NoMain, Report, SkipContainer, NextClass, EndCheck, StartPDFP, FuseMember,
         EndFuse, ScanList, EndPDFP, vars, walkVars
<1> QED
  BY <1>2, <1>3, <1>4, <1>5, <1>6, <1>7 DEF Walk

(* A container without repetition is not longer than the program.          *)
LEMMA ContainerFits ==
    ASSUME NEW n \in Nat, NEW l \in Seq(1 .. n),
           \A i, k \in DOMAIN l : l[i] = l[k] => i = k
    PROVE  Len(l) <= n
<1> DEFINE m == Len(l)
<1>1. m \in Nat /\ l \in [1 .. m -> 1 .. n]
  OBVIOUS
<1>2. /\ IsFiniteSet(1 .. n) /\ Cardinality(1 .. n) = IF 1 > n THEN 0 ELSE n - 1 + 1
      /\ IsFiniteSet(1 .. m) /\ Cardinality(1 .. m) = IF 1 > m THEN 0 ELSE m - 1 + 1
  <2>1. \A k \in Nat : IsFiniteSet(1 .. k) /\ Cardinality(1 .. k) = IF 1 > k THEN 0 ELSE k - 1 + 1
    BY FS_Interval
  <2> HIDE DEF m
  <2> QED
    BY <1>1, <2>1
<1>3. SUFFICES ASSUME n < m PROVE FALSE
  BY <1>1
<1>4. Cardinality(1 .. n) < Cardinality(1 .. m)
  BY <1>1, <1>2, <1>3
<1> HIDE DEF m
<1>5. \E x, y \in 1 .. m : x # y /\ l[x] = l[y]
  BY <1>1, <1>2, <1>4, FS_PigeonHole, Zenon
<1> QED
  BY <1>5 DEF m

LEMMA FiledInvOnce == FiledInv => FiledOnce
<1> SUFFICES ASSUME FiledInv, pc \in {"check", "fuse", "scan"}, NEW o \in DOMAIN prog,
                    IsSearched(o, prog, comm),
                    \A k \in DOMAIN prog[o].path : prog[prog[o].path[k][1]].kind # "while"
             PROVE  Cardinality(Filings(o)) = 1
  BY DEF FiledOnce
<1>1. TypeOK /\ FiledInSlot /\ Frontier /\ NoneTwice /\ stack = <<>>
  BY DEF FiledInv, SlotInv, TypeInv
<1>2. Filed(o)
  BY <1>1 DEF Frontier, NoneLost, UnderWhile
<1>3. PICK s \in DOMAIN order, c \in Classes : \E i \in DOMAIN order[s][c] : order[s][c][i] = o
  BY <1>2 DEF Filed
<1>4. PICK i \in DOMAIN order[s][c] : order[s][c][i] = o
  BY <1>3
<1>5. i \in 1 .. Len(prog)
  <2>1. /\ Len(prog) \in Nat /\ order[s][c] \in Seq(1 .. Len(prog))
    BY <1>1, ProgramDomain DEF TypeOK
  <2>2. \A x, y \in DOMAIN order[s][c] : order[s][c][x] = order[s][c][y] => x = y
    BY <1>1 DEF NoneTwice
  <2>3. Len(order[s][c]) <= Len(prog)
    BY <2>1, <2>2, ContainerFits
  <2> QED
    BY <1>4, <2>1, <2>3
<1>6. ASSUME NEW t \in DOMAIN order, NEW b \in Classes, NEW k \in DOMAIN order[t][b],
             order[t][b][k] = o
      PROVE  t = s /\ b = c /\ k = i
  <2>1. t = s /\ b = c
    BY <1>1, <1>4, <1>6 DEF FiledInSlot
  <2>2. order[s][c][k] = order[s][c][i] /\ k \in DOMAIN order[s][c]
    BY <1>4, <1>6, <2>1
  <2> QED
    BY <1>1, <1>4, <2>1, <2>2 DEF NoneTwice
<1>7. Filings(o) = {<<s, c, i>>}
  <2>1. <<s, c, i>> \in Filings(o)
    BY <1>4, <1>5 DEF Filings
  <2>2. ASSUME NEW f \in Filings(o) PROVE f = <<s, c, i>>
    <3>1. /\ f \in (DOMAIN order) \X Classes \X (1 .. Len(prog))
          /\ f[3] \in DOMAIN order[f[1]][f[2]] /\ order[f[1]][f[2]][f[3]] = o
      BY DEF Filings
    <3>2. f = <<f[1], f[2], f[3]>> /\ f[1] \in DOMAIN order /\ f[2] \in Classes
      BY <3>1
    <3> QED
      BY <1>6, <3>1, <3>2
  <2> QED
    BY <2>1, <2>2
<1> QED
  BY <1>7, FS_Singleton

(***************************************************************************)
(* On every program, when checkErrors begins to look at the containers of  *)
(* a communicator and until it is done, each collective on that            *)
(* communicator that no scf.while encloses is in one container, once: the  *)
(* recursion of iterateForCollectives forgets none and meets none twice.   *)
(***************************************************************************)
THEOREM FiledOnceAlways == Spec => []FiledOnce
<1>1. Spec => []FiledInv
  BY InitFiledInv, NextFiledInv, PTL DEF Spec
<1> QED
  BY <1>1, FiledInvOnce, PTL


-----------------------------------------------------------------------------

(***************************************************************************)
(* CausesDivergent is about finished reports.  What carries it there is    *)
(* that every list getPDFP fuses is the beginning of the enclosing         *)
(* operations of a member, and that whatever is in PDFP encloses a member. *)
(***************************************************************************)
BlamesOne(c, members, p) == \E m \in DOMAIN members : Blames(c, members[m], p)

FusedFromMembers ==
    pc \in {"fuse", "scan"} =>
        \A i \in DOMAIN fused : \E m \in DOMAIN Members : fused[i] = Shortened(Members[m], prog)

PDFPEncloses ==
    pc \in {"fuse", "scan"} =>
        \A i \in DOMAIN pdfp : BlamesOne(pdfp[i], Members, prog)

CauseInv == TypeInv /\ FusedFromMembers /\ PDFPEncloses /\ CausesDivergent

-----------------------------------------------------------------------------
(* The operation at which the scan of a list stops is a cause.             *)
LEMMA StopBlames ==
    ASSUME TypeOK, NEW o \in DOMAIN prog, NEW members, NEW counts,
           LET l == Shortened(o, prog) IN StopAt(l, members, prog, counts) <= Len(l)
    PROVE  LET l == Shortened(o, prog) IN Blames(l[StopAt(l, members, prog, counts)], o, prog)
<1> DEFINE l    == Shortened(o, prog)
           stop == StopAt(l, members, prog, counts)
           from == FirstMV(l, prog)
<1>1. WellFormed(prog)
  BY DEF TypeOK
<1>2. /\ l \in Seq(DOMAIN prog) /\ Len(l) <= Len(prog[o].path)
      /\ \A k \in 1 .. Len(l) : l[k] = prog[o].path[k][1]
  BY <1>1, ShortenedType
<1>3. /\ from \in 1 .. (Len(l) + 1)
      /\ from <= Len(l) => prog[l[from]].mv
      /\ stop \in from .. (Len(l) + 1)
  BY <1>1, <1>2, ScanType
<1>4. stop <= Len(l)
  OBVIOUS
<1>5. Len(prog[o].path) \in Nat /\ DOMAIN prog[o].path = 1 .. Len(prog[o].path)
  BY <1>1, PathType
<1> HIDE DEF l, stop, from
<1>6. Len(l) \in Nat
  BY <1>2
<1>7. stop \in 1 .. Len(l) /\ from \in 1 .. stop /\ from \in 1 .. Len(l)
  BY <1>3, <1>4, <1>6
<1>8. stop \in DOMAIN prog[o].path /\ prog[o].path[stop][1] = l[stop]
  BY <1>2, <1>5, <1>6, <1>7
<1>9. prog[prog[o].path[from][1]].mv
  BY <1>2, <1>3, <1>7, <1>6
<1>10. Blames(l[stop], o, prog)
  BY <1>7, <1>8, <1>9 DEF Blames
<1> QED
  BY <1>10 DEF l, stop

LEMMA InitCauseInv == Init => CauseInv
<1> SUFFICES ASSUME Init PROVE CauseInv
  OBVIOUS
<1>1. pc = "start" /\ errors = <<>>
  BY DEF Init, InitPass
<1> QED
  BY <1>1, InitTypeInv DEF CauseInv, FusedFromMembers, PDFPEncloses, CausesDivergent

LEMMA NextCauseInv == CauseInv /\ [Next]_vars => CauseInv'
<1> SUFFICES ASSUME CauseInv, [Next]_vars PROVE CauseInv'
  OBVIOUS
<1>1. TypeInv' /\ TypeOK /\ TypeInv /\ CausesDivergent
  BY NextTypeInv DEF CauseInv, TypeInv
<1>2. ASSUME pc \in {"fuse", "scan"} PROVE Members \in Seq(DOMAIN prog)
  BY <1>1, <1>2, MembersType DEF TypeInv, CellInRange
<1>3. CASE Start
  <2>1. errors' = <<>> /\ pc' = "loop"
    BY <1>1, <1>3 DEF Start, TypeInv, NothingYet
  <2> QED
    BY <1>1, <2>1 DEF CauseInv, FusedFromMembers, PDFPEncloses, CausesDivergent
<1>4. CASE StartPDFP
  <2>1. UNCHANGED <<prog, errors>> /\ fused' = <<>> /\ pdfp' = <<>>
    BY <1>4 DEF StartPDFP
  <2>2. CausesDivergent'
    BY <1>1, <2>1 DEF CausesDivergent
  <2>3. FusedFromMembers' /\ PDFPEncloses'
    BY <2>1 DEF FusedFromMembers, PDFPEncloses
  <2> QED
    BY <1>1, <2>2, <2>3 DEF CauseInv
<1>5. CASE FuseMember
  <2>1. /\ UNCHANGED <<prog, errors, pdfp, pc, order, cell>> /\ pc = "fuse"
        /\ fused' = Fuse(fused, Shortened(Members[next], prog)) /\ next <= Len(Members)
    BY <1>5 DEF FuseMember, walkVars
  <2>2. Members' = Members
    BY <2>1 DEF Members
  <2>3. CausesDivergent' /\ PDFPEncloses'
    BY <1>1, <2>1, <2>2 DEF CauseInv, CausesDivergent, PDFPEncloses
  <2>4. next \in DOMAIN Members /\ Members[next] \in DOMAIN prog
    <3>1. Members \in Seq(DOMAIN prog) /\ next \in Nat \ {0}
      BY <1>1, <1>2, <2>1 DEF TypeOK
    <3> QED
      BY <2>1, <3>1
  <2>5. Shortened(Members[next], prog) \in Seq(DOMAIN prog) /\ fused \in Seq(Seq(DOMAIN prog))
    BY <1>1, <2>4, ShortenedType DEF TypeOK
  <2>6. \A i \in DOMAIN fused' : \/ fused'[i] = Shortened(Members[next], prog)
                                 \/ \E j \in DOMAIN fused : fused'[i] = fused[j]
    BY <2>1, <2>5, FuseType
  <2>7. \A j \in DOMAIN fused : \E m \in DOMAIN Members : fused[j] = Shortened(Members[m], prog)
    BY <2>1 DEF CauseInv, FusedFromMembers
  <2>8. FusedFromMembers'
    BY <2>1, <2>2, <2>4, <2>6, <2>7 DEF FusedFromMembers
  <2> QED
    BY <1>1, <2>3, <2>8 DEF CauseInv
<1>6. CASE EndFuse
  <2>1. UNCHANGED <<prog, errors, pdfp, fused, order, cell>> /\ pc = "fuse" /\ pc' = "scan"
    BY <1>6 DEF EndFuse, walkVars, pdfVars
  <2>2. Members' = Members
    BY <2>1 DEF Members
  <2> QED
    BY <1>1, <2>1, <2>2 DEF CauseInv, CausesDivergent, PDFPEncloses, FusedFromMembers
<1>7. CASE ScanList
  <2> DEFINE l    == Head(fused)
             stop == StopAt(l, Members, prog, numExec)
  <2>1. /\ UNCHANGED <<prog, errors, pc, order, cell>> /\ pc = "scan" /\ fused # <<>>
        /\ fused' = Tail(fused)
        /\ pdfp' = IF stop <= Len(l) THEN Append(pdfp, l[stop]) ELSE pdfp
    BY <1>7 DEF ScanList, walkVars
  <2>2. Members' = Members
    BY <2>1 DEF Members
  <2>3. fused \in Seq(Seq(DOMAIN prog)) /\ pdfp \in Seq(DOMAIN prog)
    BY <1>1 DEF TypeOK
  <2>4. \A i \in DOMAIN fused : \E m \in DOMAIN Members : fused[i] = Shortened(Members[m], prog)
    BY <2>1 DEF CauseInv, FusedFromMembers
  <2>5. FusedFromMembers'
    <3>1. \A i \in DOMAIN Tail(fused) : i + 1 \in DOMAIN fused /\ Tail(fused)[i] = fused[i + 1]
      BY <2>1, <2>3
    <3> QED
      BY <2>1, <2>2, <2>4, <3>1 DEF FusedFromMembers
  <2>6. PICK m \in DOMAIN Members : l = Shortened(Members[m], prog)
    <3>1. 1 \in DOMAIN fused /\ Head(fused) = fused[1]
      BY <2>1, <2>3
    <3> QED
      BY <2>4, <3>1
  <2>7. Members[m] \in DOMAIN prog
    BY <1>2, <2>1
  <2>8. stop <= Len(l) => BlamesOne(l[stop], Members, prog) /\ l[stop] \in DOMAIN prog
    <3> SUFFICES ASSUME stop <= Len(l) PROVE BlamesOne(l[stop], Members, prog) /\ l[stop] \in DOMAIN prog
      OBVIOUS
    <3>1. Blames(l[stop], Members[m], prog)
      BY <1>1, <2>6, <2>7, StopBlames
    <3>2. l[stop] \in DOMAIN prog
      <4>1. l \in Seq(DOMAIN prog) /\ WellFormed(prog)
        BY <1>1, <2>1, <2>3 DEF TypeOK
      <4>2. FirstMV(l, prog) \in 1 .. (Len(l) + 1) /\ stop \in FirstMV(l, prog) .. (Len(l) + 1)
        BY <4>1, ScanType
      <4> HIDE DEF l, stop
      <4> QED
        BY <4>1, <4>2
    <3> QED
      BY <3>1, <3>2 DEF BlamesOne
  <2> HIDE DEF l, stop
  <2>9. \A i \in DOMAIN pdfp : BlamesOne(pdfp[i], Members, prog)
    BY <2>1 DEF CauseInv, PDFPEncloses
  <2>10. \A i \in DOMAIN pdfp' : BlamesOne(pdfp'[i], Members, prog)
    <3>1. CASE stop <= Len(l)
      <4>1. pdfp' = Append(pdfp, l[stop])
        BY <2>1, <3>1
      <4>2. \A i \in DOMAIN pdfp' : (i \in DOMAIN pdfp /\ pdfp'[i] = pdfp[i]) \/ pdfp'[i] = l[stop]
        BY <2>3, <2>8, <3>1, <4>1, AppendProperties
      <4> QED
        BY <2>8, <2>9, <3>1, <4>2
    <3>2. CASE ~(stop <= Len(l))
      BY <2>1, <2>9, <3>2
    <3> QED
      BY <3>1, <3>2
  <2>11. PDFPEncloses'
    BY <2>1, <2>2, <2>10 DEF PDFPEncloses
  <2>12. CausesDivergent'
    BY <1>1, <2>1 DEF CausesDivergent
  <2> QED
    BY <1>1, <2>5, <2>11, <2>12 DEF CauseInv
<1>8. CASE EndPDFP
  <2> DEFINE e == [conflict |-> Members, causing |-> pdfp]
  <2>1. /\ UNCHANGED prog /\ pc = "scan" /\ pc' = "check"
        /\ errors' = errors \/ errors' = Append(errors, e)
    BY <1>8 DEF EndPDFP
  <2>2. e.conflict = Members /\ e.causing = pdfp
    OBVIOUS
  <2> HIDE DEF e
  <2>3. \A i \in DOMAIN e.causing : BlamesOne(e.causing[i], e.conflict, prog)
    BY <2>1, <2>2 DEF CauseInv, PDFPEncloses
  <2>4. \A d \in DOMAIN errors : \A i \in DOMAIN errors[d].causing :
            BlamesOne(errors[d].causing[i], errors[d].conflict, prog)
    BY <1>1 DEF CausesDivergent, BlamesOne
  <2>5. \A d \in DOMAIN errors' : (d \in DOMAIN errors /\ errors'[d] = errors[d]) \/ errors'[d] = e
    <3> DEFINE E == [conflict : Seq(DOMAIN prog), causing : Seq(DOMAIN prog)]
    <3>1. errors \in Seq(E) /\ e \in E
      BY <1>1, <1>2, <2>1 DEF TypeOK, e
    <3> HIDE DEF E
    <3> QED
      BY <2>1, <3>1, AppendProperties
  <2>6. CausesDivergent'
    BY <2>1, <2>3, <2>4, <2>5 DEF CausesDivergent, BlamesOne
  <2> QED
    BY <1>1, <2>1, <2>6 DEF CauseInv, FusedFromMembers, PDFPEncloses
<1>9. CASE UNCHANGED <<prog, errors>> /\ pc' \notin {"fuse", "scan"}
  BY <1>1, <1>9 DEF CauseInv, FusedFromMembers, PDFPEncloses, CausesDivergent
<1>10. CASE UNCHANGED vars
  BY <1>1, <1>10 DEF CauseInv, FusedFromMembers, PDFPEncloses, CausesDivergent, Members,
                     vars, walkVars, pdfVars
<1>11. ASSUME Walk PROVE UNCHANGED <<prog, errors>> /\ pc' \notin {"fuse", "scan"}
  BY <1>11 DEF Walk, Collect, EnterIf, EnterFor, PassOver, AtOp
<1>12. ASSUME Return PROVE UNCHANGED <<prog, errors>> /\ pc' \notin {"fuse", "scan"}
  BY <1>12 DEF Return
<1>13. ASSUME NoMain \/ NextComm \/ Report \/ SkipContainer \/ NextClass \/ EndCheck
       PROVE UNCHANGED <<prog, errors>> /\ pc' \notin {"fuse", "scan"}
  BY <1>13 DEF NoMain, NextComm, Report, SkipContainer, NextClass, EndCheck
<1> QED
  BY <1>3, <1>4, <1>5, <1>6, <1>7, <1>8, <1>9, <1>10, <1>11, <1>12, <1>13 DEF Next

(***************************************************************************)
(* On every program and for every number of ranks, each conditional that a *)
(* report of checkErrors blames encloses a collective of the report, and   *)
(* it, or an operation around it, is multi-valued.                         *)
(***************************************************************************)
THEOREM CausesAreDivergent == Spec => []CausesDivergent
<1>1. Spec => []CauseInv
  BY InitCauseInv, NextCauseInv, PTL DEF Spec
<1> QED
  BY <1>1, PTL DEF CauseInv

-----------------------------------------------------------------------------
(***************************************************************************)
(* What makes ReportedOnce inductive, over all communicators, is where     *)
(* checkErrors stands: whatever is reported lies in a container it has     *)
(* passed.  The slot of a container is that of its members (FiledInSlot),  *)
(* so that a container still to come has none of them.                     *)
(***************************************************************************)
(* The execution-order slot of a collective on the searched communicator.  *)
Slot(o) == Cardinality(CallsBefore(o, prog, comm)) + 1

(* checkErrors has passed the container of o.                              *)
Passed(o) ==
    \E q \in 1 .. NumClasses :
        /\ ClassAt(q) = Class(o, prog)
        /\ q < cell.class \/ (q = cell.class /\ Slot(o) < cell.slot)

ReportPassed(o) ==
    /\ prog[o].kind = "coll" /\ prog[o].comm <= comm
    /\ pc = "collect" => prog[o].comm < comm
    /\ pc \in {"check", "fuse", "scan"} /\ prog[o].comm = comm => Passed(o)

ReportsPassed ==
    \A e \in DOMAIN errors : \A i \in DOMAIN errors[e].conflict : ReportPassed(errors[e].conflict[i])

ReportInv == SlotInv /\ ReportsPassed /\ ReportedOnce

-----------------------------------------------------------------------------
(* Slots are counted from 1.                                               *)
LEMMA SlotType ==
    ASSUME TypeOK, NEW o \in DOMAIN prog
    PROVE  Slot(o) \in Nat /\ ~(Slot(o) < 1)
<1>1. o \in Nat
  BY ProgramDomain DEF TypeOK
<1>2. IsFiniteSet(1 .. (o - 1)) /\ CallsBefore(o, prog, comm) \in SUBSET (1 .. (o - 1))
  BY <1>1, FS_Interval DEF CallsBefore
<1>3. Cardinality(CallsBefore(o, prog, comm)) \in Nat
  BY <1>2, FS_Subset, FS_CardinalityType
<1> QED
  BY <1>3 DEF Slot

(* checkErrors goes through every class once.                              *)
LEMMA ClassAtInjective ==
    ASSUME NEW q \in 1 .. NumClasses, NEW r \in 1 .. NumClasses, ClassAt(q) = ClassAt(r)
    PROVE  q = r
<1>1. Len(TypeOrder) \in Nat /\ DOMAIN TypeOrder = 1 .. Len(TypeOrder)
  BY TypeOrderAssumption
<1> DEFINE s == (q + 1) \div 2
           t == (r + 1) \div 2
<1>2. q \in Nat /\ r \in Nat /\ s \in 1 .. Len(TypeOrder) /\ t \in 1 .. Len(TypeOrder)
  BY <1>1 DEF NumClasses
<1>3. TypeOrder[s] = TypeOrder[t] /\ (q % 2 = 1 <=> r % 2 = 1)
  BY DEF ClassAt
<1>4. s = t
  BY <1>1, <1>2, <1>3, TypeOrderAssumption
<1> QED
  BY <1>2, <1>3, <1>4

(* The members of the container at hand are searched, and of its class and *)
(* slot.                                                                   *)
LEMMA MembersFiled ==
    ASSUME SlotInv, cell.class <= NumClasses, cell.slot <= Len(order), NEW i \in DOMAIN Members
    PROVE  /\ Members[i] \in DOMAIN prog
           /\ cell.class \in 1 .. NumClasses /\ cell.slot \in Nat
           /\ IsSearched(Members[i], prog, comm)
           /\ Class(Members[i], prog) = ClassAt(cell.class)
           /\ Slot(Members[i]) = cell.slot
<1>1. TypeOK /\ FiledInSlot
  BY DEF SlotInv, TypeInv
<1>2. cell.class \in 1 .. NumClasses /\ cell.slot \in DOMAIN order /\ cell.slot \in Nat
  BY <1>1, NumClassesType DEF TypeOK
<1>3. ClassAt(cell.class) \in Classes
  BY <1>2, ClassAtType
<1>4. Members \in Seq(DOMAIN prog)
  BY <1>1, MembersType
<1> QED
  BY <1>1, <1>2, <1>3, <1>4 DEF FiledInSlot, Members, Slot

(* The members of a report are operations.                                 *)
LEMMA ConflictsType ==
    ASSUME TypeOK
    PROVE  \A e \in DOMAIN errors : \A i \in DOMAIN errors[e].conflict :
             errors[e].conflict[i] \in DOMAIN prog
<1> SUFFICES ASSUME NEW e \in DOMAIN errors, NEW i \in DOMAIN errors[e].conflict
             PROVE  errors[e].conflict[i] \in DOMAIN prog
  OBVIOUS
<1> DEFINE E == [conflict : Seq(DOMAIN prog), causing : Seq(DOMAIN prog)]
<1>1. errors[e] \in E
  <2>1. errors \in Seq(E)
    BY DEF TypeOK
  <2> HIDE DEF E
  <2> QED
    BY <2>1
<1>2. errors[e].conflict \in Seq(DOMAIN prog)
  BY <1>1
<1> QED
  BY <1>2

(* A step that reports nothing, and moves checkErrors only forward.        *)
LEMMA ReportsKept ==
    ASSUME ReportInv, SlotInv', UNCHANGED <<prog, errors>>,
           \A o \in DOMAIN prog : ReportPassed(o) => ReportPassed(o)'
    PROVE  ReportInv'
<1>1. \A e \in DOMAIN errors : \A i \in DOMAIN errors[e].conflict : errors[e].conflict[i] \in DOMAIN prog
  BY ConflictsType DEF ReportInv, SlotInv, TypeInv
<1>2. ReportsPassed'
  <2> SUFFICES ASSUME NEW e \in DOMAIN errors', NEW i \in DOMAIN errors'[e].conflict,
                      NEW o, o = errors'[e].conflict[i]
               PROVE  ReportPassed(o)'
    BY DEF ReportsPassed
  <2>1. ReportPassed(o) /\ o \in DOMAIN prog
    BY <1>1 DEF ReportInv, ReportsPassed
  <2> QED
    BY <2>1
<1>3. ReportedOnce'
  BY DEF ReportInv, ReportedOnce, InList
<1> QED
  BY <1>2, <1>3 DEF ReportInv

(* The report of the container at hand: none of its members is in a report *)
(* before, and checkErrors moves past it.                                  *)
LEMMA EndPDFPReports ==
    ASSUME ReportInv, SlotInv', EndPDFP
    PROVE  ReportInv'
<1>1. /\ TypeOK /\ SlotInv /\ cell.class <= NumClasses /\ cell.slot <= Len(order)
      /\ ReportsPassed /\ ReportedOnce
  BY DEF ReportInv, SlotInv, TypeInv, CellInRange, EndPDFP
<1>2. /\ prog' = prog /\ comm' = comm /\ pc = "scan" /\ pc' = "check"
      /\ cell' = [cell EXCEPT !.slot = @ + 1]
  BY DEF EndPDFP, NextCell
<1>3. /\ cell \in [class : Nat \ {0}, slot : Nat \ {0}]
      /\ cell'.class = cell.class /\ cell'.slot = cell.slot + 1
  BY <1>1, <1>2 DEF TypeOK
<1>4. Members \in Seq(DOMAIN prog)
  BY <1>1, MembersType
<1> DEFINE E == [conflict : Seq(DOMAIN prog), causing : Seq(DOMAIN prog)]
           new == [conflict |-> Members, causing |-> pdfp]
<1>5. errors \in Seq(E) /\ new \in E
  BY <1>1, <1>4 DEF TypeOK
<1>6. errors' = errors \/ errors' = Append(errors, new)
  BY DEF EndPDFP
<1>7. new.conflict = Members
  OBVIOUS
<1>8. \A o : Slot(o)' = Slot(o)
  BY <1>2 DEF Slot
<1>9. ASSUME NEW o \in DOMAIN prog, ReportPassed(o) PROVE ReportPassed(o)'
  <2>1. Slot(o) \in Nat
    BY <1>1, SlotType
  <2>2. Passed(o) => Passed(o)'
    BY <1>2, <1>3, <1>8, <2>1 DEF Passed
  <2> QED
    BY <1>2, <1>9, <2>2 DEF ReportPassed
<1>10. ASSUME NEW i \in DOMAIN Members, NEW o, o = Members[i]
       PROVE  ReportPassed(o)' /\ ~ReportPassed(o)
  <2>1. /\ o \in DOMAIN prog
        /\ cell.class \in 1 .. NumClasses /\ cell.slot \in Nat
        /\ IsSearched(o, prog, comm)
        /\ Class(o, prog) = ClassAt(cell.class)
        /\ Slot(o) = cell.slot
    BY <1>1, <1>10, MembersFiled
  <2>2. comm \in Int
    BY <1>1, <2>1, ProgramDomain DEF TypeOK
  <2>3. Passed(o)'
    BY <1>2, <1>3, <1>8, <2>1 DEF Passed
  <2>4. ReportPassed(o)'
    BY <1>2, <2>1, <2>2, <2>3 DEF ReportPassed, IsSearched
  <2>5. ~Passed(o)
    BY <1>3, <2>1, ClassAtInjective DEF Passed
  <2>6. ~ReportPassed(o)
    BY <1>2, <2>1, <2>5 DEF ReportPassed, IsSearched
  <2> QED
    BY <2>4, <2>6
<1>11. /\ \A e \in DOMAIN errors' :
            \/ e \in DOMAIN errors /\ errors'[e] = errors[e]
            \/ e = Len(errors) + 1 /\ errors'[e] = new
  <2> HIDE DEF E, new
  <2>1. CASE errors' = errors
    BY <2>1
  <2>2. CASE errors' = Append(errors, new)
    BY <1>5, <2>2
  <2> QED
    BY <1>6, <2>1, <2>2
<1> HIDE DEF new, E
<1>12. ReportsPassed'
  <2> SUFFICES ASSUME NEW e \in DOMAIN errors', NEW i \in DOMAIN errors'[e].conflict,
                      NEW o, o = errors'[e].conflict[i]
               PROVE  ReportPassed(o)'
    BY DEF ReportsPassed
  <2>1. CASE e \in DOMAIN errors /\ errors'[e] = errors[e]
    <3>1. ReportPassed(o) /\ o \in DOMAIN prog
      BY <1>1, <2>1, ConflictsType DEF ReportsPassed
    <3> QED
      BY <1>9, <3>1
  <2>2. CASE errors'[e] = new
    <3>1. i \in DOMAIN Members /\ o = Members[i]
      BY <1>7, <2>2
    <3> QED
      BY <1>10, <3>1
  <2> QED
    BY <1>11, <2>1, <2>2
<1>13. ReportedOnce'
  <2> SUFFICES ASSUME NEW d \in DOMAIN errors', NEW e \in DOMAIN errors', NEW o \in DOMAIN prog,
                      InList(o, errors'[d].conflict), InList(o, errors'[e].conflict)
               PROVE  d = e
    BY <1>2 DEF ReportedOnce, InList
  <2>1. \A x \in DOMAIN errors : InList(o, errors[x].conflict) => ReportPassed(o)
    BY <1>1 DEF ReportsPassed, InList
  <2>2. InList(o, new.conflict) => ~ReportPassed(o)
    BY <1>7, <1>10 DEF InList
  <2> QED
    BY <1>1, <1>11, <2>1, <2>2 DEF ReportedOnce
<1> QED
  BY <1>12, <1>13 DEF ReportInv

LEMMA InitReportInv == Init => ReportInv
BY InitSlotInv DEF Init, InitPass, ReportInv, ReportsPassed, ReportedOnce

LEMMA NextReportInv == ReportInv /\ [Next]_vars => ReportInv'
<1> SUFFICES ASSUME ReportInv, [Next]_vars PROVE ReportInv'
  OBVIOUS
<1>1. SlotInv' /\ TypeOK /\ SlotInv /\ TypeInv
  BY NextSlotInv DEF ReportInv, SlotInv, TypeInv
<1>2. /\ cell \in [class : Nat \ {0}, slot : Nat \ {0}]
      /\ [cell EXCEPT !.slot = @ + 1].class = cell.class
      /\ [cell EXCEPT !.slot = @ + 1].slot = cell.slot + 1
  BY <1>1 DEF TypeOK
<1>3. CASE Start
  <2>1. errors' = <<>>
    BY <1>1, <1>3 DEF Start, TypeInv, NothingYet
  <2> QED
    BY <1>1, <2>1 DEF ReportInv, ReportsPassed, ReportedOnce
<1>4. CASE NextComm
  <2>1. /\ prog' = prog /\ errors' = errors /\ pc' = "collect" /\ comm' = Min(CommsLeft)
        /\ pc = "loop"
    BY <1>4 DEF NextComm
  <2>2. comm' \in Nat /\ comm < comm' /\ comm \in Nat
    <3>1. CommsLeft \in SUBSET Nat /\ CommsLeft # {}
      BY <1>1, <1>4, ProgramDomain DEF CommsLeft, TypeOK, NextComm
    <3>2. Min(CommsLeft) \in CommsLeft
      BY <3>1, MinOfNats
    <3> QED
      BY <1>1, <2>1, <3>1, <3>2, ProgramDomain DEF CommsLeft, TypeOK
  <2>3. ASSUME NEW o \in DOMAIN prog, ReportPassed(o) PROVE ReportPassed(o)'
    <3>1. prog[o].comm \in Nat
      BY <1>1, ProgramDomain DEF TypeOK, Operation
    <3> QED
      BY <2>1, <2>2, <2>3, <3>1 DEF ReportPassed
  <2> QED
    BY <1>1, <2>1, <2>3, ReportsKept
<1>5. CASE Walk
  <2>1. UNCHANGED <<prog, errors, pc, comm, cell>>
    BY <1>5 DEF Walk, Collect, EnterIf, EnterFor, PassOver
  <2>2. \A o \in DOMAIN prog : ReportPassed(o) => ReportPassed(o)'
    BY <2>1 DEF ReportPassed, Passed, Slot
  <2> QED
    BY <1>1, <2>1, <2>2, ReportsKept
<1>6. CASE Return
  <2>1. UNCHANGED <<prog, errors, comm>> /\ pc = "collect"
    BY <1>6 DEF Return
  <2>2. ASSUME NEW o \in DOMAIN prog, ReportPassed(o) PROVE ReportPassed(o)'
    <3>1. prog[o].comm \in Nat /\ comm \in Nat
      BY <1>1, ProgramDomain DEF TypeOK, Operation
    <3>2. prog[o].comm < comm
      BY <2>1, <2>2 DEF ReportPassed
    <3> QED
      BY <2>1, <2>2, <3>1, <3>2 DEF ReportPassed
  <2> QED
    BY <1>1, <2>1, <2>2, ReportsKept
<1>7. CASE SkipContainer \/ NextClass
  <2>1. UNCHANGED <<prog, errors, comm, pc>> /\ pc = "check"
    BY <1>7 DEF SkipContainer, NextClass
  <2>2. \/ cell'.class = cell.class /\ cell'.slot = cell.slot + 1
        \/ cell'.class = cell.class + 1
    BY <1>2, <1>7 DEF SkipContainer, NextClass, NextCell
  <2>3. ASSUME NEW o \in DOMAIN prog, ReportPassed(o) PROVE ReportPassed(o)'
    <3>1. Slot(o) \in Nat /\ Slot(o)' = Slot(o)
      BY <1>1, <2>1, SlotType DEF Slot
    <3>2. Passed(o) => Passed(o)'
      BY <1>2, <2>1, <2>2, <3>1 DEF Passed
    <3> QED
      BY <2>1, <2>3, <3>2 DEF ReportPassed
  <2> QED
    BY <1>1, <2>1, <2>3, ReportsKept
<1>8. CASE StartPDFP \/ FuseMember \/ EndFuse \/ ScanList
  <2>1. /\ UNCHANGED <<prog, errors, comm, cell>>
        /\ pc \in {"check", "fuse", "scan"} /\ pc' \in {"fuse", "scan"}
    BY <1>8 DEF StartPDFP, FuseMember, EndFuse, ScanList
  <2>2. \A o \in DOMAIN prog : ReportPassed(o) => ReportPassed(o)'
    BY <2>1 DEF ReportPassed, Passed, Slot
  <2> QED
    BY <1>1, <2>1, <2>2, ReportsKept
<1>9. CASE EndPDFP
  BY <1>1, <1>9, EndPDFPReports
<1>10. CASE EndCheck \/ Report \/ NoMain
  <2>1. UNCHANGED <<prog, errors, comm, cell>> /\ pc' \in {"loop", "done", "failed"}
    BY <1>10 DEF EndCheck, Report, NoMain
  <2>2. \A o \in DOMAIN prog : ReportPassed(o) => ReportPassed(o)'
    BY <2>1 DEF ReportPassed
  <2> QED
    BY <1>1, <2>1, <2>2, ReportsKept
<1>11. CASE UNCHANGED vars
  <2>1. UNCHANGED <<prog, errors, comm, cell, pc>>
    BY <1>11 DEF vars
  <2>2. \A o \in DOMAIN prog : ReportPassed(o) => ReportPassed(o)'
    BY <2>1 DEF ReportPassed, Passed, Slot
  <2> QED
    BY <1>1, <2>1, <2>2, ReportsKept
<1> QED
  BY <1>3, <1>4, <1>5, <1>6, <1>7, <1>8, <1>9, <1>10, <1>11 DEF Next

(***************************************************************************)
(* On every program, with any number of communicators, commWorlds, classes *)
(* and ranks, no collective is part of two reports of check-collectives.   *)
(***************************************************************************)
THEOREM ReportedOnceAlways == Spec => []ReportedOnce
<1>1. Spec => []ReportInv
  BY InitReportInv, NextReportInv, PTL DEF Spec
<1> QED
  BY <1>1, PTL DEF ReportInv

-----------------------------------------------------------------------------
(***************************************************************************)
(* The verdict on every collective.                                        *)
(*                                                                         *)
(* Four facts carry VerdictExact.  The container at hand has all fellows of*)
(* its members and nothing else: no activation is below an scf.while.  The *)
(* attribute numberOfExecution, which outlives containers, never becomes   *)
(* stale.  As long as the scan of a container has no cause, each list that *)
(* divides the ranks is the beginning of a fused one still to be scanned.  *)
(* And what the walk over the containers has passed has its verdict.       *)
(***************************************************************************)
RegionsReached ==
    \A a \in DOMAIN stack : \A k \in DOMAIN stack[a].region :
        prog[stack[a].region[k][1]].kind # "while"

NoneExtra == \A j \in DOMAIN prog : Filed(j) => ~UnderWhile(j, prog)

CommsKnown == pc \notin {"start", "failed"} => comms = Comms(prog)

WalkInv == FiledInv /\ RegionsReached /\ NoneExtra /\ CommsKnown

CountsCurrent ==
    /\ pc = "start" => DOMAIN numExec = {}
    /\ \A o \in DOMAIN numExec : numExec[o] = NumberOfExecution(o, prog)

MembersCounted ==
    pc \in {"fuse", "scan"} =>
        \A i \in DOMAIN Members : prog[Members[i]].path # <<>> => Members[i] \in DOMAIN numExec

(* Operation k of list l divides the ranks, as getPDFP sees it.            *)
Divides(k, l) ==
    /\ \E j \in 1 .. k : prog[l[j]].mv
    /\ prog[l[k]].kind = "if" => IsPDFP(l[k], Members, prog, numExec)

DividesRanks(l) == \E k \in DOMAIN l : Divides(k, l)

ListOf(i) == Shortened(Members[i], prog)

(* The list is the beginning of one that is still to be scanned.           *)
ToBeScanned(l) == \E j \in DOMAIN fused : Encloses(l, fused[j])

FusedAll ==
    pc = "fuse" =>
        /\ pdfp = <<>> /\ checked = {}
        /\ \A i \in DOMAIN Members : i < next => ListOf(i) = <<>> \/ ToBeScanned(ListOf(i))

NoCauseYet ==
    pc = "scan" /\ pdfp = <<>> =>
        /\ \A b \in checked : prog[b].kind = "if" /\ ~IsPDFP(b, Members, prog, numExec)
        /\ \A i \in DOMAIN Members : DividesRanks(ListOf(i)) => ToBeScanned(ListOf(i))

CauseDivides ==
    pc = "scan" /\ pdfp # <<>> => \E i \in DOMAIN Members : DividesRanks(ListOf(i))

NotAllNamed == pc \in {"fuse", "scan"} => ~CoversAllRanks(Members, prog)

ScanInv ==
    /\ CauseInv
    /\ CountsCurrent /\ MembersCounted
    /\ FusedAll /\ NoCauseYet /\ CauseDivides /\ NotAllNamed

(* The walk over communicators and containers has passed o.                *)
Walked(o) ==
    /\ prog[o].kind = "coll" /\ pc \notin {"start", "failed"}
    /\ \/ prog[o].comm < comm
       \/ /\ prog[o].comm = comm
          /\ pc \in {"loop", "done"} \/ (pc \in {"check", "fuse", "scan"} /\ Passed(o))

VerdictSoFar ==
    \A o \in DOMAIN prog : Walked(o) => (IsReported(o) <=> Reached(o, prog) /\ Divided(o, prog))

AllSearched == pc = "done" => CommsLeft = {}

VerdictInv == WalkInv /\ ScanInv /\ ReportInv /\ AllSearched /\ VerdictSoFar

-----------------------------------------------------------------------------
(* The walk stays out of an scf.while.                                     *)

(* Activations are replaced by ones that no scf.while encloses either.     *)
LEMMA RegionsPushed ==
    ASSUME TypeOK, RegionsReached, stack # <<>>, prog' = prog,
           NEW u \in Seq(ActivationType), stack' = Callers \o u,
           \A i \in DOMAIN u : \A k \in DOMAIN u[i].region : prog[u[i].region[k][1]].kind # "while"
    PROVE  RegionsReached'
<1>1. Callers \in Seq(ActivationType) /\ \A i \in DOMAIN Callers : i \in DOMAIN stack /\ Callers[i] = stack[i]
  <2>1. stack \in Seq(ActivationType)
    BY DEF TypeOK
  <2>2. /\ Callers \in Seq(ActivationType) /\ Len(Callers) = Len(stack) - 1
        /\ \A i \in 1 .. Len(Callers) : Callers[i] = stack[i]
    BY TopType
  <2> QED
    BY <2>1, <2>2
<1>2. \A i \in DOMAIN (Callers \o u) : \/ i \in DOMAIN Callers /\ (Callers \o u)[i] = Callers[i]
                                       \/ \E j \in DOMAIN u : (Callers \o u)[i] = u[j]
  BY <1>1
<1> QED
  BY <1>1, <1>2 DEF RegionsReached

(* The regions of an operation that the walk comes to, and that is no      *)
(* scf.while.                                                              *)
LEMMA BodyReached ==
    ASSUME TypeOK, RegionsReached, NEW o, AtOp(o), NEW r \in {1, 2}
    PROVE  /\ \A k \in DOMAIN Top.region : prog[Top.region[k][1]].kind # "while"
           /\ prog[o].kind # "while" =>
                \A k \in DOMAIN Body(o, r, prog) : prog[Body(o, r, prog)[k][1]].kind # "while"
<1>1. o \in DOMAIN prog /\ prog[o].path = Top.region
  BY AtOpType
<1>2. Len(stack) \in DOMAIN stack
  BY DEF AtOp, TypeOK
<1>3. \A k \in DOMAIN Top.region : prog[Top.region[k][1]].kind # "while"
  BY <1>2 DEF RegionsReached, Top
<1>4. prog[o].path \in Seq((Nat \ {0}) \X {1, 2}) /\ o \in Nat \ {0}
  BY <1>1, PathType, ProgramDomain DEF TypeOK
<1>5. ASSUME NEW k \in DOMAIN Body(o, r, prog)
      PROVE  Body(o, r, prog)[k] = <<o, r>> \/ (k \in DOMAIN Top.region /\ Body(o, r, prog)[k] = Top.region[k])
  BY <1>1, <1>4 DEF Body
<1> QED
  BY <1>3, <1>5

(* A step of the walk.                                                     *)
LEMMA WalkRegions ==
    ASSUME TypeInv, RegionsReached, NEW o \in DOMAIN prog,
           Collect(o) \/ EnterIf(o) \/ EnterFor(o) \/ PassOver(o)
    PROVE  RegionsReached'
<1>1. /\ TypeOK /\ AtOp(o) /\ stack # <<>> /\ prog' = prog
  BY DEF TypeInv, Collect, EnterIf, EnterFor, PassOver, AtOp
<1>2. /\ Past(o) \in ActivationType /\ Past(o).region = Top.region
      /\ Top.counter \in Nat /\ Callers \in Seq(ActivationType)
  BY <1>1, AtOpType, TopType DEF ActivationType
<1>3. \A k \in DOMAIN Top.region : prog[Top.region[k][1]].kind # "while"
  BY <1>1, BodyReached
<1>4. ASSUME NEW r \in {1, 2}, prog[o].kind # "while"
      PROVE  LET f == Activation(Body(o, r, prog), o, Top.counter) IN
             f \in ActivationType /\ \A k \in DOMAIN f.region : prog[f.region[k][1]].kind # "while"
  <2>1. Activation(Body(o, r, prog), o, Top.counter) \in ActivationType
    BY <1>1, <1>2, ActivationIsType
  <2>2. Activation(Body(o, r, prog), o, Top.counter).region = Body(o, r, prog)
    BY DEF Activation
  <2> QED
    BY <1>1, <1>4, <2>1, <2>2, BodyReached
<1>5. CASE Collect(o)
  <2> DEFINE f == [Past(o) EXCEPT !.counter = @ + 1]
             u == <<f>>
  <2>1. f \in ActivationType /\ f.region = Past(o).region
    BY <1>1, AtOpType DEF ActivationType
  <2>2. stack' = Append(Callers, f)
    BY <1>5 DEF Collect
  <2> HIDE DEF f
  <2>3. u \in Seq(ActivationType) /\ stack' = Callers \o u
    BY <1>2, <2>1, <2>2, AppendIsConcat
  <2>4. \A i \in DOMAIN u : u[i] = f
    OBVIOUS
  <2> HIDE DEF u
  <2> QED
    BY <1>1, <1>2, <1>3, <2>1, <2>3, <2>4, RegionsPushed
<1>6. CASE PassOver(o)
  <2> DEFINE u == <<Past(o)>>
  <2>1. stack' = Append(Callers, Past(o))
    BY <1>6 DEF PassOver
  <2>2. u \in Seq(ActivationType) /\ stack' = Callers \o u
    BY <1>2, <2>1, AppendIsConcat
  <2>3. \A i \in DOMAIN u : u[i] = Past(o)
    OBVIOUS
  <2> HIDE DEF u
  <2> QED
    BY <1>1, <1>2, <1>3, <2>2, <2>3, RegionsPushed
<1>7. CASE EnterFor(o)
  <2> DEFINE f == Activation(Body(o, 1, prog), o, Top.counter)
             u == <<Past(o), f>>
  <2>1. stack' = Callers \o u /\ prog[o].kind # "while"
    BY <1>7 DEF EnterFor
  <2>2. f \in ActivationType /\ \A k \in DOMAIN f.region : prog[f.region[k][1]].kind # "while"
    BY <1>4, <2>1
  <2> HIDE DEF f
  <2>3. u \in Seq(ActivationType) /\ \A i \in DOMAIN u : u[i] = Past(o) \/ u[i] = f
    BY <1>2, <2>2
  <2> HIDE DEF u
  <2> QED
    BY <1>1, <1>2, <1>3, <2>1, <2>2, <2>3, RegionsPushed
<1>8. CASE EnterIf(o)
  <2> DEFINE e == Activation(Body(o, 2, prog), o, Top.counter)
             f == Activation(Body(o, 1, prog), o, Top.counter)
             u == <<Past(o), e, f>>
  <2>1. stack' = Callers \o u /\ prog[o].kind # "while"
    BY <1>8 DEF EnterIf
  <2>2. /\ e \in ActivationType /\ \A k \in DOMAIN e.region : prog[e.region[k][1]].kind # "while"
        /\ f \in ActivationType /\ \A k \in DOMAIN f.region : prog[f.region[k][1]].kind # "while"
    BY <1>4, <2>1
  <2> HIDE DEF e, f
  <2>3. u \in Seq(ActivationType) /\ \A i \in DOMAIN u : u[i] = Past(o) \/ u[i] = e \/ u[i] = f
    BY <1>2, <2>2
  <2> HIDE DEF u
  <2> QED
    BY <1>1, <1>2, <1>3, <2>1, <2>2, <2>3, RegionsPushed
<1> QED
  BY <1>5, <1>6, <1>7, <1>8

(* What Collect files is not below an scf.while.                           *)
LEMMA CollectReached ==
    ASSUME FiledInv, RegionsReached, NoneExtra, NEW o, Collect(o)
    PROVE  NoneExtra'
<1>1. /\ TypeOK /\ SlotsInBounds /\ NoneTwice /\ AtOp(o) /\ pc = "collect" /\ Frontier /\ prog' = prog
  BY DEF FiledInv, SlotInv, TypeInv, Collect, AtOp
<1>2. \A j : Filed(j)' <=> Filed(j) \/ j = o
  BY <1>1, TopUnfiled, CollectOnce
<1>3. ~UnderWhile(o, prog)
  BY <1>1, BodyReached, AtOpType DEF UnderWhile
<1> QED
  BY <1>1, <1>2, <1>3 DEF NoneExtra

LEMMA InitWalkInv == Init => WalkInv
<1> SUFFICES ASSUME Init PROVE WalkInv
  OBVIOUS
<1>1. stack = <<>> /\ order = <<>> /\ pc = "start"
  BY DEF Init, InitPass
<1> QED
  BY <1>1, InitFiledInv DEF WalkInv, RegionsReached, NoneExtra, CommsKnown, Filed

LEMMA NextWalkInv == WalkInv /\ [Next]_vars => WalkInv'
<1> SUFFICES ASSUME WalkInv, [Next]_vars PROVE WalkInv'
  OBVIOUS
<1>1. FiledInv' /\ FiledInv /\ TypeInv /\ TypeOK /\ RegionsReached /\ NoneExtra /\ CommsKnown
  BY NextFiledInv DEF WalkInv, FiledInv, SlotInv, TypeInv
<1>2. CASE Start
  <2>1. stack' = <<>> /\ order' = <<>> /\ comms' = Comms(prog) /\ prog' = UnifyCommWorlds(prog)
    BY <1>1, <1>2 DEF Start, TypeInv, NothingYet, walkVars
  <2>2. Comms(prog') = Comms(prog)
    <3>1. DOMAIN prog' = DOMAIN prog /\ \A o \in DOMAIN prog : prog'[o].kind = prog[o].kind
      BY <1>1, <2>1, UnifyKeeps DEF TypeOK
    <3> QED
      BY <3>1 DEF Comms
  <2> QED
    BY <1>1, <2>1, <2>2 DEF WalkInv, RegionsReached, NoneExtra, CommsKnown, Filed
<1>3. CASE NextComm
  <2>1. /\ stack' = <<Activation(<<>>, 0, 0)>> /\ order' = <<>> /\ UNCHANGED <<prog, comms>>
        /\ pc = "loop"
    BY <1>3 DEF NextComm
  <2>2. RegionsReached'
    BY <2>1 DEF RegionsReached, Activation
  <2> QED
    BY <1>1, <2>1, <2>2 DEF WalkInv, NoneExtra, CommsKnown, Filed
<1>4. ASSUME NEW o \in DOMAIN prog, Collect(o) \/ EnterIf(o) \/ EnterFor(o) \/ PassOver(o)
      PROVE  WalkInv'
  <2>1. UNCHANGED <<prog, comms, pc>>
    BY <1>4 DEF Collect, EnterIf, EnterFor, PassOver
  <2>2. RegionsReached'
    BY <1>1, <1>4, WalkRegions
  <2>3. NoneExtra'
    <3>1. CASE Collect(o)
      BY <1>1, <3>1, CollectReached
    <3>2. CASE EnterIf(o) \/ EnterFor(o) \/ PassOver(o)
      <4>1. order' = order
        BY <3>2 DEF EnterIf, EnterFor, PassOver
      <4> QED
        BY <1>1, <2>1, <4>1, SameFiled DEF NoneExtra
    <3> QED
      BY <1>4, <3>1, <3>2
  <2> QED
    BY <1>1, <2>1, <2>2, <2>3 DEF WalkInv, CommsKnown
<1>5. CASE Return
  <2>1. UNCHANGED <<prog, comms, order>> /\ stack' = Callers /\ stack # <<>> /\ pc = "collect"
    BY <1>5 DEF Return
  <2>2. \A i \in DOMAIN Callers : i \in DOMAIN stack /\ Callers[i] = stack[i]
    <3>1. stack \in Seq(ActivationType)
      BY <1>1 DEF TypeOK
    <3> QED
      BY <1>1, <2>1, <3>1, TopType
  <2>3. RegionsReached'
    BY <1>1, <2>1, <2>2 DEF RegionsReached
  <2>4. NoneExtra'
    BY <1>1, <2>1, SameFiled DEF NoneExtra
  <2> QED
    BY <1>1, <2>1, <2>3, <2>4 DEF WalkInv, CommsKnown
<1>6. CASE /\ UNCHANGED <<prog, comms, stack, order>>
           /\ pc' \notin {"start", "failed"} => pc \notin {"start", "failed"}
  <2>1. NoneExtra'
    BY <1>1, <1>6, SameFiled DEF NoneExtra
  <2>2. RegionsReached'
    BY <1>1, <1>6 DEF RegionsReached
  <2> QED
    BY <1>1, <1>6, <2>1, <2>2 DEF WalkInv, CommsKnown
<1>7. \/ Start \/ NextComm \/ Walk \/ Return
      \/ /\ UNCHANGED <<prog, comms, stack, order>>
         /\ pc' \notin {"start", "failed"} => pc \notin {"start", "failed"}
  BY DEF Next, NoMain, Report, SkipContainer, NextClass, EndCheck, StartPDFP, FuseMember,
         EndFuse, ScanList, EndPDFP, vars, walkVars
<1> QED
  BY <1>2, <1>3, <1>4, <1>5, <1>6, <1>7 DEF Walk

-----------------------------------------------------------------------------
(* The container at hand has the fellows of its members.                   *)

LEMMA ReachedFiled ==
    ASSUME WalkInv, pc \in {"check", "fuse", "scan"}, NEW o \in DOMAIN prog,
           Reached(o, prog), prog[o].comm = comm
    PROVE  Slot(o) \in DOMAIN order /\ InList(o, order[Slot(o)][Class(o, prog)])
<1>1. TypeOK /\ FiledInSlot /\ Frontier /\ stack = <<>>
  BY DEF WalkInv, FiledInv, SlotInv, TypeInv
<1>2. IsSearched(o, prog, comm) /\ ~UnderWhile(o, prog)
  BY DEF Reached, IsSearched, UnderWhile
<1>3. Filed(o)
  BY <1>1, <1>2 DEF Frontier, NoneLost
<1>4. PICK s \in DOMAIN order, c \in Classes : \E i \in DOMAIN order[s][c] : order[s][c][i] = o
  BY <1>3 DEF Filed
<1>5. c = Class(o, prog) /\ s = Slot(o)
  BY <1>1, <1>4 DEF FiledInSlot, Slot
<1> QED
  BY <1>4, <1>5 DEF InList

LEMMA MembersExact ==
    ASSUME WalkInv, pc \in {"check", "fuse", "scan"},
           cell.class <= NumClasses, cell.slot <= Len(order), NEW o \in DOMAIN prog
    PROVE  InList(o, Members) <=> /\ Reached(o, prog) /\ prog[o].comm = comm
                                  /\ Class(o, prog) = ClassAt(cell.class)
                                  /\ Slot(o) = cell.slot
<1>1. SlotInv /\ TypeOK /\ NoneExtra
  BY DEF WalkInv, FiledInv, SlotInv, TypeInv
<1>2. cell.class \in 1 .. NumClasses /\ cell.slot \in DOMAIN order
  BY <1>1, NumClassesType DEF TypeOK
<1>3. ASSUME InList(o, Members)
      PROVE  /\ Reached(o, prog) /\ prog[o].comm = comm
             /\ Class(o, prog) = ClassAt(cell.class) /\ Slot(o) = cell.slot
  <2>1. PICK i \in DOMAIN Members : Members[i] = o
    BY <1>3 DEF InList
  <2>2. /\ IsSearched(o, prog, comm) /\ Class(o, prog) = ClassAt(cell.class)
        /\ Slot(o) = cell.slot
    BY <1>1, <2>1, MembersFiled
  <2>3. Filed(o)
    BY <1>2, <2>1, ClassAtType DEF Filed, Members
  <2> QED
    BY <1>1, <2>2, <2>3 DEF NoneExtra, UnderWhile, Reached, IsSearched
<1>4. ASSUME Reached(o, prog), prog[o].comm = comm,
             Class(o, prog) = ClassAt(cell.class), Slot(o) = cell.slot
      PROVE  InList(o, Members)
  BY <1>4, ReachedFiled DEF Members
<1> QED
  BY <1>3, <1>4

LEMMA FellowsAreMembers ==
    ASSUME WalkInv, pc \in {"check", "fuse", "scan"},
           cell.class <= NumClasses, cell.slot <= Len(order),
           NEW o \in DOMAIN prog, InList(o, Members)
    PROVE  /\ \A x : x \in Fellows(o, prog) <=> \E i \in DOMAIN Members : x = Members[i]
           /\ Members \in Seq(DOMAIN prog)
<1>1. Members \in Seq(DOMAIN prog)
  BY MembersType DEF WalkInv, FiledInv, SlotInv, TypeInv
<1>2. /\ prog[o].comm = comm /\ Class(o, prog) = ClassAt(cell.class) /\ Slot(o) = cell.slot
  BY MembersExact
<1>3. \A x \in DOMAIN prog : prog[x].comm = comm => SlotOf(x, prog) = Slot(x)
  BY DEF SlotOf, Slot
<1>4. \A x \in DOMAIN prog : x \in Fellows(o, prog) <=> InList(x, Members)
  BY <1>2, <1>3, MembersExact DEF Fellows
<1>5. \A i \in DOMAIN Members : Members[i] \in DOMAIN prog
  BY <1>1
<1> QED
  BY <1>1, <1>4, <1>5 DEF Fellows, InList

(* The exit for a given number of ranks is taken if some fellow is named   *)
(* for each.                                                               *)
LEMMA CoversNamed ==
    ASSUME WalkInv, pc \in {"check", "fuse", "scan"},
           cell.class <= NumClasses, cell.slot <= Len(order),
           NEW o \in DOMAIN prog, InList(o, Members)
    PROVE  NamedForAll(o, prog) <=> CoversAllRanks(Members, prog)
<1>1. \A x : x \in Fellows(o, prog) <=> \E i \in DOMAIN Members : x = Members[i]
  BY FellowsAreMembers
<1>2. ASSUME NEW r
      PROVE  r \in ExecutedStatically(Members, prog) <=>
               \E x \in Fellows(o, prog) : prog[x].execKind = "Static" /\ r \in prog[x].executedBy
  BY <1>1 DEF ExecutedStatically
<1> QED
  BY <1>2 DEF NamedForAll, CoversAllRanks

(* While getPDFP works on the container, the counts it compares are those  *)
(* of the fellows.                                                         *)
LEMMA CountsOfFellows ==
    ASSUME WalkInv, pc \in {"fuse", "scan"}, CountsCurrent, MembersCounted,
           NEW o \in DOMAIN prog, InList(o, Members), NEW b \in DOMAIN prog, NEW r \in {1, 2}
    PROVE  Executions(b, r, Members, prog, numExec) = MostExecutions(b, r, o, prog)
<1>1. TypeOK /\ cell.class <= NumClasses /\ cell.slot <= Len(order)
  BY DEF WalkInv, FiledInv, SlotInv, TypeInv, CellInRange
<1>2. /\ \A x : x \in Fellows(o, prog) <=> \E i \in DOMAIN Members : x = Members[i]
      /\ Members \in Seq(DOMAIN prog)
  BY <1>1, FellowsAreMembers
<1> DEFINE F == {y \in Fellows(o, prog) : Encloses(Body(b, r, prog), prog[y].path)}
<1>3. MembersIn(b, r, Members, prog) = F
  BY <1>2 DEF MembersIn
<1>4. ASSUME NEW m \in F PROVE numExec[m] = NumberOfExecution(m, prog)
  <2>1. PICK i \in DOMAIN Members : m = Members[i]
    BY <1>2
  <2>2. m \in DOMAIN prog
    BY <1>2, <2>1
  <2>3. prog[m].path # <<>>
    <3>1. prog[b].path \in Seq((Nat \ {0}) \X {1, 2}) /\ b \in Nat \ {0}
      BY <1>1, PathType, ProgramDomain DEF TypeOK
    <3>2. Len(Body(b, r, prog)) = Len(prog[b].path) + 1 /\ Len(prog[b].path) \in Nat
      BY <3>1 DEF Body
    <3>3. Len(Body(b, r, prog)) <= Len(prog[m].path)
      BY DEF Encloses
    <3>4. Len(<<>>) = 0
      OBVIOUS
    <3> QED
      BY <3>2, <3>3, <3>4
  <2> QED
    BY <2>1, <2>3 DEF MembersCounted, CountsCurrent
<1>5. {numExec[m] : m \in F} = {NumberOfExecution(m, prog) : m \in F}
  BY <1>4
<1> QED
  BY <1>3, <1>5 DEF Executions, MostExecutions

(* What getPDFP takes for a cause is what divides the ranks.               *)
LEMMA DividesExact ==
    ASSUME WalkInv, pc \in {"fuse", "scan"}, CountsCurrent, MembersCounted,
           NEW o \in DOMAIN prog, InList(o, Members), NEW k \in DOMAIN Shortened(o, prog)
    PROVE  Divides(k, Shortened(o, prog)) <=> DividesAt(k, o, prog)
<1> DEFINE l == Shortened(o, prog)
<1>1. l \in Seq(DOMAIN prog)
  BY ShortenedType DEF WalkInv, FiledInv, SlotInv, TypeInv, TypeOK
<1> HIDE DEF l
<1>2. l[k] \in DOMAIN prog
  BY <1>1 DEF l
<1>3. /\ Executions(l[k], 1, Members, prog, numExec) = MostExecutions(l[k], 1, o, prog)
      /\ Executions(l[k], 2, Members, prog, numExec) = MostExecutions(l[k], 2, o, prog)
  BY <1>2, CountsOfFellows
<1> QED
  BY <1>3 DEF Divides, DividesAt, IsPDFP, l

LEMMA FellowsAlike ==
    ASSUME NEW p, NEW o, NEW x \in Fellows(o, p)
    PROVE  Fellows(x, p) = Fellows(o, p)
BY DEF Fellows

LEMMA DividedExact ==
    ASSUME WalkInv, pc \in {"fuse", "scan"}, CountsCurrent, MembersCounted, NotAllNamed,
           NEW o \in DOMAIN prog, InList(o, Members)
    PROVE  Divided(o, prog) <=> \E i \in DOMAIN Members : DividesRanks(ListOf(i))
<1>1. cell.class <= NumClasses /\ cell.slot <= Len(order)
  BY DEF WalkInv, FiledInv, SlotInv, TypeInv, CellInRange
<1>2. ~NamedForAll(o, prog)
  BY <1>1, CoversNamed DEF NotAllNamed
<1>3. /\ \A x : x \in Fellows(o, prog) <=> \E i \in DOMAIN Members : x = Members[i]
      /\ Members \in Seq(DOMAIN prog)
  BY <1>1, FellowsAreMembers
<1>4. ASSUME NEW i \in DOMAIN Members
      PROVE  DividesRanks(ListOf(i)) <=>
               \E k \in DOMAIN Shortened(Members[i], prog) : DividesAt(k, Members[i], prog)
  <2>1. Members[i] \in DOMAIN prog /\ InList(Members[i], Members)
    BY <1>3 DEF InList
  <2> QED
    BY <2>1, DividesExact DEF DividesRanks, ListOf
<1> QED
  BY <1>2, <1>3, <1>4 DEF Divided

-----------------------------------------------------------------------------
(* Fusing and scanning lose no cause.                                      *)

(* Of two lists that start the same, the shorter begins the other.         *)
LEMMA ShorterBegins ==
    ASSUME NEW D, NEW l \in Seq(D), NEW m \in Seq(D), StartsSame(l, m)
    PROVE  IF Len(l) > Len(m) THEN Encloses(m, l) ELSE Encloses(l, m)
<1>1. Len(l) \in Nat /\ Len(m) \in Nat
  OBVIOUS
<1> QED
  BY <1>1 DEF StartsSame, Encloses

LEMMA EnclosesTransitive ==
    ASSUME NEW D, NEW l \in Seq(D), NEW m \in Seq(D), NEW n \in Seq(D),
           Encloses(l, m), Encloses(m, n)
    PROVE  Encloses(l, n)
BY DEF Encloses

(* The new list, and each that began a list before, begins one afterwards. *)
LEMMA FuseCovers ==
    ASSUME NEW D, NEW lists \in Seq(Seq(D)), NEW l \in Seq(D)
    PROVE  /\ l = <<>> \/ \E j \in DOMAIN Fuse(lists, l) : Encloses(l, Fuse(lists, l)[j])
           /\ \A m \in Seq(D) : (\E j \in DOMAIN lists : Encloses(m, lists[j])) =>
                \E j \in DOMAIN Fuse(lists, l) : Encloses(m, Fuse(lists, l)[j])
<1> DEFINE like == {i \in DOMAIN lists : StartsSame(l, lists[i])}
           first == Min(like)
<1>1. Encloses(l, l)
  BY DEF Encloses
<1>2. CASE l = <<>>
  BY <1>2 DEF Fuse
<1>3. CASE l # <<>> /\ like = {}
  <2>1. Fuse(lists, l) = Append(lists, l)
    BY <1>3 DEF Fuse
  <2>2. /\ Len(lists) + 1 \in DOMAIN Append(lists, l) /\ Append(lists, l)[Len(lists) + 1] = l
        /\ \A j \in DOMAIN lists : j \in DOMAIN Append(lists, l) /\ Append(lists, l)[j] = lists[j]
    OBVIOUS
  <2> HIDE DEF like
  <2> QED
    BY <1>1, <2>1, <2>2
<1>4. CASE l # <<>> /\ like # {}
  <2>1. first \in like
    <3>1. like \in SUBSET Nat
      OBVIOUS
    <3> QED
      BY <1>4, <3>1, MinOfNats
  <2>2. first \in DOMAIN lists /\ StartsSame(l, lists[first]) /\ lists[first] \in Seq(D)
    BY <2>1
  <2>3. CASE Len(l) > Len(lists[first])
    <3>1. Fuse(lists, l) = [lists EXCEPT ![first] = l]
      BY <1>4, <2>3 DEF Fuse
    <3>2. Encloses(lists[first], l)
      BY <2>2, <2>3, ShorterBegins
    <3> HIDE DEF first, like
    <3>3. /\ DOMAIN Fuse(lists, l) = DOMAIN lists /\ Fuse(lists, l)[first] = l
          /\ \A j \in DOMAIN lists : j # first => Fuse(lists, l)[j] = lists[j]
      BY <2>2, <3>1
    <3>4. ASSUME NEW m \in Seq(D), NEW j \in DOMAIN lists, Encloses(m, lists[j])
          PROVE  \E i \in DOMAIN Fuse(lists, l) : Encloses(m, Fuse(lists, l)[i])
      <4>1. CASE j = first
        <5>1. Encloses(m, l)
          BY <2>2, <3>2, <3>4, <4>1, EnclosesTransitive
        <5> QED
          BY <2>2, <3>3, <5>1
      <4>2. CASE j # first
        BY <3>3, <3>4, <4>2
      <4> QED
        BY <4>1, <4>2
    <3> QED
      BY <1>1, <2>2, <3>3, <3>4
  <2>4. CASE ~(Len(l) > Len(lists[first]))
    <3>1. Fuse(lists, l) = lists
      BY <1>4, <2>4 DEF Fuse
    <3>2. Encloses(l, lists[first])
      BY <2>2, <2>4, ShorterBegins
    <3> HIDE DEF first, like
    <3> QED
      BY <2>2, <3>1, <3>2
  <2> QED
    BY <2>3, <2>4
<1> QED
  BY <1>2, <1>3, <1>4

(* A list divides the ranks if its beginning does.                         *)
LEMMA DividingLonger ==
    ASSUME NEW m \in Seq(DOMAIN prog), NEW l \in Seq(DOMAIN prog), Encloses(m, l), DividesRanks(m)
    PROVE  DividesRanks(l)
<1>1. PICK k \in DOMAIN m : Divides(k, m)
  BY DEF DividesRanks
<1>2. /\ k \in DOMAIN l /\ k \in Nat
      /\ \A j \in 1 .. k : m[j] = l[j]
  BY DEF Encloses
<1>3. Divides(k, l)
  BY <1>1, <1>2 DEF Divides
<1> QED
  BY <1>2, <1>3 DEF DividesRanks

(* As long as there is no cause, the scan of a list stops if and only if   *)
(* it divides the ranks, at an operation that does.                        *)
LEMMA StopDivides ==
    ASSUME WellFormed(prog), pdfp = <<>>,
           \A b \in checked : prog[b].kind = "if" /\ ~IsPDFP(b, Members, prog, numExec),
           NEW l \in Seq(DOMAIN prog), NEW stop, stop = StopAt(l, Members, prog, numExec)
    PROVE  /\ stop <= Len(l) => stop \in DOMAIN l /\ Divides(stop, l)
           /\ stop > Len(l) => ~DividesRanks(l)
           /\ stop > Len(l) =>
                \A k \in FirstMV(l, prog) .. Len(l) :
                    prog[l[k]].kind = "if" /\ ~IsPDFP(l[k], Members, prog, numExec)
<1> DEFINE from == FirstMV(l, prog)
           C == CausesIn(l, Members, prog, numExec)
           M == {k \in DOMAIN l : prog[l[k]].mv} \union {Len(l) + 1}
<1>1. /\ Len(l) \in Nat /\ DOMAIN l = 1 .. Len(l)
      /\ from \in 1 .. (Len(l) + 1)
      /\ from <= Len(l) => prog[l[from]].mv
      /\ stop \in from .. (Len(l) + 1)
  BY ScanType
<1>2. \A k \in DOMAIN l : prog[l[k]].mv => from <= k
  <2>1. M \in SUBSET Nat /\ M # {}
    BY <1>1
  <2>2. \A k \in M : Min(M) <= k
    BY <2>1, MinOfNats
  <2> QED
    BY <2>2 DEF FirstMV
<1>3. ~\E x : InList(x, pdfp)
  BY DEF InList
<1>4. \A b \in DOMAIN prog : IsCause(b, Members, prog, numExec) <=>
        (prog[b].kind = "if" => IsPDFP(b, Members, prog, numExec))
  BY <1>3 DEF IsCause
<1>5. \A k \in DOMAIN l : (\E j \in 1 .. k : prog[l[j]].mv) <=> from <= k
  <2> SUFFICES ASSUME NEW k \in DOMAIN l
               PROVE  (\E j \in 1 .. k : prog[l[j]].mv) <=> from <= k
    OBVIOUS
  <2> HIDE DEF from
  <2>1. ASSUME NEW j \in 1 .. k, prog[l[j]].mv PROVE from <= k
    <3>1. j \in DOMAIN l /\ from <= j
      BY <1>1, <1>2, <2>1
    <3> QED
      BY <1>1, <3>1
  <2>2. ASSUME from <= k PROVE \E j \in 1 .. k : prog[l[j]].mv
    BY <1>1, <2>2
  <2> QED
    BY <2>1, <2>2
<1>6. \A k \in DOMAIN l : k \in C <=> Divides(k, l)
  <2> SUFFICES ASSUME NEW k \in DOMAIN l PROVE k \in C <=> Divides(k, l)
    OBVIOUS
  <2>1. l[k] \in DOMAIN prog
    OBVIOUS
  <2>2. k \in C <=> from <= k /\ IsCause(l[k], Members, prog, numExec)
    BY <1>1 DEF CausesIn
  <2> QED
    BY <1>4, <1>5, <2>1, <2>2 DEF Divides
<1>7. C \subseteq DOMAIN l
  BY <1>1 DEF CausesIn
<1>8. stop \in C \union {Len(l) + 1} /\ \A k \in C \union {Len(l) + 1} : stop <= k
  <2>1. C \union {Len(l) + 1} \in SUBSET Nat /\ C \union {Len(l) + 1} # {}
    BY <1>1, <1>7
  <2> HIDE DEF C
  <2>2. Min(C \union {Len(l) + 1}) = stop
    BY DEF StopAt, C
  <2> QED
    BY <2>1, <2>2, MinOfNats
<1>9. ASSUME stop <= Len(l) PROVE stop \in DOMAIN l /\ Divides(stop, l)
  <2> HIDE DEF C, from
  <2>1. stop \in C
    BY <1>1, <1>8, <1>9
  <2> QED
    BY <1>6, <1>7, <2>1
<1>10. ASSUME stop > Len(l) PROVE C = {}
  <2> HIDE DEF C, from
  <2> QED
    BY <1>1, <1>7, <1>8, <1>10
<1>11. ASSUME C = {} PROVE ~DividesRanks(l)
  <2> HIDE DEF C, from
  <2> QED
    BY <1>6, <1>11 DEF DividesRanks
<1>12. ASSUME C = {}, NEW k \in from .. Len(l)
       PROVE  prog[l[k]].kind = "if" /\ ~IsPDFP(l[k], Members, prog, numExec)
  <2> HIDE DEF from
  <2>1. k \in DOMAIN l /\ l[k] \in DOMAIN prog /\ from <= k
    BY <1>1
  <2>2. ~Divides(k, l)
    <3> HIDE DEF C
    <3> QED
      BY <1>6, <1>12, <2>1
  <2> QED
    BY <1>5, <2>1, <2>2 DEF Divides
<1> QED
  BY <1>9, <1>10, <1>11, <1>12

(* What the scan compares depends on the program, the containers and the   *)
(* counts only.                                                            *)
LEMMA DividingKept ==
    ASSUME UNCHANGED <<prog, order, cell, numExec>>
    PROVE  /\ Members' = Members
           /\ \A l : DividesRanks(l)' <=> DividesRanks(l)
           /\ \A i : ListOf(i)' = ListOf(i)
           /\ MembersCounted /\ pc \in {"fuse", "scan"} => MembersCounted'
           /\ NotAllNamed /\ pc \in {"fuse", "scan"} => NotAllNamed'
           /\ CountsCurrent /\ pc' # "start" => CountsCurrent'
<1>1. Members' = Members
  BY DEF Members
<1>2. \A k, l : Divides(k, l)' <=> Divides(k, l)
  BY <1>1 DEF Divides
<1> QED
  BY <1>1, <1>2 DEF DividesRanks, ListOf, MembersCounted, NotAllNamed, CountsCurrent

LEMMA StartPDFPScan ==
    ASSUME TypeInv, CountsCurrent, StartPDFP
    PROVE  CountsCurrent' /\ MembersCounted' /\ FusedAll' /\ NotAllNamed'
<1> DEFINE counted == {Members[i] : i \in {j \in DOMAIN Members : prog[Members[j]].path # <<>>}}
<1>1. /\ pc = "check" /\ pc' = "fuse" /\ UNCHANGED <<prog, order, cell>>
      /\ next' = 1 /\ pdfp' = <<>> /\ checked' = {}
      /\ cell.class <= NumClasses /\ cell.slot <= Len(order)
      /\ ~CoversAllRanks(Members, prog)
      /\ numExec' = [o \in DOMAIN numExec \union counted |->
                        IF o \in counted THEN NumberOfExecution(o, prog) ELSE numExec[o]]
  BY DEF StartPDFP, walkVars
<1>2. Members' = Members
  BY <1>1 DEF Members
<1> HIDE DEF counted
<1>3. CountsCurrent'
  BY <1>1 DEF CountsCurrent
<1>4. MembersCounted'
  <2>1. \A i \in DOMAIN Members : prog[Members[i]].path # <<>> => Members[i] \in counted
    BY DEF counted
  <2> QED
    BY <1>1, <1>2, <2>1 DEF MembersCounted
<1>5. FusedAll'
  <2>1. Members \in Seq(DOMAIN prog)
    BY <1>1, MembersType DEF TypeInv
  <2>2. \A i \in DOMAIN Members : ~(i < 1)
    BY <2>1
  <2> QED
    BY <1>1, <1>2, <2>2 DEF FusedAll
<1>6. NotAllNamed'
  BY <1>1, <1>2 DEF NotAllNamed
<1> QED
  BY <1>3, <1>4, <1>5, <1>6

LEMMA FuseMemberScan ==
    ASSUME TypeInv, FusedAll, FuseMember
    PROVE  FusedAll'
<1>1. /\ pc = "fuse" /\ UNCHANGED <<pc, prog, order, cell, numExec, pdfp, checked>>
      /\ next <= Len(Members) /\ next' = next + 1
      /\ fused' = Fuse(fused, Shortened(Members[next], prog))
  BY DEF FuseMember, walkVars
<1>2. /\ TypeOK /\ WellFormed(prog) /\ Members \in Seq(DOMAIN prog) /\ next \in Nat \ {0}
      /\ fused \in Seq(Seq(DOMAIN prog))
  BY <1>1, MembersType DEF TypeInv, TypeOK, CellInRange
<1>3. \A i \in DOMAIN Members : ListOf(i) \in Seq(DOMAIN prog)
  BY <1>2, ShortenedType DEF ListOf
<1>4. next \in DOMAIN Members /\ fused' = Fuse(fused, ListOf(next))
  BY <1>1, <1>2 DEF ListOf
<1>5. Members' = Members /\ \A i : ListOf(i)' = ListOf(i)
  BY <1>1, DividingKept
<1>6. ListOf(next) = <<>> \/ \E j \in DOMAIN fused' : Encloses(ListOf(next), fused'[j])
  BY <1>2, <1>3, <1>4, FuseCovers DEF ToBeScanned
<1>7. \A i \in DOMAIN Members : ToBeScanned(ListOf(i)) => \E j \in DOMAIN fused' : Encloses(ListOf(i), fused'[j])
  BY <1>2, <1>3, <1>4, FuseCovers DEF ToBeScanned
<1>8. ASSUME NEW i \in DOMAIN Members, i < next + 1
      PROVE  ListOf(i) = <<>> \/ \E j \in DOMAIN fused' : Encloses(ListOf(i), fused'[j])
  <2>1. CASE i = next
    BY <1>6, <2>1
  <2>2. CASE i < next
    BY <1>1, <1>7, <2>2 DEF FusedAll
  <2> QED
    BY <1>2, <1>8, <2>1, <2>2
<1> QED
  BY <1>1, <1>5, <1>8 DEF FusedAll, ToBeScanned

LEMMA EndFuseScan ==
    ASSUME TypeInv, FusedAll, EndFuse
    PROVE  NoCauseYet' /\ CauseDivides'
<1>1. /\ pc = "fuse" /\ pc' = "scan" /\ UNCHANGED <<prog, order, cell, numExec, pdfp, checked, fused>>
      /\ next > Len(Members)
  BY DEF EndFuse, walkVars, pdfVars
<1>2. Members \in Seq(DOMAIN prog) /\ next \in Nat
  BY <1>1, MembersType DEF TypeInv, TypeOK, CellInRange
<1>3. /\ pdfp' = <<>> /\ checked' = {}
      /\ \A i \in DOMAIN Members : ListOf(i) = <<>> \/ ToBeScanned(ListOf(i))
  BY <1>1, <1>2 DEF FusedAll
<1>4. ~DividesRanks(<<>>)
  BY DEF DividesRanks
<1>5. Members' = Members /\ (\A l : DividesRanks(l)' <=> DividesRanks(l)) /\ \A i : ListOf(i)' = ListOf(i)
  BY <1>1, DividingKept
<1>6. \A l : ToBeScanned(l)' <=> ToBeScanned(l)
  BY <1>1 DEF ToBeScanned
<1>7. \A i \in DOMAIN Members : DividesRanks(ListOf(i)) => ToBeScanned(ListOf(i))
  BY <1>3, <1>4
<1> QED
  BY <1>1, <1>3, <1>5, <1>6, <1>7 DEF NoCauseYet, CauseDivides

LEMMA ScanListScan ==
    ASSUME CauseInv, NoCauseYet, CauseDivides, ScanList
    PROVE  NoCauseYet' /\ CauseDivides'
<1> DEFINE l    == Head(fused)
           stop == StopAt(l, Members, prog, numExec)
           from == FirstMV(l, prog)
           new  == {l[k] : k \in {j \in from .. Len(l) :
                    \/ j < stop /\ prog[l[j]].kind = "if"
                    \/ j = stop /\ prog[l[j]].kind # "if"}}
<1>1. /\ pc = "scan" /\ pc' = "scan" /\ UNCHANGED <<prog, order, cell, numExec>>
      /\ fused # <<>> /\ fused' = Tail(fused)
      /\ pdfp' = IF stop <= Len(l) THEN Append(pdfp, l[stop]) ELSE pdfp
      /\ checked' = checked \union new
  BY DEF ScanList, walkVars
<1>2. /\ WellFormed(prog) /\ Members \in Seq(DOMAIN prog) /\ pdfp \in Seq(DOMAIN prog)
      /\ fused \in Seq(Seq(DOMAIN prog))
  BY <1>1, MembersType DEF CauseInv, TypeInv, TypeOK, CellInRange
<1>3. Members' = Members /\ (\A m : DividesRanks(m)' <=> DividesRanks(m)) /\ \A i : ListOf(i)' = ListOf(i)
  BY <1>1, DividingKept
<1>4. /\ l \in Seq(DOMAIN prog) /\ 1 \in DOMAIN fused /\ l = fused[1]
      /\ \A j \in DOMAIN fused : j # 1 => j - 1 \in DOMAIN Tail(fused) /\ Tail(fused)[j - 1] = fused[j]
  BY <1>1, <1>2
<1>5. PICK m \in DOMAIN Members : l = ListOf(m)
  BY <1>1, <1>4 DEF CauseInv, FusedFromMembers, ListOf
<1> HIDE DEF l
<1>6. stop \in Nat /\ Len(l) \in Nat /\ (stop <= Len(l) => l[stop] \in DOMAIN prog)
  <2>1. from \in 1 .. (Len(l) + 1) /\ stop \in from .. (Len(l) + 1) /\ Len(l) \in Nat
    BY <1>2, <1>4, ScanType
  <2> HIDE DEF stop, from
  <2> QED
    BY <1>4, <2>1
<1>7. \A x \in DOMAIN prog : Append(pdfp, x) # <<>>
  <2>1. \A x \in DOMAIN prog : Len(Append(pdfp, x)) = Len(pdfp) + 1 /\ Len(pdfp) \in Nat
    BY <1>2, AppendProperties
  <2>2. Len(<<>>) = 0
    OBVIOUS
  <2> QED
    BY <2>1, <2>2
<1> HIDE DEF stop, new, from
<1>8. CASE pdfp # <<>>
  <2>1. pdfp' # <<>>
    BY <1>1, <1>6, <1>8, <1>7
  <2>2. \E i \in DOMAIN Members : DividesRanks(ListOf(i))
    BY <1>1, <1>8 DEF CauseDivides
  <2> QED
    BY <1>3, <2>1, <2>2 DEF NoCauseYet, CauseDivides
<1>9. CASE pdfp = <<>>
  <2>1. /\ \A b \in checked : prog[b].kind = "if" /\ ~IsPDFP(b, Members, prog, numExec)
        /\ \A i \in DOMAIN Members : DividesRanks(ListOf(i)) => ToBeScanned(ListOf(i))
    BY <1>1, <1>9 DEF NoCauseYet
  <2>2. /\ stop <= Len(l) => stop \in DOMAIN l /\ Divides(stop, l)
        /\ stop > Len(l) => ~DividesRanks(l)
        /\ stop > Len(l) =>
             \A k \in from .. Len(l) :
                 prog[l[k]].kind = "if" /\ ~IsPDFP(l[k], Members, prog, numExec)
    BY <1>2, <1>4, <1>9, <2>1, StopDivides DEF stop, from
  <2>3. CASE stop <= Len(l)
    <3>1. pdfp' # <<>>
      BY <1>1, <1>6, <1>7, <2>3
    <3>2. DividesRanks(ListOf(m))
      BY <1>5, <2>2, <2>3 DEF DividesRanks
    <3> QED
      BY <1>3, <3>1, <3>2 DEF NoCauseYet, CauseDivides
  <2>4. CASE stop > Len(l)
    <3>1. pdfp' = <<>>
      BY <1>1, <1>6, <1>9, <2>4
    <3>2. ~DividesRanks(l) /\ \A b \in new : prog[b].kind = "if" /\ ~IsPDFP(b, Members, prog, numExec)
      BY <2>2, <2>4 DEF new
    <3>3. \A b \in checked' : prog[b].kind = "if" /\ ~IsPDFP(b, Members, prog, numExec)
      BY <1>1, <2>1, <3>2
    <3>4. ASSUME NEW i \in DOMAIN Members, DividesRanks(ListOf(i))
          PROVE  \E j \in DOMAIN Tail(fused) : Encloses(ListOf(i), Tail(fused)[j])
      <4>1. PICK j \in DOMAIN fused : Encloses(ListOf(i), fused[j])
        BY <2>1, <3>4 DEF ToBeScanned
      <4>2. ListOf(i) \in Seq(DOMAIN prog)
        BY <1>2, ShortenedType DEF ListOf
      <4>3. j # 1
        BY <1>4, <3>2, <3>4, <4>1, <4>2, DividingLonger
      <4> QED
        BY <1>4, <4>1, <4>3
    <3> QED
      BY <1>1, <1>3, <3>1, <3>3, <3>4 DEF NoCauseYet, CauseDivides, ToBeScanned
  <2> QED
    BY <1>6, <2>3, <2>4
<1> QED
  BY <1>8, <1>9

LEMMA InitScanInv == Init => ScanInv
BY InitCauseInv DEF Init, InitPass, ScanInv, CountsCurrent, MembersCounted, FusedAll, NoCauseYet,
                    CauseDivides, NotAllNamed

LEMMA NextScanInv == ScanInv /\ [Next]_vars => ScanInv'
<1> SUFFICES ASSUME ScanInv, [Next]_vars PROVE ScanInv'
  OBVIOUS
<1>1. CauseInv' /\ CauseInv /\ TypeInv /\ CountsCurrent
  BY NextCauseInv DEF ScanInv, CauseInv
<1>2. CASE StartPDFP
  <2>1. pc' = "fuse"
    BY <1>2 DEF StartPDFP
  <2> QED
    BY <1>1, <1>2, <2>1, StartPDFPScan DEF ScanInv, NoCauseYet, CauseDivides
<1>3. CASE FuseMember
  <2>1. pc = "fuse" /\ pc' = "fuse" /\ UNCHANGED <<prog, order, cell, numExec>>
    BY <1>3 DEF FuseMember, walkVars
  <2>2. CountsCurrent' /\ MembersCounted' /\ NotAllNamed'
    BY <2>1, DividingKept DEF ScanInv
  <2> QED
    BY <1>1, <1>3, <2>1, <2>2, FuseMemberScan DEF ScanInv, NoCauseYet, CauseDivides
<1>4. CASE EndFuse
  <2>1. pc = "fuse" /\ pc' = "scan" /\ UNCHANGED <<prog, order, cell, numExec>>
    BY <1>4 DEF EndFuse, walkVars
  <2>2. CountsCurrent' /\ MembersCounted' /\ NotAllNamed'
    BY <2>1, DividingKept DEF ScanInv
  <2> QED
    BY <1>1, <1>4, <2>1, <2>2, EndFuseScan DEF ScanInv, FusedAll
<1>5. CASE ScanList
  <2>1. pc = "scan" /\ pc' = "scan" /\ UNCHANGED <<prog, order, cell, numExec>>
    BY <1>5 DEF ScanList, walkVars
  <2>2. CountsCurrent' /\ MembersCounted' /\ NotAllNamed'
    BY <2>1, DividingKept DEF ScanInv
  <2> QED
    BY <1>1, <1>5, <2>1, <2>2, ScanListScan DEF ScanInv, FusedAll
<1>6. CASE /\ numExec' = numExec /\ pc' \notin {"fuse", "scan"}
           /\ pc' # "start"
           /\ prog' = prog \/ pc = "start"
  BY <1>1, <1>6 DEF ScanInv, CountsCurrent, MembersCounted, FusedAll, NoCauseYet, CauseDivides, NotAllNamed
<1>7. CASE UNCHANGED vars
  <2>1. UNCHANGED <<prog, order, cell, numExec, pc, pdfp, checked, fused, next>>
    BY <1>7 DEF vars, walkVars, pdfVars
  <2>2. Members' = Members /\ (\A m : DividesRanks(m)' <=> DividesRanks(m)) /\ \A i : ListOf(i)' = ListOf(i)
    BY <2>1, DividingKept
  <2> QED
    BY <1>1, <2>1, <2>2 DEF ScanInv, CountsCurrent, MembersCounted, FusedAll, NoCauseYet,
                            CauseDivides, NotAllNamed, ToBeScanned
<1>8. ASSUME Walk \/ Return
      PROVE  /\ numExec' = numExec /\ pc' \notin {"fuse", "scan"} /\ pc' # "start" /\ prog' = prog
  BY <1>8 DEF Walk, Collect, EnterIf, EnterFor, PassOver, AtOp, Return
<1>9. ASSUME Start \/ NoMain \/ NextComm \/ Report \/ SkipContainer \/ NextClass \/ EndCheck \/ EndPDFP
      PROVE  /\ numExec' = numExec /\ pc' \notin {"fuse", "scan"} /\ pc' # "start"
             /\ prog' = prog \/ pc = "start"
  BY <1>9 DEF Start, NoMain, NextComm, Report, SkipContainer, NextClass, EndCheck, EndPDFP
<1> QED
  BY <1>2, <1>3, <1>4, <1>5, <1>6, <1>7, <1>8, <1>9 DEF Next

-----------------------------------------------------------------------------
(* What the walk over communicators and containers passes.                 *)

(* checkErrors goes through every class.                                   *)
LEMMA ClassAtSurjective ==
    ASSUME NEW c \in Classes
    PROVE  \E q \in 1 .. NumClasses : ClassAt(q) = c
<1>1. Len(TypeOrder) \in Nat /\ DOMAIN TypeOrder = 1 .. Len(TypeOrder)
  BY TypeOrderAssumption
<1>2. PICK t \in 1 .. Len(TypeOrder), b \in BOOLEAN : c = <<TypeOrder[t], b>>
  BY <1>1 DEF Classes, CollTypes
<1>3. CASE b
  <2>1. 2 * t - 1 \in 1 .. NumClasses /\ ((2 * t - 1) + 1) \div 2 = t /\ (2 * t - 1) % 2 = 1
    BY <1>1 DEF NumClasses
  <2>2. b = TRUE
    BY <1>3
  <2>3. ClassAt(2 * t - 1) = c
    BY <1>2, <2>1, <2>2 DEF ClassAt
  <2> QED
    BY <2>1, <2>3
<1>4. CASE ~b
  <2>1. 2 * t \in 1 .. NumClasses /\ (2 * t + 1) \div 2 = t /\ (2 * t) % 2 = 0
    BY <1>1 DEF NumClasses
  <2>2. b = FALSE
    BY <1>2, <1>4
  <2>3. ClassAt(2 * t) = c
    BY <1>2, <2>1, <2>2 DEF ClassAt
  <2> QED
    BY <2>1, <2>3
<1> QED
  BY <1>3, <1>4

(* Communicators of collectives are among those searched.                  *)
LEMMA CommOfCollective ==
    ASSUME TypeOK, CommsKnown, pc \notin {"start", "failed"}, NEW o \in DOMAIN prog, prog[o].kind = "coll"
    PROVE  prog[o].comm \in comms /\ prog[o].comm \in Nat /\ comm \in Nat
<1>1. prog[o].comm \in 1 .. (o - 1) /\ prog[prog[o].comm].kind \in CommKinds
  BY DEF TypeOK, WellFormed, OperandsDefined, OpsOf
<1>2. o \in 1 .. Len(prog) /\ DOMAIN prog = 1 .. Len(prog) /\ Len(prog) \in Nat
  BY ProgramDomain DEF TypeOK
<1>3. prog[o].comm \in DOMAIN prog /\ prog[o].comm \in Nat
  BY <1>1, <1>2
<1>4. comm \in Nat
  BY <1>2 DEF TypeOK
<1> QED
  BY <1>1, <1>3, <1>4 DEF CommsKnown, Comms

(* What is reported has been passed.                                       *)
LEMMA ReportedPassed ==
    ASSUME ReportInv, NEW o, IsReported(o)
    PROVE  ReportPassed(o)
BY DEF ReportInv, ReportsPassed, IsReported, InList

(* No report is made, and what is passed has not been divided.             *)
LEMMA VerdictKept ==
    ASSUME VerdictSoFar, UNCHANGED <<prog, errors>>,
           \A o \in DOMAIN prog : Walked(o)' =>
              Walked(o) \/ (~IsReported(o) /\ ~(Reached(o, prog) /\ Divided(o, prog)))
    PROVE  VerdictSoFar'
<1>1. \A o : IsReported(o)' <=> IsReported(o)
  BY DEF IsReported, InList
<1> QED
  BY <1>1 DEF VerdictSoFar

(* The operations that are passed with the container at hand.              *)
LEMMA PassedWithCell ==
    ASSUME TypeOK, ReportInv, UNCHANGED <<prog, comm>>, NextCell,
           pc \in {"check", "scan"}, pc' = "check",
           NEW o \in DOMAIN prog, Walked(o)'
    PROVE  Walked(o) \/ /\ ~IsReported(o)
                        /\ prog[o].comm = comm /\ Class(o, prog) = ClassAt(cell.class)
                        /\ Slot(o) = cell.slot
<1>1. SUFFICES ASSUME ~Walked(o)
               PROVE  /\ ~IsReported(o)
                      /\ prog[o].comm = comm /\ Class(o, prog) = ClassAt(cell.class)
                      /\ Slot(o) = cell.slot
  OBVIOUS
<1>2. /\ cell'.class = cell.class /\ cell'.slot = cell.slot + 1
      /\ cell.class \in Nat /\ cell.slot \in Nat
  BY DEF NextCell, TypeOK
<1>3. Slot(o)' = Slot(o) /\ Slot(o) \in Nat
  BY SlotType DEF Slot
<1>4. prog[o].kind = "coll" /\ prog[o].comm = comm /\ Passed(o)' /\ ~Passed(o)
  BY <1>1 DEF Walked
<1>5. PICK q \in 1 .. NumClasses :
        /\ ClassAt(q) = Class(o, prog)
        /\ q < cell.class \/ (q = cell.class /\ Slot(o) < cell.slot + 1)
  BY <1>2, <1>3, <1>4 DEF Passed
<1>6. q = cell.class /\ Slot(o) = cell.slot
  BY <1>2, <1>3, <1>4, <1>5, NumClassesType DEF Passed
<1>7. ~IsReported(o)
  BY <1>4, ReportedPassed DEF ReportPassed
<1> QED
  BY <1>4, <1>5, <1>6, <1>7

LEMMA SkipContainerVerdict ==
    ASSUME VerdictInv, SkipContainer
    PROVE  VerdictSoFar'
<1>1. /\ TypeOK /\ WalkInv /\ ReportInv /\ VerdictSoFar
  BY DEF VerdictInv, WalkInv, FiledInv, SlotInv, TypeInv
<1>2. /\ UNCHANGED <<prog, comm, errors, pc>> /\ NextCell /\ pc = "check"
      /\ cell.class <= NumClasses /\ cell.slot <= Len(order)
      /\ Members = <<>> \/ CoversAllRanks(Members, prog)
  BY DEF SkipContainer
<1>3. ASSUME NEW o \in DOMAIN prog, ~IsReported(o), prog[o].comm = comm,
             Class(o, prog) = ClassAt(cell.class), Slot(o) = cell.slot
      PROVE  ~(Reached(o, prog) /\ Divided(o, prog))
  <2> SUFFICES ASSUME Reached(o, prog) PROVE ~Divided(o, prog)
    OBVIOUS
  <2>1. InList(o, Members)
    BY <1>1, <1>2, <1>3, MembersExact
  <2>2. Members # <<>>
    BY <2>1 DEF InList
  <2> QED
    BY <1>1, <1>2, <2>1, <2>2, CoversNamed DEF Divided
<1>4. ASSUME NEW o \in DOMAIN prog, Walked(o)'
      PROVE  Walked(o) \/ (~IsReported(o) /\ ~(Reached(o, prog) /\ Divided(o, prog)))
  BY <1>1, <1>2, <1>3, <1>4, PassedWithCell
<1> QED
  BY <1>1, <1>2, <1>4, VerdictKept

LEMMA NextClassVerdict ==
    ASSUME VerdictInv, NextClass
    PROVE  VerdictSoFar'
<1>1. /\ TypeOK /\ WalkInv /\ ReportInv /\ VerdictSoFar
  BY DEF VerdictInv, WalkInv, FiledInv, SlotInv, TypeInv
<1>2. /\ UNCHANGED <<prog, comm, errors, pc>> /\ pc = "check"
      /\ cell.class <= NumClasses /\ cell.slot > Len(order)
      /\ cell'.class = cell.class + 1 /\ cell'.slot = 1
      /\ cell.class \in Nat /\ cell.slot \in Nat /\ Len(order) \in Nat
  BY <1>1 DEF NextClass, TypeOK
<1>3. ASSUME NEW o \in DOMAIN prog, Walked(o)', ~Walked(o)
      PROVE  ~IsReported(o) /\ ~Reached(o, prog)
  <2>1. Slot(o)' = Slot(o) /\ Slot(o) \in Nat /\ ~(Slot(o) < 1)
    BY <1>1, <1>2, SlotType DEF Slot
  <2>2. prog[o].kind = "coll" /\ prog[o].comm = comm /\ Passed(o)' /\ ~Passed(o)
    BY <1>2, <1>3 DEF Walked
  <2>3. PICK q \in 1 .. NumClasses : ClassAt(q) = Class(o, prog) /\ q < cell.class + 1
    BY <1>2, <2>1, <2>2 DEF Passed
  <2>4. q = cell.class /\ ~(Slot(o) < cell.slot)
    BY <1>2, <2>1, <2>2, <2>3, NumClassesType DEF Passed
  <2>5. Slot(o) \notin DOMAIN order
    BY <1>1, <1>2, <2>1, <2>4 DEF TypeOK
  <2>6. ~Reached(o, prog)
    BY <1>1, <1>2, <2>2, <2>5, ReachedFiled
  <2>7. ~IsReported(o)
    BY <1>1, <1>2, <2>2, ReportedPassed DEF ReportPassed
  <2> QED
    BY <2>6, <2>7
<1> QED
  BY <1>1, <1>2, <1>3, VerdictKept

(* The report of the container at hand is the verdict on its members, and  *)
(* says nothing of anything else.                                          *)
LEMMA EndPDFPVerdict ==
    ASSUME VerdictInv, EndPDFP
    PROVE  VerdictSoFar'
<1>1. /\ TypeOK /\ WalkInv /\ ReportInv /\ VerdictSoFar /\ ScanInv
      /\ cell.class <= NumClasses /\ cell.slot <= Len(order)
  BY DEF VerdictInv, WalkInv, FiledInv, SlotInv, TypeInv, CellInRange, EndPDFP
<1>2. /\ UNCHANGED <<prog, comm>> /\ NextCell /\ pc = "scan" /\ pc' = "check" /\ fused = <<>>
      /\ errors' = IF pdfp # <<>> THEN Append(errors, [conflict |-> Members, causing |-> pdfp])
                                  ELSE errors
  BY DEF EndPDFP
<1>3. Members \in Seq(DOMAIN prog) /\ pdfp \in Seq(DOMAIN prog)
  BY <1>1, MembersType DEF TypeOK
<1>4. \A o : IsReported(o)' <=> IsReported(o) \/ (pdfp # <<>> /\ InList(o, Members))
  <2> DEFINE E == [conflict : Seq(DOMAIN prog), causing : Seq(DOMAIN prog)]
             new == [conflict |-> Members, causing |-> pdfp]
  <2>1. errors \in Seq(E) /\ new \in E /\ new.conflict = Members
    BY <1>1, <1>3 DEF TypeOK
  <2>2. errors' = IF pdfp # <<>> THEN Append(errors, new) ELSE errors
    BY <1>2
  <2> HIDE DEF E, new
  <2>3. CASE pdfp = <<>>
    BY <2>2, <2>3 DEF IsReported, InList
  <2>4. CASE pdfp # <<>>
    <3>1. /\ \A e \in DOMAIN errors : e \in DOMAIN errors' /\ errors'[e] = errors[e]
          /\ \A e \in DOMAIN errors' : errors'[e] = new \/ (e \in DOMAIN errors /\ errors'[e] = errors[e])
          /\ \E e \in DOMAIN errors' : errors'[e] = new
      BY <2>1, <2>2, <2>4
    <3> QED
      BY <2>1, <2>4, <3>1 DEF IsReported, InList
  <2> QED
    BY <2>3, <2>4
<1>5. (\E i \in DOMAIN Members : DividesRanks(ListOf(i))) <=> pdfp # <<>>
  <2>1. ~\E j : j \in DOMAIN fused
    BY <1>2
  <2> QED
    BY <1>1, <1>2, <2>1 DEF ScanInv, NoCauseYet, CauseDivides, ToBeScanned
<1>6. ASSUME NEW o \in DOMAIN prog, Walked(o)
      PROVE  ~InList(o, Members)
  <2>1. ReportInv /\ SlotInv
    BY <1>1 DEF ReportInv
  <2>2. SUFFICES ASSUME InList(o, Members) PROVE FALSE
    OBVIOUS
  <2>3. prog[o].comm = comm /\ Class(o, prog) = ClassAt(cell.class) /\ Slot(o) = cell.slot
    BY <1>1, <1>2, <2>2, MembersExact
  <2>4. comm \in Nat /\ prog[o].kind = "coll"
    BY <1>1, <1>6, ProgramDomain DEF TypeOK, Walked
  <2>5. Passed(o)
    BY <1>2, <1>6, <2>3, <2>4 DEF Walked
  <2>6. cell.class \in 1 .. NumClasses /\ cell.slot \in Nat
    BY <1>1, NumClassesType DEF TypeOK
  <2> QED
    BY <2>3, <2>5, <2>6, ClassAtInjective DEF Passed
<1>7. ASSUME NEW o \in DOMAIN prog, ~IsReported(o), prog[o].comm = comm,
             Class(o, prog) = ClassAt(cell.class), Slot(o) = cell.slot
      PROVE  IsReported(o)' <=> Reached(o, prog) /\ Divided(o, prog)
  <2>1. InList(o, Members) <=> Reached(o, prog)
    BY <1>1, <1>2, <1>7, MembersExact
  <2>2. InList(o, Members) => (Divided(o, prog) <=> pdfp # <<>>)
    BY <1>1, <1>2, <1>5, DividedExact DEF ScanInv
  <2> QED
    BY <1>4, <1>7, <2>1, <2>2
<1>8. ASSUME NEW o \in DOMAIN prog, Walked(o)'
      PROVE  IsReported(o)' <=> Reached(o, prog) /\ Divided(o, prog)
  <2>1. CASE Walked(o)
    BY <1>1, <1>4, <1>6, <2>1 DEF VerdictSoFar
  <2>2. CASE ~Walked(o)
    BY <1>1, <1>2, <1>7, <1>8, <2>2, PassedWithCell
  <2> QED
    BY <2>1, <2>2
<1> QED
  BY <1>2, <1>8 DEF VerdictSoFar

LEMMA InitVerdictInv == Init => VerdictInv
<1> SUFFICES ASSUME Init PROVE VerdictInv
  OBVIOUS
<1>1. pc = "start"
  BY DEF Init, InitPass
<1> QED
  BY <1>1, InitWalkInv, InitScanInv, InitReportInv DEF VerdictInv, AllSearched, VerdictSoFar, Walked

LEMMA NextVerdictInv == VerdictInv /\ [Next]_vars => VerdictInv'
<1> SUFFICES ASSUME VerdictInv, [Next]_vars PROVE VerdictInv'
  OBVIOUS
<1>1. /\ WalkInv' /\ ScanInv' /\ ReportInv'
      /\ WalkInv /\ ScanInv /\ ReportInv /\ VerdictSoFar /\ TypeInv /\ TypeOK /\ TypeOK'
  BY NextWalkInv, NextScanInv, NextReportInv
     DEF VerdictInv, WalkInv, FiledInv, SlotInv, TypeInv
<1>2. AllSearched'
  <2>1. CASE Report
    <3>1. CommsLeft = {} /\ UNCHANGED <<comms, comm>>
      BY <2>1 DEF Report
    <3> QED
      BY <3>1 DEF AllSearched, CommsLeft
  <2>2. CASE UNCHANGED vars
    BY <2>2 DEF VerdictInv, AllSearched, CommsLeft, vars
  <2>3. ASSUME \/ Start \/ NoMain \/ NextComm \/ Walk \/ Return \/ SkipContainer \/ NextClass \/ EndCheck
               \/ StartPDFP \/ FuseMember \/ EndFuse \/ ScanList \/ EndPDFP
        PROVE  pc' # "done"
    BY <2>3 DEF Start, NoMain, NextComm, Walk, Collect, EnterIf, EnterFor, PassOver, AtOp, Return,
                SkipContainer, NextClass, EndCheck, StartPDFP, FuseMember, EndFuse, ScanList, EndPDFP
  <2> QED
    BY <2>1, <2>2, <2>3 DEF Next, AllSearched
<1>3. CASE Start
  <2>1. pc' = "loop" /\ comm' = 0 /\ comms' = Comms(prog)
    BY <1>1, <1>3 DEF Start, TypeInv, NothingYet
  <2>2. ASSUME NEW o \in DOMAIN prog', Walked(o)' PROVE FALSE
    <3>1. prog'[o].kind = "coll" /\ WellFormed(prog')
      BY <1>1, <2>2 DEF Walked, TypeOK
    <3>2. prog'[o].comm \in 1 .. (o - 1)
      BY <3>1 DEF WellFormed, OperandsDefined, OpsOf
    <3>3. o \in Nat
      BY <3>1, ProgramDomain
    <3> QED
      BY <2>1, <2>2, <3>2, <3>3 DEF Walked
  <2>3. VerdictSoFar'
    BY <2>2 DEF VerdictSoFar
  <2> QED
    BY <1>1, <1>2, <2>3 DEF VerdictInv
<1>4. CASE NextComm
  <2>1. /\ UNCHANGED <<prog, errors, comms>> /\ pc = "loop" /\ pc' = "collect"
        /\ CommsLeft # {} /\ comm' = Min(CommsLeft)
    BY <1>4 DEF NextComm
  <2>2. comm' \in Nat /\ comm' \in CommsLeft /\ \A c \in CommsLeft : comm' <= c
    <3>1. comms \in SUBSET Nat
      <4>1. WellFormed(prog) /\ comms \subseteq DOMAIN prog
        BY <1>1 DEF TypeOK
      <4> QED
        BY <4>1, ProgramDomain
    <3>2. CommsLeft \in SUBSET Nat
      BY <3>1 DEF CommsLeft
    <3> QED
      BY <2>1, <3>2, MinOfNats
  <2>3. ASSUME NEW o \in DOMAIN prog, Walked(o)' PROVE Walked(o)
    <3>1. prog[o].kind = "coll" /\ prog[o].comm < comm'
      BY <2>1, <2>3 DEF Walked
    <3>2. prog[o].comm \in comms /\ prog[o].comm \in Nat /\ comm \in Nat
      BY <1>1, <2>1, <3>1, CommOfCollective DEF WalkInv
    <3>3. prog[o].comm \notin CommsLeft
      BY <2>2, <3>1, <3>2
    <3>4. prog[o].comm <= comm
      BY <3>2, <3>3 DEF CommsLeft
    <3> QED
      BY <2>1, <3>1, <3>2, <3>4 DEF Walked
  <2> QED
    BY <1>1, <1>2, <2>1, <2>3, VerdictKept DEF VerdictInv
<1>5. CASE Walk
  <2>1. UNCHANGED <<prog, errors, pc, comm>> /\ pc = "collect"
    BY <1>5 DEF Walk, Collect, EnterIf, EnterFor, PassOver, AtOp
  <2>2. \A o \in DOMAIN prog : Walked(o)' => Walked(o)
    BY <2>1 DEF Walked
  <2> QED
    BY <1>1, <1>2, <2>1, <2>2, VerdictKept DEF VerdictInv
<1>6. CASE Return
  <2>1. /\ UNCHANGED <<prog, errors, comm>> /\ pc = "collect"
        /\ pc' = "collect" \/ (pc' = "check" /\ cell' = [class |-> 1, slot |-> 1])
    BY <1>6 DEF Return
  <2>2. ASSUME NEW o \in DOMAIN prog, Walked(o)' PROVE Walked(o)
    <3>1. Slot(o)' = Slot(o) /\ ~(Slot(o) < 1)
      BY <1>1, <2>1, SlotType DEF Slot
    <3>2. ~Passed(o)' \/ pc' = "collect"
      BY <2>1, <3>1 DEF Passed
    <3> QED
      BY <2>1, <2>2, <3>2 DEF Walked
  <2> QED
    BY <1>1, <1>2, <2>1, <2>2, VerdictKept DEF VerdictInv
<1>7. CASE SkipContainer
  BY <1>1, <1>2, <1>7, SkipContainerVerdict DEF VerdictInv
<1>8. CASE NextClass
  BY <1>1, <1>2, <1>8, NextClassVerdict DEF VerdictInv
<1>9. CASE EndCheck
  <2>1. UNCHANGED <<prog, errors, comm>> /\ pc = "check" /\ pc' = "loop" /\ cell.class > NumClasses
    BY <1>9 DEF EndCheck
  <2>2. ASSUME NEW o \in DOMAIN prog, Walked(o)' PROVE Walked(o)
    <3>1. PICK q \in 1 .. NumClasses : ClassAt(q) = Class(o, prog)
      BY <1>1, ClassType, ClassAtSurjective DEF TypeOK
    <3>2. Passed(o)
      BY <1>1, <2>1, <3>1, NumClassesType DEF Passed, TypeOK
    <3> QED
      BY <2>1, <2>2, <3>2 DEF Walked
  <2> QED
    BY <1>1, <1>2, <2>1, <2>2, VerdictKept DEF VerdictInv
<1>10. CASE StartPDFP \/ FuseMember \/ EndFuse \/ ScanList
  <2>1. /\ UNCHANGED <<prog, errors, comm, cell>>
        /\ pc \in {"check", "fuse", "scan"} /\ pc' \in {"fuse", "scan"}
    BY <1>10 DEF StartPDFP, FuseMember, EndFuse, ScanList
  <2>2. \A o \in DOMAIN prog : Walked(o)' => Walked(o)
    BY <2>1 DEF Walked, Passed, Slot
  <2> QED
    BY <1>1, <1>2, <2>1, <2>2, VerdictKept DEF VerdictInv
<1>11. CASE EndPDFP
  BY <1>1, <1>2, <1>11, EndPDFPVerdict DEF VerdictInv
<1>12. CASE Report \/ NoMain
  <2>1. UNCHANGED <<prog, errors, comm>> /\ ((pc = "loop" /\ pc' = "done") \/ pc' = "failed")
    BY <1>12 DEF Report, NoMain
  <2>2. \A o \in DOMAIN prog : Walked(o)' => Walked(o)
    BY <2>1 DEF Walked
  <2> QED
    BY <1>1, <1>2, <2>1, <2>2, VerdictKept DEF VerdictInv
<1>13. CASE UNCHANGED vars
  <2>1. UNCHANGED <<prog, errors, comm, cell, pc>>
    BY <1>13 DEF vars
  <2>2. \A o \in DOMAIN prog : Walked(o)' => Walked(o)
    BY <2>1 DEF Walked, Passed, Slot
  <2> QED
    BY <1>1, <1>2, <2>1, <2>2, VerdictKept DEF VerdictInv
<1> QED
  BY <1>3, <1>4, <1>5, <1>6, <1>7, <1>8, <1>9, <1>10, <1>11, <1>12, <1>13 DEF Next

LEMMA VerdictInvExact == VerdictInv => VerdictExact
<1> SUFFICES ASSUME VerdictInv, pc = "done", NEW o \in DOMAIN prog
             PROVE  IsReported(o) <=> Reached(o, prog) /\ Divided(o, prog)
  BY DEF VerdictExact
<1>1. TypeOK /\ CommsKnown /\ ReportInv /\ VerdictSoFar /\ CommsLeft = {}
  BY DEF VerdictInv, WalkInv, FiledInv, SlotInv, TypeInv, AllSearched
<1>2. CASE prog[o].kind = "coll"
  <2>1. prog[o].comm \in comms /\ prog[o].comm \in Nat /\ comm \in Nat
    BY <1>1, <1>2, CommOfCollective
  <2>2. ~(comm < prog[o].comm)
    BY <1>1, <2>1 DEF CommsLeft
  <2>3. Walked(o)
    BY <1>2, <2>1, <2>2 DEF Walked
  <2> QED
    BY <1>1, <2>3 DEF VerdictSoFar
<1>3. CASE prog[o].kind # "coll"
  BY <1>1, <1>3, ReportedPassed DEF ReportPassed, Reached
<1> QED
  BY <1>2, <1>3

(***************************************************************************)
(* On every program, with any number of communicators, classes and ranks,  *)
(* check-collectives reports a collective if and only if one of those that *)
(* ranks may meet it with divides the ranks, as the program alone says:    *)
(* checkedIfOprs, PDFP and the fused lists make getPDFP neither miss nor   *)
(* invent a cause, and numberOfExecution is never that of another program. *)
(***************************************************************************)
THEOREM VerdictExactAlways == Spec => []VerdictExact
<1>1. Spec => []VerdictInv
  BY InitVerdictInv, NextVerdictInv, PTL DEF Spec
<1> QED
  BY <1>1, VerdictInvExact, PTL

=============================================================================
