----------------------- MODULE UniformityAnalysis_proofs -----------------------
(***************************************************************************)
(* Proofs about the dataflow solver with the reaching definition analysis  *)
(* and the uniformity analysis, for every well-formed program: the types   *)
(* of what they keep, and that the solver does not stop before the         *)
(* reaching definitions have settled.                                      *)
(***************************************************************************)
EXTENDS UniformityAnalysis, FiniteSetTheorems, SequenceTheorems, WellFoundedInduction, TLAPS

LOCAL INSTANCE FiniteSetsExt

(* A non-empty set of natural numbers has a least element.                 *)
LEMMA LeastNumber ==
    ASSUME NEW T, T \subseteq Nat, T # {}
    PROVE  \E x \in T : \A y \in T : x <= y
<1>1. IsWellFoundedOn(OpToRel(<, Nat), Nat)
  BY NatLessThanWellFounded, Zenon
<1>2. \E x \in T : \A y \in T : ~ (<<y, x>> \in OpToRel(<, Nat))
  BY <1>1, WFMin, Zenon
<1>3. \A x, y \in Nat : x < y => <<x, y>> \in OpToRel(<, Nat)
  BY Zenon DEF OpToRel
<1>4. \E x \in T : \A y \in T : ~ (y < x)
  BY <1>2, <1>3, Zenon
<1> QED
  BY <1>4

(* A non-empty set of natural numbers with a bound has a greatest one.     *)
LEMMA GreatestNumber ==
    ASSUME NEW n \in Nat, NEW T, T \subseteq 0 .. n, T # {}
    PROVE  \E x \in T : \A y \in T : y <= x
<1> DEFINE U == {n - x : x \in T}
<1>1. U \subseteq Nat /\ U # {}
  <2>1. \A x \in T : n - x \in Nat
    OBVIOUS
  <2> QED
    BY <2>1
<1>2. PICK u \in U : \A w \in U : u <= w
  <2> HIDE DEF U
  <2> QED
    BY <1>1, LeastNumber
<1>3. PICK x \in T : u = n - x
  OBVIOUS
<1>4. ASSUME NEW y \in T PROVE y <= x
  <2>1. n - y \in U
    OBVIOUS
  <2>2. n - x <= n - y
    BY <1>2, <1>3, <2>1
  <2> QED
    BY <2>2
<1> QED
  BY <1>4

-----------------------------------------------------------------------------
(* Visits are in an order. *)
AnyVisit == {"defs", "uni", "live"} \X Nat \X Nat

(* NotAfter is a total order of the visits. *)
LEMMA VisitOrder ==
    ASSUME NEW x \in AnyVisit, NEW y \in AnyVisit
    PROVE  /\ NotAfter(x, x)
           /\ NotAfter(x, y) \/ NotAfter(y, x)
           /\ NotAfter(x, y) /\ NotAfter(y, x) => x = y
<1>1. PICK a \in {"defs", "uni", "live"}, i \in Nat, j \in Nat : x = <<a, i, j>>
  BY DEF AnyVisit
<1>2. PICK b \in {"defs", "uni", "live"}, k \in Nat, l \in Nat : y = <<b, k, l>>
  BY DEF AnyVisit
<1>3. Analyses[a] \in Nat /\ Analyses[b] \in Nat /\ (Analyses[a] = Analyses[b] => a = b)
  BY DEF Analyses
<1> QED
  BY <1>1, <1>2, <1>3 DEF NotAfter

LEMMA VisitOrderTransitive ==
    ASSUME NEW x \in AnyVisit, NEW y \in AnyVisit, NEW z \in AnyVisit,
           NotAfter(x, y), NotAfter(y, z)
    PROVE  NotAfter(x, z)
<1>1. PICK a \in {"defs", "uni", "live"}, i \in Nat, j \in Nat : x = <<a, i, j>>
  BY DEF AnyVisit
<1>2. PICK b \in {"defs", "uni", "live"}, k \in Nat, l \in Nat : y = <<b, k, l>>
  BY DEF AnyVisit
<1>3. PICK c \in {"defs", "uni", "live"}, m \in Nat, n \in Nat : z = <<c, m, n>>
  BY DEF AnyVisit
<1>4. Analyses[a] \in Nat /\ Analyses[b] \in Nat /\ Analyses[c] \in Nat
  BY DEF Analyses
<1> QED
  BY <1>1, <1>2, <1>3, <1>4 DEF NotAfter

(* The list of a set of visits has each of them once. *)
LEMMA OrderedHolds ==
    ASSUME NEW V \in SUBSET AnyVisit, IsFiniteSet(V)
    PROVE  Ordered(V) \in Seq(V) /\ {Ordered(V)[i] : i \in DOMAIN Ordered(V)} = V
<1> DEFINE n == Cardinality(V)
           upTo(x) == {y \in V : NotAfter(y, x)}
           place == [x \in V |-> Cardinality(upTo(x))]
<1>1. n \in Nat
  BY FS_CardinalityType
<1>2. ASSUME NEW x \in V PROVE IsFiniteSet(upTo(x)) /\ place[x] \in 1 .. n
  <2>1. upTo(x) \subseteq V /\ x \in upTo(x)
    BY VisitOrder
  <2>2. IsFiniteSet(upTo(x)) /\ Cardinality(upTo(x)) <= n /\ Cardinality(upTo(x)) \in Nat
    <3> HIDE DEF upTo
    <3> QED BY <2>1, FS_Subset, FS_CardinalityType
  <2>3. Cardinality(upTo(x)) # 0
    <3> HIDE DEF upTo
    <3> QED BY <2>1, <2>2, FS_EmptySet
  <2> HIDE DEF upTo
  <2> QED BY <2>2, <2>3, <1>1
<1>3. ASSUME NEW x \in V, NEW y \in V, x # y, NotAfter(x, y) PROVE place[x] < place[y]
  <2>1. upTo(x) \subseteq upTo(y)
    BY <1>3, VisitOrderTransitive
  <2>2. y \in upTo(y) /\ y \notin upTo(x)
    BY <1>3, VisitOrder
  <2>3. IsFiniteSet(upTo(y)) BY <1>2
  <2> HIDE DEF upTo
  <2>4. upTo(x) # upTo(y) BY <2>2
  <2>5. Cardinality(upTo(x)) < Cardinality(upTo(y))
    <3>1. IsFiniteSet(upTo(x)) BY <1>2
    <3> QED BY <2>1, <2>3, <2>4, <3>1, FS_Subset, FS_CardinalityType
  <2> QED BY <2>5
<1>4. ASSUME NEW x \in V, NEW y \in V, place[x] = place[y] PROVE x = y
  <2>1. NotAfter(x, y) \/ NotAfter(y, x) BY VisitOrder
  <2>2. place[x] \in 1 .. n /\ place[y] \in 1 .. n BY <1>2
  <2> HIDE DEF place
  <2> QED BY <2>1, <2>2, <1>3, <1>4
<1>5. ASSUME NEW i \in 1 .. n PROVE \E x \in V : place[x] = i
  <2> SUFFICES ASSUME \A x \in V : place[x] # i PROVE FALSE
    OBVIOUS
  <2> DEFINE T == (1 .. n) \ {i}
  <2>1. place \in [V -> T]
    BY <1>2
  <2>2. IsFiniteSet(1 .. n) /\ Cardinality(1 .. n) = n
    BY <1>1, FS_Interval
  <2>3. IsFiniteSet(T) /\ Cardinality(T) = n - 1
    BY <2>2, FS_RemoveElement
  <2> HIDE DEF place, T
  <2>4. Cardinality(T) < Cardinality(V)
    BY <2>3, <1>1
  <2>5. \E x, y \in V : x # y /\ place[x] = place[y]
    BY <2>1, <2>3, <2>4, FS_PigeonHole
  <2> QED
    BY <2>5, <1>4
<1>6. ASSUME NEW i \in 1 .. n
      PROVE  Ordered(V)[i] \in V /\ place[Ordered(V)[i]] = i
  <2>1. \E x \in V : Cardinality({y \in V : NotAfter(y, x)}) = i
    BY <1>5
  <2>2. Ordered(V)[i] = CHOOSE x \in V : Cardinality({y \in V : NotAfter(y, x)}) = i
    BY DEF Ordered
  <2> QED
    BY <2>1, <2>2, Zenon
<1>7. DOMAIN Ordered(V) = 1 .. n
  BY DEF Ordered
<1>8. Ordered(V) \in Seq(V)
  <2>1. Ordered(V) \in [1 .. n -> V]
    BY <1>6 DEF Ordered
  <2> QED
    BY <2>1, <1>1
<1>9. ASSUME NEW x \in V PROVE \E i \in 1 .. n : Ordered(V)[i] = x
  <2>1. place[x] \in 1 .. n
    BY <1>2
  <2>2. Ordered(V)[place[x]] \in V /\ place[Ordered(V)[place[x]]] = place[x]
    BY <2>1, <1>6
  <2> HIDE DEF place
  <2>3. Ordered(V)[place[x]] = x
    BY <2>2, <1>4
  <2> QED
    BY <2>1, <2>3
<1> QED
  BY <1>6, <1>7, <1>8, <1>9

-----------------------------------------------------------------------------
(* The structure of a program. *)
LEMMA OperationTyped ==
    ASSUME NEW p, WellFormedMemoryProgram(p), NEW o \in DOMAIN p
    PROVE  /\ Len(p) \in Nat /\ DOMAIN p = 1 .. Len(p) /\ o \in 1 .. Len(p)
           /\ p[o].kind \in RegionOps \union ValueOps \union MemrefOps \union CallOps \union {"store", "free"}
           /\ p[o].path \in Seq((1 .. Len(p)) \X {1, 2})
           /\ p[o].uses \in Seq(ValuesUpTo(Len(p))) /\ p[o].yields \in Seq(ValuesUpTo(Len(p)))
           /\ p[o].mem \in Seq(1 .. Len(p))
           /\ HasOperands(p[o])
           /\ p[o].kind \in Arguments => p[o].path = <<>>
           /\ \A k \in DOMAIN p[o].path : NestedIn(p, o, k)
           /\ \A k \in DOMAIN p[o].mem : Dominates(p, p[o].mem[k], o) /\ p[p[o].mem[k]].kind \in MemrefOps
<1>1. p \in Seq(MemoryOperation(Len(p)))
  BY DEF WellFormedMemoryProgram
<1>2. Len(p) \in Nat /\ DOMAIN p = 1 .. Len(p) /\ p[o] \in MemoryOperation(Len(p))
  BY <1>1
<1>3. /\ HasOperands(p[o])
      /\ p[o].kind \in Arguments => p[o].path = <<>>
      /\ \A k \in DOMAIN p[o].path : NestedIn(p, o, k)
      /\ \A k \in DOMAIN p[o].mem : Dominates(p, p[o].mem[k], o) /\ p[p[o].mem[k]].kind \in MemrefOps
  BY Zenon DEF WellFormedMemoryProgram
<1>4. /\ p[o].kind \in RegionOps \union ValueOps \union MemrefOps \union CallOps \union {"store", "free"}
      /\ p[o].path \in Seq((1 .. Len(p)) \X {1, 2})
      /\ p[o].uses \in Seq(ValuesUpTo(Len(p))) /\ p[o].yields \in Seq(ValuesUpTo(Len(p)))
      /\ p[o].mem \in Seq(1 .. Len(p))
  BY <1>2, Zenon DEF MemoryOperation
<1> QED
  BY <1>2, <1>3, <1>4, Zenon

(* The points of a program, and the regions of an operation. *)
LEMMA PointParts ==
    ASSUME NEW p, NEW pt \in Points(p)
    PROVE  pt = MainStart \/ (pt[1] \in DOMAIN p /\ pt[2] \in {0} \union Regions(p, pt[1]) /\ pt = <<pt[1], pt[2]>>)
  BY DEF Points

LEMMA PointsAre ==
    ASSUME NEW p, NEW o \in DOMAIN p, NEW r \in {0} \union Regions(p, o)
    PROVE  <<o, r>> \in Points(p)
  BY DEF Points

LEMMA RegionsTyped ==
    ASSUME NEW p, NEW o
    PROVE  /\ Regions(p, o) \subseteq {1, 2}
           /\ p[o].kind \in RegionOps => 1 \in Regions(p, o)
           /\ p[o].kind \notin RegionOps => Regions(p, o) = {}
           /\ 2 \in Regions(p, o) => p[o].kind \in {"if", "while"}
           /\ p[o].kind = "if" => (2 \in Regions(p, o) <=> HasElse(p, o))
           /\ p[o].kind = "while" => Regions(p, o) = {1, 2}
           /\ p[o].kind = "for" => Regions(p, o) = {1}
  BY DEF Regions, RegionOps

LEMMA PathOfMain == ASSUME NEW p, NEW r PROVE RegionPath(p, 0, r) = <<>>
  BY DEF RegionPath

(* The region an operation is in. *)
LEMMA RegionOf ==
    ASSUME NEW p, WellFormedMemoryProgram(p), NEW o \in DOMAIN p
    PROVE  /\ p[o].path = <<>> => RegionAt(p, o) = MainStart
           /\ p[o].path # <<>> =>
                \E b \in 1 .. (o - 1) : \E r \in Regions(p, b) :
                    /\ RegionAt(p, o) = <<b, r>>
                    /\ b \in DOMAIN p /\ p[b].kind \in RegionOps
                    /\ p[o].path = RegionPath(p, b, r)
                    /\ p[o].path[Len(p[o].path)] = <<b, r>>
<1>1. ASSUME p[o].path # <<>>
      PROVE  \E b \in 1 .. (o - 1) : \E r \in Regions(p, b) :
                /\ RegionAt(p, o) = <<b, r>>
                /\ b \in DOMAIN p /\ p[b].kind \in RegionOps
                /\ p[o].path = RegionPath(p, b, r)
                /\ p[o].path[Len(p[o].path)] = <<b, r>>
  <2> DEFINE path == p[o].path
             n == Len(path)
             b == path[n][1]
             r == path[n][2]
  <2>1. path \in Seq((1 .. Len(p)) \X {1, 2}) /\ n \in Nat \ {0} /\ DOMAIN path = 1 .. n
    BY <1>1, OperationTyped
  <2>2. path[n] \in (1 .. Len(p)) \X {1, 2}
    BY <2>1
  <2>3. NestedIn(p, o, n)
    BY <2>1, OperationTyped
  <2>4. b < o /\ p[b].kind \in RegionOps /\ (r = 2 => p[b].kind # "for") /\ p[b].path = SubSeq(path, 1, n - 1)
    BY <2>3 DEF NestedIn
  <2>5. o \in 1 .. Len(p) /\ DOMAIN p = 1 .. Len(p) /\ Len(p) \in Nat
    BY OperationTyped
  <2>6. b \in 1 .. (o - 1) /\ b \in DOMAIN p /\ r \in {1, 2} /\ path[n] = <<b, r>> /\ b # 0
    BY <2>2, <2>4, <2>5
  <2>7. path = Append(p[b].path, <<b, r>>)
    <3> HIDE DEF b, r
    <3>1. path = Append(SubSeq(path, 1, n - 1), path[n])
      BY <2>1
    <3> QED BY <3>1, <2>4, <2>6
  <2>8. path = RegionPath(p, b, r)
    BY <2>7, <2>6 DEF RegionPath
  <2>9. r \in Regions(p, b)
    <3>1. CASE p[b].kind = "if" /\ r = 2
      <4>1. p[o].kind \notin Arguments
        BY <1>1, OperationTyped
      <4>2. o \in OpsIn(p, b, 2)
        BY <3>1, <2>8, <4>1 DEF OpsIn
      <4> QED
        BY <3>1, <4>2 DEF HasElse, Regions
    <3>2. CASE ~ (p[b].kind = "if" /\ r = 2)
      BY <3>2, <2>4, <2>6, RegionsTyped DEF RegionOps
    <3> QED BY <3>1, <3>2
  <2>10. RegionAt(p, o) = <<b, r>>
    BY <1>1, <2>6 DEF RegionAt
  <2> HIDE DEF b, r
  <2> QED
    BY <2>4, <2>6, <2>8, <2>9, <2>10
<1> QED
  BY <1>1 DEF RegionAt

(* The operations of a region are behind the one that owns it. *)
LEMMA RegionOfOp ==
    ASSUME NEW p, WellFormedMemoryProgram(p), NEW pt \in Points(p), pt[2] # 0, NEW o \in OpsIn(p, pt[1], pt[2])
    PROVE  /\ o \in DOMAIN p /\ o > pt[1] /\ p[o].kind \notin Arguments
           /\ RegionAt(p, o) = pt
           /\ p[o].path = RegionPath(p, pt[1], pt[2])
<1>1. o \in DOMAIN p /\ p[o].kind \notin Arguments /\ p[o].path = RegionPath(p, pt[1], pt[2])
  BY DEF OpsIn
<1>2. CASE pt = MainStart
  <2>1. p[o].path = <<>>
    BY <1>1, <1>2, PathOfMain DEF MainStart
  <2>2. o \in 1 .. Len(p) /\ Len(p) \in Nat
    BY <1>1, OperationTyped
  <2> QED
    BY <1>1, <1>2, <2>1, <2>2 DEF RegionAt, MainStart
<1>3. CASE pt # MainStart
  <2>1. pt[1] \in DOMAIN p /\ pt = <<pt[1], pt[2]>>
    BY <1>3, PointParts
  <2>2. pt[1] \in 1 .. Len(p) /\ p[pt[1]].path \in Seq((1 .. Len(p)) \X {1, 2})
    BY <2>1, OperationTyped
  <2>7. pt[2] \in {1, 2}
    BY <2>1, PointParts, RegionsTyped, <1>3
  <2>8. pt \in (1 .. Len(p)) \X {1, 2}
    BY <2>1, <2>2, <2>7
  <2>3. p[o].path = Append(p[pt[1]].path, pt)
    BY <1>1, <2>1, <2>2 DEF RegionPath
  <2>4. p[o].path # <<>> /\ p[o].path[Len(p[o].path)] = pt
    <3> DEFINE up == p[pt[1]].path
    <3>1. up \in Seq((1 .. Len(p)) \X {1, 2})
      BY <2>2
    <3> HIDE DEF up
    <3>2. Append(up, pt) # <<>> /\ Append(up, pt)[Len(Append(up, pt))] = pt
      BY <3>1, <2>8
    <3> QED
      BY <3>2, <2>3 DEF up
  <2>5. PICK b \in 1 .. (o - 1) : \E r \in Regions(p, b) :
                    /\ RegionAt(p, o) = <<b, r>>
                    /\ p[o].path[Len(p[o].path)] = <<b, r>>
    BY <2>4, <1>1, RegionOf
  <2>6. o \in Nat BY <1>1, OperationTyped
  <2> QED
    BY <1>1, <2>4, <2>5, <2>6
<1> QED BY <1>2, <1>3

(* Points that are visited: not those behind an argument. *)
VisitedPoints(p) == {pt \in Points(p) : pt = MainStart \/ p[pt[1]].kind \notin Arguments}

(* Max is the greatest of a set of operations. *)
LEMMA GreatestOf ==
    ASSUME NEW n \in Nat, NEW T, T \subseteq 1 .. n, T # {}
    PROVE  Max(T) \in T /\ \A y \in T : y <= Max(T)
<1>0. T \subseteq 0 .. n
  OBVIOUS
<1>1. \E x \in T : \A y \in T : y <= x
  BY <1>0, GreatestNumber
<1>2. \E x \in T : \A y \in T : x >= y
  BY <1>1
<1>3. Max(T) \in T /\ \A y \in T : Max(T) >= y
  BY <1>2, Zenon DEF Max
<1> QED
  BY <1>3

(* The region around an operation is a point that is visited, and owned by an earlier one. *)
LEMMA RegionPoint ==
    ASSUME NEW p, WellFormedMemoryProgram(p), NEW o \in DOMAIN p
    PROVE  /\ RegionAt(p, o) \in VisitedPoints(p) /\ RegionAt(p, o)[2] # 0
           /\ RegionAt(p, o)[1] < o
           /\ p[o].kind \notin Arguments => o \in OpsIn(p, RegionAt(p, o)[1], RegionAt(p, o)[2])
<1>0. o \in 1 .. Len(p) /\ Len(p) \in Nat
  BY OperationTyped
<1>1. CASE p[o].path = <<>>
  <2>1. RegionAt(p, o) = MainStart
    BY <1>1, RegionOf
  <2>2. RegionPath(p, 0, 1) = <<>>
    BY PathOfMain
  <2> QED
    BY <1>0, <1>1, <2>1, <2>2 DEF VisitedPoints, Points, MainStart, OpsIn
<1>2. CASE p[o].path # <<>>
  <2>1. PICK b \in 1 .. (o - 1) : \E r \in Regions(p, b) :
                    /\ RegionAt(p, o) = <<b, r>>
                    /\ b \in DOMAIN p /\ p[b].kind \in RegionOps
                    /\ p[o].path = RegionPath(p, b, r)
    BY <1>2, RegionOf
  <2>2. PICK r \in Regions(p, b) :
                    /\ RegionAt(p, o) = <<b, r>>
                    /\ b \in DOMAIN p /\ p[b].kind \in RegionOps
                    /\ p[o].path = RegionPath(p, b, r)
    BY <2>1
  <2>3. <<b, r>> \in Points(p)
    BY <2>2, PointsAre
  <2>4. p[b].kind \notin Arguments
    BY <2>2 DEF RegionOps, Arguments
  <2>5. r # 0
    BY RegionsTyped
  <2> QED
    BY <1>0, <2>2, <2>3, <2>4, <2>5 DEF VisitedPoints, OpsIn
<1> QED BY <1>1, <1>2

LEMMA OpsNumbered ==
    ASSUME NEW p, WellFormedMemoryProgram(p), NEW b, NEW r
    PROVE  /\ OpsIn(p, b, r) \subseteq 1 .. Len(p) /\ Len(p) \in Nat
           /\ \A o \in OpsIn(p, b, r) : o \in DOMAIN p /\ p[o].kind \notin Arguments /\ p[o].path = RegionPath(p, b, r)
  BY DEF OpsIn, WellFormedMemoryProgram

(* The point before an operation and the end of a region. *)
LEMMA BeforePoint ==
    ASSUME NEW p, WellFormedMemoryProgram(p), NEW o \in DOMAIN p
    PROVE  Before(p, o) \in VisitedPoints(p) /\ Before(p, o) # <<o, 0>>
<1> DEFINE b == RegionAt(p, o)
           earlier == {j \in OpsIn(p, b[1], b[2]) : j < o}
<1>1. Before(p, o) = IF earlier = {} THEN b ELSE <<Max(earlier), 0>>
  BY DEF Before
<1>2. b \in VisitedPoints(p) /\ b[2] # 0
  BY RegionPoint
<1>3. earlier \subseteq 1 .. Len(p) /\ Len(p) \in Nat
  BY OpsNumbered
<1>4. ASSUME earlier # {}
      PROVE Max(earlier) \in earlier
  <2> HIDE DEF earlier
  <2> QED BY <1>3, <1>4, GreatestOf
<1>5. ASSUME NEW j \in earlier PROVE <<j, 0>> \in VisitedPoints(p) /\ j # o
  <2>1. j \in DOMAIN p /\ p[j].kind \notin Arguments
    BY OpsNumbered
  <2>2. j # o BY <1>3
  <2>3. <<j, 0>> \in Points(p)
    BY <2>1, PointsAre
  <2> QED BY <2>1, <2>2, <2>3 DEF VisitedPoints
<1>6. b # <<o, 0>>
  BY <1>2
<1> QED
  <2> HIDE DEF earlier, b
  <2> QED BY <1>1, <1>2, <1>4, <1>5, <1>6

LEMMA EndPoint ==
    ASSUME NEW p, WellFormedMemoryProgram(p), NEW b \in DOMAIN p, NEW r \in Regions(p, b)
    PROVE  EndOf(p, b, r) \in VisitedPoints(p)
<1>1. CASE OpsIn(p, b, r) = {}
  <2>1. <<b, r>> \in Points(p)
    BY PointsAre
  <2>2. p[b].kind \notin Arguments
    BY RegionsTyped DEF RegionOps, Arguments
  <2> QED
    BY <1>1, <2>1, <2>2 DEF VisitedPoints, EndOf
<1>2. CASE OpsIn(p, b, r) # {}
  <2>1. Max(OpsIn(p, b, r)) \in OpsIn(p, b, r)
    BY <1>2, OpsNumbered, GreatestOf
  <2>2. EndOf(p, b, r) = <<Max(OpsIn(p, b, r)), 0>>
    BY <1>2 DEF EndOf
  <2>3. ASSUME NEW j \in OpsIn(p, b, r) PROVE <<j, 0>> \in VisitedPoints(p)
    <3>1. j \in DOMAIN p /\ p[j].kind \notin Arguments
      BY OpsNumbered
    <3> QED BY <3>1, PointsAre DEF VisitedPoints
  <2> QED BY <2>1, <2>2, <2>3
<1> QED BY <1>1, <1>2

(* Predecessors of a point are points, and none is its own but the start of an empty region. *)
LEMMA PredecessorPoints ==
    ASSUME NEW p, WellFormedMemoryProgram(p), NEW pt \in Points(p)
    PROVE  Predecessors(p, pt) \subseteq VisitedPoints(p)
<1>1. ASSUME pt = MainStart PROVE Predecessors(p, pt) = {}
  BY <1>1 DEF Predecessors
<1>2. CASE pt # MainStart
  <2> DEFINE o == pt[1]
             r == pt[2]
  <2>1. o \in DOMAIN p /\ r \in {0} \union Regions(p, o)
    BY <1>2, PointParts
  <2>2. Before(p, o) \in VisitedPoints(p)
    BY <2>1, BeforePoint
  <2>3. \A k \in Regions(p, o) : EndOf(p, o, k) \in VisitedPoints(p)
    BY <2>1, EndPoint
  <2>4. r # 0 => p[o].kind \in RegionOps
    BY <2>1, RegionsTyped
  <2>5. r \in {0, 1, 2} /\ (r = 2 => p[o].kind \in {"if", "while"})
    BY <2>1, RegionsTyped
  <2>6. p[o].kind \in RegionOps => 1 \in Regions(p, o)
    BY RegionsTyped
  <2>7. p[o].kind = "if" => (2 \in Regions(p, o) <=> HasElse(p, o))
    BY RegionsTyped
  <2>8. p[o].kind = "while" => 2 \in Regions(p, o)
    BY RegionsTyped
  <2>9. Predecessors(p, pt) =
          CASE r = 0 /\ p[o].kind \notin RegionOps -> {Before(p, o)}
          [] r = 0 /\ p[o].kind = "if" ->
               {EndOf(p, o, 1), IF HasElse(p, o) THEN EndOf(p, o, 2) ELSE Before(p, o)}
          [] r = 0 /\ p[o].kind = "for" -> {EndOf(p, o, 1), Before(p, o)}
          [] r = 0 /\ p[o].kind = "while" -> {EndOf(p, o, 1)}
          [] r \in {1, 2} /\ p[o].kind = "if" -> {Before(p, o)}
          [] r = 1 /\ p[o].kind = "for" -> {EndOf(p, o, 1), Before(p, o)}
          [] r = 1 /\ p[o].kind = "while" -> {EndOf(p, o, 2), Before(p, o)}
          [] OTHER -> {EndOf(p, o, 1)}
    BY <1>2 DEF Predecessors
  <2> HIDE DEF o, r
  <2>10. CASE p[o].kind \notin RegionOps
    <3>1. r = 0 /\ p[o].kind \notin {"if", "for", "while"}
      BY <2>4, <2>5, <2>10 DEF RegionOps
    <3>2. Predecessors(p, pt) = {Before(p, o)}
      BY <3>1, <2>9 DEF RegionOps
    <3> QED
      BY <2>2, <3>2
  <2>11. CASE p[o].kind = "if"
    BY <2>2, <2>3, <2>5, <2>6, <2>7, <2>9, <2>11 DEF RegionOps
  <2>12. CASE p[o].kind = "for"
    BY <2>2, <2>3, <2>5, <2>6, <2>9, <2>12 DEF RegionOps
  <2>13. CASE p[o].kind = "while"
    <3>1. Predecessors(p, pt) \in {{EndOf(p, o, 1)}, {EndOf(p, o, 2), Before(p, o)}}
      BY <2>5, <2>9, <2>13 DEF RegionOps
    <3> QED
      BY <2>2, <2>3, <2>6, <2>8, <3>1, <2>13 DEF RegionOps
  <2> QED
    BY <2>10, <2>11, <2>12, <2>13 DEF RegionOps
<1> QED BY <1>1, <1>2

(* Where states are not joined there is one predecessor, another point. *)
LEMMA OnePredecessor ==
    ASSUME NEW p, WellFormedMemoryProgram(p), NEW o \in DOMAIN p, p[o].kind \notin RegionOps
    PROVE  Predecessors(p, <<o, 0>>) = {Before(p, o)} /\ Before(p, o) # <<o, 0>> /\ Before(p, o) \in VisitedPoints(p)
<1>1. o \in 1 .. Len(p) /\ Len(p) \in Nat
  BY OperationTyped
<1>2. <<o, 0>> # MainStart
  BY DEF MainStart
<1>3. Predecessors(p, <<o, 0>>) = {Before(p, o)}
  <2> DEFINE pt == <<o, 0>>
  <2>1. pt[1] = o /\ pt[2] = 0 /\ pt # MainStart
    BY <1>2
  <2> HIDE DEF pt
  <2>2. Predecessors(p, pt) = {Before(p, o)}
    BY <2>1 DEF Predecessors, RegionOps
  <2> QED
    BY <2>2 DEF pt
<1> QED
  BY <1>3, BeforePoint

-----------------------------------------------------------------------------
(* What the operations on states do to the entry of one memref. *)
LEMMA StateParts ==
    ASSUME NEW p, NEW s \in ReachingStates(p)
    PROVE  /\ s.mods \in [DOMAIN p -> SUBSET Definitions(p)]
           /\ s.pMods \in [DOMAIN p -> SUBSET Definitions(p)]
           /\ s = [mods |-> s.mods, pMods |-> s.pMods]
  BY DEF ReachingStates

(* States with the same entries are the same. *)
LEMMA StatesEqual ==
    ASSUME NEW p, NEW s \in ReachingStates(p), NEW t \in ReachingStates(p),
           \A m \in DOMAIN p : s.mods[m] = t.mods[m] /\ s.pMods[m] = t.pMods[m]
    PROVE  s = t
<1>1. s.mods = t.mods
  BY StateParts
<1>2. s.pMods = t.pMods
  BY StateParts
<1> QED
  BY <1>1, <1>2, StateParts

LEMMA StateMade ==
    ASSUME NEW p, NEW f \in [DOMAIN p -> SUBSET Definitions(p)], NEW g \in [DOMAIN p -> SUBSET Definitions(p)]
    PROVE  [mods |-> f, pMods |-> g] \in ReachingStates(p)
  BY DEF ReachingStates

LEMMA NothingAt ==
    ASSUME NEW p
    PROVE  /\ Nothing(p) \in ReachingStates(p)
           /\ \A m \in DOMAIN p : Nothing(p).mods[m] = {} /\ Nothing(p).pMods[m] = {}
  BY DEF Nothing, ReachingStates

LEMMA JoinAt ==
    ASSUME NEW p, NEW s \in ReachingStates(p), NEW t \in ReachingStates(p)
    PROVE  /\ JoinStates(s, t) \in ReachingStates(p)
           /\ \A m \in DOMAIN p : /\ JoinStates(s, t).mods[m] = s.mods[m] \union t.mods[m]
                                  /\ JoinStates(s, t).pMods[m] = s.pMods[m] \union t.pMods[m]
<1>1. DOMAIN s.mods = DOMAIN p /\ DOMAIN s.pMods = DOMAIN p
  BY StateParts
<1>2. JoinStates(s, t) =
        [mods |-> [m \in DOMAIN p |-> s.mods[m] \union t.mods[m]],
         pMods |-> [m \in DOMAIN p |-> s.pMods[m] \union t.pMods[m]]]
  BY <1>1 DEF JoinStates
<1>3. \A m \in DOMAIN p : s.mods[m] \union t.mods[m] \subseteq Definitions(p)
                       /\ s.pMods[m] \union t.pMods[m] \subseteq Definitions(p)
  BY StateParts
<1> QED
  BY <1>2, <1>3, StateMade

LEMMA SetAt ==
    ASSUME NEW p, NEW s \in ReachingStates(p), NEW M, NEW d \in Definitions(p)
    PROVE  /\ SetModifier(s, M, d) \in ReachingStates(p)
           /\ \A m \in DOMAIN p :
                IF m \in M THEN SetModifier(s, M, d).mods[m] = {d} /\ SetModifier(s, M, d).pMods[m] = {}
                ELSE /\ SetModifier(s, M, d).mods[m] = s.mods[m]
                     /\ SetModifier(s, M, d).pMods[m] = s.pMods[m]
<1>1. DOMAIN s.mods = DOMAIN p /\ DOMAIN s.pMods = DOMAIN p
  BY StateParts
<1>2. SetModifier(s, M, d) =
        [mods  |-> [m \in DOMAIN p |-> IF m \in M THEN {d} ELSE s.mods[m]],
         pMods |-> [m \in DOMAIN p |-> IF m \in M THEN {} ELSE s.pMods[m]]]
  BY <1>1 DEF SetModifier
<1>3. \A m \in DOMAIN p : /\ (IF m \in M THEN {d} ELSE s.mods[m]) \subseteq Definitions(p)
                          /\ (IF m \in M THEN {} ELSE s.pMods[m]) \subseteq Definitions(p)
  BY StateParts
<1> QED
  BY <1>2, <1>3, StateMade

LEMMA AddAt ==
    ASSUME NEW p, NEW s \in ReachingStates(p), NEW M, NEW d \in Definitions(p)
    PROVE  /\ AddPotentialModifier(s, M, d) \in ReachingStates(p)
           /\ \A m \in DOMAIN p :
                /\ AddPotentialModifier(s, M, d).mods[m] = s.mods[m]
                /\ m \in M => AddPotentialModifier(s, M, d).pMods[m] = s.pMods[m] \union {d}
                /\ m \notin M => AddPotentialModifier(s, M, d).pMods[m] = s.pMods[m]
<1>1. DOMAIN s.pMods = DOMAIN p
  BY StateParts
<1>2. AddPotentialModifier(s, M, d) =
        [mods  |-> s.mods,
         pMods |-> [m \in DOMAIN p |-> IF m \in M THEN s.pMods[m] \union {d} ELSE s.pMods[m]]]
  BY <1>1 DEF AddPotentialModifier
<1>3. \A m \in DOMAIN p : (IF m \in M THEN s.pMods[m] \union {d} ELSE s.pMods[m]) \subseteq Definitions(p)
  BY StateParts
<1> QED
  BY <1>2, <1>3, StateMade, StateParts

LEMMA RemoveAt ==
    ASSUME NEW p, NEW s \in ReachingStates(p), NEW M
    PROVE  /\ RemoveModifiers(s, M) \in ReachingStates(p)
           /\ \A m \in DOMAIN p :
                /\ m \in M => RemoveModifiers(s, M).mods[m] = {}
                /\ m \notin M => RemoveModifiers(s, M).mods[m] = s.mods[m]
                /\ RemoveModifiers(s, M).pMods[m] = s.pMods[m]
<1>1. DOMAIN s.mods = DOMAIN p
  BY StateParts
<1>2. RemoveModifiers(s, M) =
        [mods |-> [m \in DOMAIN p |-> IF m \in M THEN {} ELSE s.mods[m]], pMods |-> s.pMods]
  BY <1>1 DEF RemoveModifiers
<1>3. \A m \in DOMAIN p : (IF m \in M THEN {} ELSE s.mods[m]) \subseteq Definitions(p)
  BY StateParts
<1> QED
  BY <1>2, <1>3, StateMade, StateParts

LEMMA RemovePotentialAt ==
    ASSUME NEW p, NEW s \in ReachingStates(p), NEW M
    PROVE  /\ RemovePotentialModifiers(s, M) \in ReachingStates(p)
           /\ \A m \in DOMAIN p :
                /\ RemovePotentialModifiers(s, M).mods[m] = s.mods[m]
                /\ m \in M => RemovePotentialModifiers(s, M).pMods[m] = {}
                /\ m \notin M => RemovePotentialModifiers(s, M).pMods[m] = s.pMods[m]
<1>1. DOMAIN s.pMods = DOMAIN p
  BY StateParts
<1>2. RemovePotentialModifiers(s, M) =
        [mods |-> s.mods, pMods |-> [m \in DOMAIN p |-> IF m \in M THEN {} ELSE s.pMods[m]]]
  BY <1>1 DEF RemovePotentialModifiers
<1>3. \A m \in DOMAIN p : (IF m \in M THEN {} ELSE s.pMods[m]) \subseteq Definitions(p)
  BY StateParts
<1> QED
  BY <1>2, <1>3, StateMade, StateParts

(***************************************************************************)
(* What one operation makes of the joined state j, memref by memref: for   *)
(* those in S it is the modifier, those in C have none, those in P no      *)
(* potential ones, and to those in A it is added as a potential one.       *)
(***************************************************************************)
Acts(p, t, j, o, S, C, P, A) ==
    \A m \in DOMAIN p :
        /\ m \in S => t.mods[m] = {o}
        /\ m \notin S /\ m \in C => t.mods[m] = {}
        /\ m \notin S /\ m \notin C => t.mods[m] = j.mods[m]
        /\ m \in P /\ m \in A => t.pMods[m] = {o}
        /\ m \in P /\ m \notin A => t.pMods[m] = {}
        /\ m \notin P /\ m \in A => t.pMods[m] = j.pMods[m] \union {o}
        /\ m \notin P /\ m \notin A => t.pMods[m] = j.pMods[m]

Sets(p, o, e) ==
    IF e[1] = "Allocate" THEN {e[2]}
    ELSE IF e[1] = "Write" THEN {e[2]} \union MustAlias(p, e[2])
    ELSE {}

Clears(p, o, e) == IF e[1] = "Free" THEN {e[2]} \union MustAlias(p, e[2]) ELSE {}

ClearsPotential(p, o, e) == IF e[1] = "Free" THEN {e[2]} \union MayAlias(p, e[2]) ELSE Sets(p, o, e)

Adds(p, o, e) == IF e[1] = "Write" THEN MayAlias(p, e[2]) ELSE {}

(* One effect acts on a state as Sets, Clears, ClearsPotential and Adds say. *)
LEMMA EffectAt ==
    ASSUME NEW p, NEW s \in ReachingStates(p), NEW o \in DOMAIN p, NEW e
    PROVE  /\ AfterEffect(p, o, s, e) \in ReachingStates(p)
           /\ Acts(p, AfterEffect(p, o, s, e), s, o,
                   Sets(p, o, e), Clears(p, o, e), ClearsPotential(p, o, e), Adds(p, o, e))
<1> DEFINE n == e[2]
           M == {n} \union MustAlias(p, n)
           N == {n} \union MayAlias(p, n)
           A == MayAlias(p, n)
           t == AfterEffect(p, o, s, e)
<1>1. o \in Definitions(p)
  BY DEF Definitions
<1>2. CASE e[1] = "Allocate"
  <2> DEFINE u == SetModifier(s, {n}, o)
  <2>1. t = u
    BY <1>2 DEF AfterEffect
  <2>2. /\ u \in ReachingStates(p)
        /\ \A m \in DOMAIN p :
             IF m \in {n} THEN u.mods[m] = {o} /\ u.pMods[m] = {}
             ELSE u.mods[m] = s.mods[m] /\ u.pMods[m] = s.pMods[m]
    BY <1>1, SetAt
  <2> HIDE DEF u, n
  <2>3. Acts(p, u, s, o, {n}, {}, {n}, {})
    BY <2>2 DEF Acts
  <2>4. /\ Sets(p, o, e) = {n} /\ Clears(p, o, e) = {}
        /\ ClearsPotential(p, o, e) = {n} /\ Adds(p, o, e) = {}
    BY <1>2 DEF Sets, Clears, ClearsPotential, Adds, n
  <2> QED
    BY <2>1, <2>2, <2>3, <2>4
<1>3. CASE e[1] = "Write"
  <2> DEFINE u == SetModifier(s, M, o)
             w == AddPotentialModifier(u, A, o)
  <2>1. t = w
    BY <1>3 DEF AfterEffect
  <2> HIDE DEF n
  <2> HIDE DEF M, A
  <2>2. /\ u \in ReachingStates(p)
        /\ \A m \in DOMAIN p :
             IF m \in M THEN u.mods[m] = {o} /\ u.pMods[m] = {}
             ELSE u.mods[m] = s.mods[m] /\ u.pMods[m] = s.pMods[m]
    BY <1>1, SetAt
  <2> HIDE DEF u
  <2>3. /\ w \in ReachingStates(p)
        /\ \A m \in DOMAIN p :
             /\ w.mods[m] = u.mods[m]
             /\ m \in A => w.pMods[m] = u.pMods[m] \union {o}
             /\ m \notin A => w.pMods[m] = u.pMods[m]
    BY <1>1, <2>2, AddAt
  <2> HIDE DEF w
  <2>4. Acts(p, w, s, o, M, {}, M, A)
    BY <2>2, <2>3 DEF Acts
  <2>5. /\ Sets(p, o, e) = M /\ Clears(p, o, e) = {}
        /\ ClearsPotential(p, o, e) = M /\ Adds(p, o, e) = A
    BY <1>3 DEF Sets, Clears, ClearsPotential, Adds, n, M, A
  <2> QED
    BY <2>1, <2>3, <2>4, <2>5
<1>4. CASE e[1] = "Free"
  <2> DEFINE u == RemoveModifiers(s, M)
             w == RemovePotentialModifiers(u, N)
  <2>1. t = w
    BY <1>4 DEF AfterEffect
  <2> HIDE DEF n
  <2> HIDE DEF M, N
  <2>2. /\ u \in ReachingStates(p)
        /\ \A m \in DOMAIN p :
             /\ m \in M => u.mods[m] = {}
             /\ m \notin M => u.mods[m] = s.mods[m]
             /\ u.pMods[m] = s.pMods[m]
    BY RemoveAt
  <2> HIDE DEF u
  <2>3. /\ w \in ReachingStates(p)
        /\ \A m \in DOMAIN p :
             /\ w.mods[m] = u.mods[m]
             /\ m \in N => w.pMods[m] = {}
             /\ m \notin N => w.pMods[m] = u.pMods[m]
    BY <2>2, RemovePotentialAt
  <2> HIDE DEF w
  <2>4. Acts(p, w, s, o, {}, M, N, {})
    BY <2>2, <2>3 DEF Acts
  <2>5. /\ Sets(p, o, e) = {} /\ Clears(p, o, e) = M
        /\ ClearsPotential(p, o, e) = N /\ Adds(p, o, e) = {}
    BY <1>4 DEF Sets, Clears, ClearsPotential, Adds, n, M, N
  <2> QED
    BY <2>1, <2>3, <2>4, <2>5
<1>5. CASE e[1] \notin {"Allocate", "Write", "Free"}
  <2>1. t = s
    BY <1>5 DEF AfterEffect
  <2>2. Acts(p, s, s, o, {}, {}, {}, {})
    BY DEF Acts
  <2>3. /\ Sets(p, o, e) = {} /\ Clears(p, o, e) = {}
        /\ ClearsPotential(p, o, e) = {} /\ Adds(p, o, e) = {}
    BY <1>5 DEF Sets, Clears, ClearsPotential, Adds
  <2> QED
    BY <2>1, <2>2, <2>3
<1> QED
  BY <1>2, <1>3, <1>4, <1>5

-----------------------------------------------------------------------------
(* An operation that does not reset the state declares one effect, none, or a read and a write. *)
LEMMA EffectsAre ==
    ASSUME NEW p, NEW o, ~Resets(p, o)
    PROVE  \/ Effects(p, o) = <<>>
           \/ \E e : Effects(p, o) = <<e>>
           \/ \E m, n : Effects(p, o) = <<<<"Read", m>>, <<"Write", n>>>>
<1>1. p[o].kind # "recv"
  <2>1. SUFFICES ASSUME p[o].kind = "recv"
                 PROVE  FALSE
    OBVIOUS
  <2>2. Effects(p, o) = <<<<"Write", 0>>, <<"Read", p[o].mem[1]>>>>
    BY <2>1 DEF Effects
  <2>3. 1 \in DOMAIN Effects(p, o) /\ Effects(p, o)[1][2] = 0
    BY <2>2
  <2> QED
    BY <2>3 DEF Resets
<1>2. CASE p[o].kind \in {"bcast", "scatter"}
  BY <1>2 DEF Effects
<1>3. CASE p[o].kind \in {"alloca", "malloc", "load", "store", "free"}
  BY <1>3 DEF Effects
<1>4. CASE p[o].kind \notin {"bcast", "scatter", "alloca", "malloc", "load", "store", "free"}
  BY <1>1, <1>4 DEF Effects
<1> QED
  BY <1>2, <1>3, <1>4

(***************************************************************************)
(* At most one of the effects that are handled changes anything.           *)
(***************************************************************************)
LEMMA HandledEffect ==
    ASSUME NEW p, NEW o, ~Resets(p, o)
    PROVE  \E e : \A s : AfterEffects(p, o, s, EffectsHandled(p, o)) = AfterEffect(p, o, s, e)
<1> DEFINE e == Effects(p, o)
           stops == {i \in DOMAIN e : ~HasUnderlyingValue(p, e[i][2])}
           h == EffectsHandled(p, o)
<1>1. h = IF stops = {} THEN e ELSE SubSeq(e, 1, Min(stops) - 1)
  BY DEF EffectsHandled
<1>2. \A s : AfterEffect(p, o, s, <<"Read", 0>>) = s
  BY DEF AfterEffect
<1>3. \A s, n : AfterEffect(p, o, s, <<"Read", n>>) = s
  BY DEF AfterEffect
<1>4. ASSUME h = <<>> PROVE \A s : AfterEffects(p, o, s, h) = s
  BY <1>4 DEF AfterEffects
<1>5. ASSUME NEW x, Len(h) = 1, h[1] = x PROVE \A s : AfterEffects(p, o, s, h) = AfterEffect(p, o, s, x)
  <2> HIDE DEF h
  <2> QED
    BY <1>5 DEF AfterEffects
<1>6. ASSUME NEW x, NEW y, h = <<x, y>>
      PROVE  \A s : AfterEffects(p, o, s, h) = AfterEffect(p, o, AfterEffect(p, o, s, x), y)
  <2>1. Len(h) = 2 /\ h[1] = x /\ h[2] = y
    BY <1>6
  <2> HIDE DEF h
  <2> QED
    BY <2>1 DEF AfterEffects
<1>7. ASSUME NEW m \in stops, \A n \in stops : n \in Int /\ m <= n, m \in Int
      PROVE  Min(stops) = m
  BY <1>7 DEF Min
<1>8. CASE e = <<>>
  <2>1. h = <<>>
    BY <1>1, <1>8
  <2> QED
    BY <2>1, <1>2, <1>4 DEF h
<1>9. CASE \E x : e = <<x>>
  <2>1. PICK x : e = <<x>>
    BY <1>9
  <2>2. CASE stops = {}
    <3>1. Len(h) = 1 /\ h[1] = x
      BY <1>1, <2>1, <2>2
    <3> QED
      BY <3>1, <1>5 DEF h
  <2>3. CASE stops # {}
    <3>1. stops = {1}
      BY <2>1, <2>3
    <3> HIDE DEF stops
    <3>2. Min(stops) = 1
      BY <3>1, <1>7
    <3>3. h = <<>>
      BY <1>1, <2>1, <2>3, <3>2
    <3> QED
      BY <3>3, <1>2, <1>4 DEF h
  <2> QED
    BY <2>2, <2>3
<1>10. CASE \E m, n : e = <<<<"Read", m>>, <<"Write", n>>>>
  <2>1. PICK m, n : e = <<<<"Read", m>>, <<"Write", n>>>>
    BY <1>10
  <2>2. stops \subseteq {1, 2}
    BY <2>1
  <2>3. CASE stops = {}
    <3>1. h = <<<<"Read", m>>, <<"Write", n>>>>
      BY <1>1, <2>1, <2>3
    <3> HIDE DEF h, e
    <3>2. \A s : AfterEffects(p, o, s, h) = AfterEffect(p, o, AfterEffect(p, o, s, <<"Read", m>>), <<"Write", n>>)
      BY <3>1, <1>6
    <3>3. \A s : AfterEffects(p, o, s, h) = AfterEffect(p, o, s, <<"Write", n>>)
      BY <3>2, <1>3
    <3> QED
      BY <3>3 DEF h
  <2>4. CASE 1 \in stops
    <3>1. \A k \in stops : k \in Int /\ 1 <= k
      BY <2>2
    <3> HIDE DEF stops
    <3>2. Min(stops) = 1
      BY <3>1, <2>4, <1>7
    <3>3. h = <<>>
      BY <1>1, <2>1, <2>4, <3>2
    <3> QED
      BY <3>3, <1>2, <1>4 DEF h
  <2>5. CASE stops = {2}
    <3> HIDE DEF stops
    <3>2. Min(stops) = 2
      BY <2>5, <1>7
    <3>3. h = SubSeq(e, 1, 1)
      BY <1>1, <2>5, <3>2
    <3>4. Len(h) = 1 /\ h[1] = <<"Read", m>>
      <4>1. Len(e) = 2 /\ e[1] = <<"Read", m>> /\ e \in Seq({<<"Read", m>>, <<"Write", n>>})
        BY <2>1
      <4> HIDE DEF e, h
      <4> QED
        BY <4>1, <3>3
    <3> HIDE DEF h, e
    <3> QED
      BY <3>4, <1>5, <1>3, <1>2 DEF h
  <2> QED
    BY <2>2, <2>3, <2>4, <2>5
<1> QED
  BY <1>8, <1>9, <1>10, EffectsAre

(* What a visit of an operation does depends on the operation only. *)
LEMMA TransferAt ==
    ASSUME NEW p, NEW o \in DOMAIN p, DeclaresEffects(p, o), ~Resets(p, o)
    PROVE  \E S, C, P, A : \A b, a \in ReachingStates(p) :
             /\ Transfer(p, o, b, a) \in ReachingStates(p)
             /\ Acts(p, Transfer(p, o, b, a), JoinStates(a, b), o, S, C, P, A)
<1>1. PICK e : \A s : AfterEffects(p, o, s, EffectsHandled(p, o)) = AfterEffect(p, o, s, e)
  BY HandledEffect
<1>2. \A b, a : Transfer(p, o, b, a) = AfterEffect(p, o, JoinStates(a, b), e)
  BY <1>1 DEF Transfer
<1>3. ASSUME NEW b \in ReachingStates(p), NEW a \in ReachingStates(p)
      PROVE  /\ Transfer(p, o, b, a) \in ReachingStates(p)
             /\ Acts(p, Transfer(p, o, b, a), JoinStates(a, b), o,
                     Sets(p, o, e), Clears(p, o, e), ClearsPotential(p, o, e), Adds(p, o, e))
  <2>1. JoinStates(a, b) \in ReachingStates(p)
    BY JoinAt
  <2> QED
    BY <1>2, <2>1, EffectAt
<1> QED
  BY <1>3

LEMMA TransferTyped ==
    ASSUME NEW p, NEW o \in DOMAIN p, NEW b \in ReachingStates(p), NEW a \in ReachingStates(p)
    PROVE  Transfer(p, o, b, a) \in ReachingStates(p)
<1>1. CASE ~DeclaresEffects(p, o)
  BY <1>1 DEF Transfer
<1>2. CASE DeclaresEffects(p, o) /\ Resets(p, o)
  BY <1>2, NothingAt DEF Transfer
<1>3. CASE DeclaresEffects(p, o) /\ ~Resets(p, o)
  BY <1>3, TransferAt
<1> QED
  BY <1>1, <1>2, <1>3

(***************************************************************************)
(* A visit that is repeated with nothing new in front changes nothing.     *)
(***************************************************************************)
LEMMA TransferIdempotent ==
    ASSUME NEW p, NEW o \in DOMAIN p, NEW b \in ReachingStates(p), NEW a \in ReachingStates(p)
    PROVE  Transfer(p, o, b, Transfer(p, o, b, a)) = Transfer(p, o, b, a)
<1>1. CASE ~DeclaresEffects(p, o)
  BY <1>1 DEF Transfer
<1>2. CASE DeclaresEffects(p, o) /\ Resets(p, o)
  BY <1>2 DEF Transfer
<1>3. CASE DeclaresEffects(p, o) /\ ~Resets(p, o)
  <2>1. PICK S, C, P, A : \A x, y \in ReachingStates(p) :
             /\ Transfer(p, o, x, y) \in ReachingStates(p)
             /\ Acts(p, Transfer(p, o, x, y), JoinStates(y, x), o, S, C, P, A)
    BY <1>3, TransferAt
  <2> DEFINE t == Transfer(p, o, b, a)
             u == Transfer(p, o, b, t)
             j == JoinStates(a, b)
             k == JoinStates(t, b)
  <2>2. t \in ReachingStates(p) /\ Acts(p, t, j, o, S, C, P, A)
    BY <2>1
  <2>3. u \in ReachingStates(p) /\ Acts(p, u, k, o, S, C, P, A)
    BY <2>1, <2>2
  <2> HIDE DEF t, u
  <2>4. \A m \in DOMAIN p : j.mods[m] = a.mods[m] \union b.mods[m] /\ j.pMods[m] = a.pMods[m] \union b.pMods[m]
    BY JoinAt
  <2>5. \A m \in DOMAIN p : k.mods[m] = t.mods[m] \union b.mods[m] /\ k.pMods[m] = t.pMods[m] \union b.pMods[m]
    BY <2>2, JoinAt
  <2> HIDE DEF j, k
  <2>6. ASSUME NEW m \in DOMAIN p
        PROVE  u.mods[m] = t.mods[m]
    <3>1. CASE m \in S \/ m \in C
      BY <3>1, <2>2, <2>3 DEF Acts
    <3>2. CASE m \notin S /\ m \notin C
      <4>1. t.mods[m] = j.mods[m] /\ u.mods[m] = k.mods[m]
        BY <3>2, <2>2, <2>3 DEF Acts
      <4> QED
        BY <4>1, <2>4, <2>5
    <3> QED
      BY <3>1, <3>2
  <2>7. ASSUME NEW m \in DOMAIN p
        PROVE  u.pMods[m] = t.pMods[m]
    <3>1. CASE m \in P
      BY <3>1, <2>2, <2>3 DEF Acts
    <3>2. CASE m \notin P /\ m \in A
      <4>1. t.pMods[m] = j.pMods[m] \union {o} /\ u.pMods[m] = k.pMods[m] \union {o}
        BY <3>2, <2>2, <2>3 DEF Acts
      <4> QED
        BY <4>1, <2>4, <2>5
    <3>3. CASE m \notin P /\ m \notin A
      <4>1. t.pMods[m] = j.pMods[m] /\ u.pMods[m] = k.pMods[m]
        BY <3>3, <2>2, <2>3 DEF Acts
      <4> QED
        BY <4>1, <2>4, <2>5
    <3> QED
      BY <3>1, <3>2, <3>3
  <2>8. u = t
    BY <2>2, <2>3, <2>6, <2>7, StatesEqual
  <2> QED
    BY <2>8 DEF u, t
<1> QED
  BY <1>1, <1>2, <1>3

(***************************************************************************)
(* A visit that does not give up and reports nothing has changed nothing.  *)
(***************************************************************************)
LEMMA TransferUnreported ==
    ASSUME NEW p, NEW o \in DOMAIN p, NEW b \in ReachingStates(p), NEW a \in ReachingStates(p),
           ~GivesUp(p, o), ~ReportsChange(p, o, b, a)
    PROVE  Transfer(p, o, b, a) = a
<1>1. CASE ~DeclaresEffects(p, o)
  BY <1>1 DEF Transfer
<1>2. CASE DeclaresEffects(p, o) /\ Resets(p, o)
  <2>1. JoinStates(a, b) = Nothing(p)
    BY <1>2 DEF ReportsChange
  <2>2. \A m \in DOMAIN p : a.mods[m] \union b.mods[m] = {} /\ a.pMods[m] \union b.pMods[m] = {}
    BY <2>1, JoinAt, NothingAt
  <2>3. \A m \in DOMAIN p : a.mods[m] = Nothing(p).mods[m] /\ a.pMods[m] = Nothing(p).pMods[m]
    BY <2>2, NothingAt
  <2>4. a = Nothing(p)
    BY <2>3, NothingAt, StatesEqual
  <2> QED
    BY <1>2, <2>4 DEF Transfer
<1>3. CASE DeclaresEffects(p, o) /\ ~Resets(p, o)
  BY <1>3 DEF ReportsChange
<1> QED
  BY <1>1, <1>2, <1>3

-----------------------------------------------------------------------------
(* The list and what is on it. *)
ToMake == {x \in Visits : IsVisited(x)}

(* The parts of a visit, and which triples are visits. *)
LEMMA VisitParts ==
    ASSUME NEW x \in Visits
    PROVE  /\ x[1] \in {"defs", "uni", "live"} /\ x = <<x[1], x[2], x[3]>>
           /\ <<x[2], x[3]>> \in VisitedPoints(prog)
           /\ x[1] = "uni" => HasValues(prog, <<x[2], x[3]>>)
           /\ x[1] = "live" => x[3] = 0 /\ prog[x[2]].kind \in RegionOps
  BY DEF Visits, MayVisit, VisitedPoints

LEMMA VisitMade ==
    ASSUME WellFormedMemoryProgram(prog), NEW a \in {"defs", "uni", "live"}, NEW pt \in VisitedPoints(prog),
           a = "uni" => HasValues(prog, pt),
           a = "live" => pt[2] = 0 /\ prog[pt[1]].kind \in RegionOps
    PROVE  <<a, pt[1], pt[2]>> \in Visits /\ pt = <<pt[1], pt[2]>>
<1>1. pt \in Points(prog) /\ (pt = MainStart \/ prog[pt[1]].kind \notin Arguments)
  BY DEF VisitedPoints
<1>2. pt = <<pt[1], pt[2]>> /\ pt[1] \in DOMAIN prog \union {0} /\ pt[2] \in 0 .. 2
  <2>1. CASE pt = MainStart
    BY <2>1 DEF MainStart
  <2>2. CASE pt # MainStart
    BY <1>1, <2>2, PointParts, RegionsTyped
  <2> QED
    BY <2>1, <2>2
<1> HIDE DEF WellFormedMemoryProgram
<1>3. MayVisit(<<a, pt[1], pt[2]>>)
  BY <1>1, <1>2 DEF MayVisit
<1> QED
  BY <1>2, <1>3 DEF Visits

(* There are finitely many visits. *)
LEMMA VisitsFinite ==
    ASSUME WellFormedMemoryProgram(prog), NEW V, V \subseteq Visits
    PROVE  V \in SUBSET AnyVisit /\ IsFiniteSet(V)
<1> DEFINE n == Len(prog)
           B == {"defs", "uni", "live"} \X ((0 .. n) \X (0 .. 2))
           W == {"defs", "uni", "live"} \X (0 .. n) \X (0 .. 2)
<1>1. DOMAIN prog \union {0} = 0 .. n /\ n \in Nat
  BY DEF WellFormedMemoryProgram
<1>2. Visits \subseteq W
  BY <1>1 DEF Visits
<1>3. W \subseteq AnyVisit
  BY <1>1 DEF AnyVisit
<1>4. IsFiniteSet(0 .. n) /\ IsFiniteSet(0 .. 2) /\ IsFiniteSet({"defs", "uni", "live"})
  <2>0. 0 \in Int /\ 2 \in Int /\ n \in Int
    BY <1>1
  <2> HIDE DEF n
  <2>1. IsFiniteSet(0 .. n) /\ IsFiniteSet(0 .. 2)
    BY <2>0, FS_Interval, Zenon
  <2>2. IsFiniteSet({}) /\ IsFiniteSet({} \union {"defs"})
    BY FS_EmptySet, FS_AddElement
  <2>3. IsFiniteSet(({} \union {"defs"}) \union {"uni"})
    BY <2>2, FS_AddElement
  <2>4. IsFiniteSet((({} \union {"defs"}) \union {"uni"}) \union {"live"})
    BY <2>3, FS_AddElement
  <2>5. {"defs", "uni", "live"} = (({} \union {"defs"}) \union {"uni"}) \union {"live"}
    OBVIOUS
  <2> QED
    BY <2>1, <2>4, <2>5
<1>5. IsFiniteSet(B)
  BY <1>4, FS_Product
<1> DEFINE f == [b \in B |-> <<b[1], b[2][1], b[2][2]>>]
<1>6. W \subseteq {f[b] : b \in B}
  <2>1. ASSUME NEW x \in W PROVE \E b \in B : f[b] = x
    <3>1. <<x[1], <<x[2], x[3]>>>> \in B
      BY <2>1
    <3>2. f[<<x[1], <<x[2], x[3]>>>>] = x
      BY <2>1, <3>1
    <3> QED BY <3>1, <3>2
  <2> QED BY <2>1
<1>8. IsFiniteSet(W)
  <2>1. PICK s \in Seq(B) : \A b \in B : \E i \in 1 .. Len(s) : s[i] = b
    BY <1>5 DEF IsFiniteSet
  <2> DEFINE w == [i \in 1 .. Len(s) |-> f[s[i]]]
  <2>2. \A b \in B : f[b] \in W
    OBVIOUS
  <2> HIDE DEF B, W, f
  <2>3. w \in Seq(W) /\ Len(w) = Len(s)
    <3>1. \A i \in 1 .. Len(s) : f[s[i]] \in W
      BY <2>2
    <3>2. Len(s) \in Nat
      OBVIOUS
    <3> QED
      BY <3>1, <3>2
  <2>4. ASSUME NEW x \in W PROVE \E i \in 1 .. Len(w) : w[i] = x
    BY <1>6, <2>1, <2>3
  <2> QED
    BY <2>3, <2>4 DEF IsFiniteSet
<1> HIDE DEF W
<1> QED
  BY <1>2, <1>3, <1>8, FS_Subset

(* The elements of a list, of its tail and of what is put behind it. *)
LEMMA ListOf ==
    ASSUME WellFormedMemoryProgram(prog), NEW V, V \subseteq Visits
    PROVE  Ordered(V) \in Seq(V) /\ Range(Ordered(V)) = V
<1>1. V \in SUBSET AnyVisit /\ IsFiniteSet(V)
  BY VisitsFinite
<1> QED
  BY <1>1, OrderedHolds DEF Range

LEMMA ListParts ==
    ASSUME NEW X, NEW q \in Seq(X), NEW w \in Seq(X), q # <<>>
    PROVE  /\ Head(q) \in X /\ Tail(q) \o w \in Seq(X)
           /\ Range(q) = {Head(q)} \union Range(Tail(q))
           /\ Range(Tail(q) \o w) = Range(Tail(q)) \union Range(w)
<1> DEFINE n == Len(q)
           t == Tail(q)
           c == t \o w
<1>1. n \in Nat \ {0} /\ Head(q) = q[1] /\ DOMAIN q = 1 .. n /\ Head(q) \in X
  OBVIOUS
<1>2. t \in Seq(X) /\ Len(t) = n - 1 /\ DOMAIN t = 1 .. (n - 1) /\ \A i \in 1 .. (n - 1) : t[i] = q[i + 1]
  OBVIOUS
<1>3. ASSUME NEW i \in 1 .. n, i # 1 PROVE i - 1 \in 1 .. (n - 1) /\ q[i] = t[i - 1]
  BY <1>1, <1>2, <1>3
<1>4. Range(q) = {q[1]} \union Range(t)
  <2>1. ASSUME NEW x \in Range(q) PROVE x \in {q[1]} \union Range(t)
    <3>1. PICK i \in 1 .. n : x = q[i]
      BY <1>1 DEF Range
    <3> HIDE DEF t
    <3> QED BY <1>2, <1>3, <3>1 DEF Range
  <2>2. ASSUME NEW x \in Range(t) PROVE x \in Range(q)
    <3>1. PICK i \in 1 .. (n - 1) : x = t[i]
      BY <1>2 DEF Range
    <3>2. i + 1 \in 1 .. n
      BY <1>1
    <3> HIDE DEF t
    <3> QED BY <1>1, <1>2, <3>1, <3>2 DEF Range
  <2>3. q[1] \in Range(q)
    BY <1>1 DEF Range
  <2> QED BY <2>1, <2>2, <2>3
<1> HIDE DEF t, n
<1>5. /\ c \in Seq(X) /\ Len(c) = Len(t) + Len(w)
      /\ \A i \in 1 .. Len(t) : c[i] = t[i]
      /\ \A i \in 1 .. Len(w) : c[Len(t) + i] = w[i]
  <2>1. t \in Seq(X) /\ Len(t) \in Nat /\ Len(w) \in Nat
    BY <1>2
  <2>2. /\ c \in Seq(X) /\ Len(c) = Len(t) + Len(w)
        /\ \A i \in 1 .. Len(t) + Len(w) : c[i] = IF i <= Len(t) THEN t[i] ELSE w[i - Len(t)]
    BY <2>1, ConcatProperties
  <2> HIDE DEF c
  <2>3. ASSUME NEW i \in 1 .. Len(t) PROVE c[i] = t[i]
    BY <2>1, <2>2
  <2>4. ASSUME NEW i \in 1 .. Len(w) PROVE c[Len(t) + i] = w[i]
    <3>1. Len(t) + i \in 1 .. Len(t) + Len(w) /\ ~(Len(t) + i <= Len(t)) /\ (Len(t) + i) - Len(t) = i
      BY <2>1
    <3> QED
      BY <2>2, <3>1
  <2> QED
    BY <2>2, <2>3, <2>4
<1>6. DOMAIN c = 1 .. (Len(t) + Len(w)) /\ DOMAIN t = 1 .. Len(t) /\ DOMAIN w = 1 .. Len(w)
      /\ Len(t) \in Nat /\ Len(w) \in Nat
  BY <1>2, <1>5
<1> HIDE DEF c
<1>7. Range(c) = Range(t) \union Range(w)
  <2>1. ASSUME NEW x \in Range(c) PROVE x \in Range(t) \union Range(w)
    <3>1. PICK i \in 1 .. (Len(t) + Len(w)) : x = c[i]
      BY <1>6 DEF Range
    <3>2. CASE i <= Len(t)
      BY <1>5, <1>6, <3>1, <3>2 DEF Range
    <3>3. CASE i > Len(t)
      <4>1. i - Len(t) \in 1 .. Len(w) /\ Len(t) + (i - Len(t)) = i
        BY <1>6, <3>3
      <4>2. x = w[i - Len(t)]
        BY <1>5, <3>1, <4>1
      <4> QED BY <1>6, <4>1, <4>2 DEF Range
    <3> QED BY <1>6, <3>2, <3>3
  <2>2. ASSUME NEW x \in Range(t) PROVE x \in Range(c)
    <3>1. PICK i \in 1 .. Len(t) : x = t[i]
      BY <1>6 DEF Range
    <3>2. i \in 1 .. (Len(t) + Len(w))
      BY <1>6
    <3> QED BY <1>5, <1>6, <3>1, <3>2 DEF Range
  <2>3. ASSUME NEW x \in Range(w) PROVE x \in Range(c)
    <3>1. PICK i \in 1 .. Len(w) : x = w[i]
      BY <1>6 DEF Range
    <3>2. Len(t) + i \in 1 .. (Len(t) + Len(w))
      BY <1>6
    <3> QED BY <1>5, <1>6, <3>1, <3>2 DEF Range
  <2> QED BY <2>1, <2>2, <2>3
<1> QED
  BY <1>1, <1>4, <1>5, <1>7 DEF t, c

-----------------------------------------------------------------------------
(* Kinds. *)
LEMMA JoinKindsTyped ==
    ASSUME NEW a \in Kinds, NEW b \in Kinds
    PROVE  JoinKinds(a, b) \in Kinds
<1>1. CASE a = "none" \/ a = b
  BY <1>1 DEF JoinKinds, Kinds
<1>2. CASE ~(a = "none" \/ a = b) /\ b = "none"
  BY <1>2 DEF JoinKinds, Kinds
<1>3. CASE ~(a = "none" \/ a = b) /\ b # "none"
  BY <1>3 DEF JoinKinds, Kinds
<1> QED
  BY <1>1, <1>2, <1>3

LEMMA JoinAllTyped == ASSUME NEW S PROVE JoinAll(S) \in Kinds
  BY DEF JoinAll, Kinds

LEMMA KindOfTyped == ASSUME NEW V PROVE KindOf(V) \in Kinds
  BY JoinAllTyped DEF KindOf

-----------------------------------------------------------------------------
(* The values an operation uses. *)
LEMMA OperandsTyped ==
    ASSUME NEW p, WellFormedMemoryProgram(p), NEW o \in DOMAIN p
    PROVE  /\ Operands(p, o) \subseteq ValuesUpTo(Len(p))
           /\ {ResultOf(o), IvOf(o), IterOf(o)} \subseteq ValuesUpTo(Len(p))
           /\ Range(p[o].yields) \subseteq ValuesUpTo(Len(p))
           /\ Range(p[o].mem) \subseteq DOMAIN p
<1>1. /\ p[o].uses \in Seq(ValuesUpTo(Len(p))) /\ p[o].yields \in Seq(ValuesUpTo(Len(p)))
      /\ p[o].mem \in Seq(1 .. Len(p)) /\ DOMAIN p = 1 .. Len(p) /\ o \in 1 .. Len(p)
  BY OperationTyped
<1>2. Range(p[o].uses) \subseteq ValuesUpTo(Len(p)) /\ Range(p[o].yields) \subseteq ValuesUpTo(Len(p))
  BY <1>1 DEF Range
<1>3. Range(p[o].mem) \subseteq 1 .. Len(p)
  BY <1>1 DEF Range
<1>4. \A m \in 1 .. Len(p) : {ResultOf(m), IvOf(m), IterOf(m)} \subseteq ValuesUpTo(Len(p))
  BY DEF ResultOf, IvOf, IterOf, ValuesUpTo
<1>5. {ResultOf(m) : m \in Range(p[o].mem)} \subseteq ValuesUpTo(Len(p))
  BY <1>3, <1>4
<1>6. Operands(p, o) \subseteq ValuesUpTo(Len(p))
  BY <1>2, <1>5 DEF Operands
<1>7. {ResultOf(o), IvOf(o), IterOf(o)} \subseteq ValuesUpTo(Len(p))
  BY <1>1, <1>4
<1> QED
  BY <1>1, <1>2, <1>3, <1>6, <1>7

LEMMA UsesTyped ==
    ASSUME NEW p, WellFormedMemoryProgram(p), NEW o \in DOMAIN p, NEW k \in 1 .. Len(p[o].uses)
    PROVE  p[o].uses[k] \in ValuesUpTo(Len(p))
<1>1. p[o].uses \in Seq(ValuesUpTo(Len(p)))
  BY OperationTyped
<1> QED
  BY <1>1

LEMMA ReadByTyped ==
    ASSUME NEW p, WellFormedMemoryProgram(p), NEW o \in DOMAIN p, ~Resets(p, o)
    PROVE  ReadBy(p, o) \subseteq DOMAIN p
<1>1. p[o].kind # "recv"
  <2>1. SUFFICES ASSUME p[o].kind = "recv"
                 PROVE  FALSE
    OBVIOUS
  <2>2. Effects(p, o) = <<<<"Write", 0>>, <<"Read", p[o].mem[1]>>>>
    BY <2>1 DEF Effects
  <2>3. 1 \in DOMAIN Effects(p, o) /\ Effects(p, o)[1][2] = 0
    BY <2>2
  <2> QED
    BY <2>3 DEF Resets
<1>2. HasOperands(p[o]) /\ p[o].mem \in Seq(1 .. Len(p)) /\ DOMAIN p = 1 .. Len(p)
  BY OperationTyped
<1>3. ASSUME NEW i \in DOMAIN Effects(p, o), Effects(p, o)[i][1] = "Read"
      PROVE  Effects(p, o)[i][2] \in DOMAIN p
  <2>1. CASE p[o].kind \in {"bcast", "scatter"}
    <3>1. Effects(p, o) = <<<<"Read", p[o].mem[1]>>, <<"Write", p[o].mem[2]>>>>
      BY <2>1 DEF Effects
    <3>2. Len(p[o].mem) = 2
      BY <1>2, <2>1 DEF HasOperands
    <3>3. p[o].mem[1] \in 1 .. Len(p) /\ p[o].mem[2] \in 1 .. Len(p)
      BY <1>2, <3>2
    <3> QED
      BY <1>2, <3>1, <3>3
  <2>2. CASE p[o].kind = "load"
    <3>1. Effects(p, o) = <<<<"Read", p[o].mem[1]>>>>
      BY <2>2 DEF Effects
    <3>2. Len(p[o].mem) = 1
      BY <1>2, <2>2 DEF HasOperands
    <3>3. p[o].mem[1] \in 1 .. Len(p)
      BY <1>2, <3>2
    <3> QED
      BY <1>2, <3>1, <3>3
  <2>3. CASE p[o].kind \notin {"bcast", "scatter", "load"}
    BY <1>1, <1>3, <2>3 DEF Effects
  <2> QED
    BY <2>1, <2>2, <2>3
<1> QED
  BY <1>3 DEF ReadBy

-----------------------------------------------------------------------------
(* What the regions around an operation and its operands are read for. *)
LEMMA ConditionsTyped ==
    ASSUME WellFormedMemoryProgram(prog), NEW o \in DOMAIN prog
    PROVE  \A b \in Enclosing(o) : /\ b \in DOMAIN prog /\ prog[b].kind \in RegionOps
                                   /\ ConditionOf(b) \subseteq ValuesUpTo(Len(prog))
<1> TAKE b \in Enclosing(o)
<1>1. PICK k \in DOMAIN prog[o].path : b = prog[o].path[k][1]
  BY DEF Enclosing
<1>2. NestedIn(prog, o, k) /\ prog[o].path \in Seq((1 .. Len(prog)) \X {1, 2}) /\ DOMAIN prog = 1 .. Len(prog)
  BY OperationTyped
<1>3. b \in DOMAIN prog /\ prog[b].kind \in RegionOps
  BY <1>1, <1>2 DEF NestedIn
<1>4. /\ prog[b].uses \in Seq(ValuesUpTo(Len(prog))) /\ prog[b].yields \in Seq(ValuesUpTo(Len(prog)))
      /\ HasOperands(prog[b])
  BY <1>3, OperationTyped
<1>5. CASE prog[b].kind = "if"
  <2>1. Len(prog[b].uses) = 1
    BY <1>4, <1>5 DEF HasOperands
  <2>2. prog[b].uses[1] \in ValuesUpTo(Len(prog))
    BY <1>4, <2>1
  <2>3. ConditionOf(b) = {prog[b].uses[1]}
    BY <1>5 DEF ConditionOf
  <2> QED
    BY <1>3, <2>2, <2>3
<1>6. CASE prog[b].kind = "while"
  <2>1. Len(prog[b].yields) = 1
    BY <1>4, <1>6 DEF HasOperands
  <2>2. prog[b].yields[1] \in ValuesUpTo(Len(prog))
    BY <1>4, <2>1
  <2>3. ConditionOf(b) = {prog[b].yields[1]}
    BY <1>6 DEF ConditionOf
  <2> QED
    BY <1>3, <2>2, <2>3
<1>7. CASE prog[b].kind = "for"
  <2>1. ConditionOf(b) = {}
    BY <1>7 DEF ConditionOf
  <2> QED
    BY <1>3, <2>1
<1> QED
  BY <1>3, <1>5, <1>6, <1>7 DEF RegionOps

LEMMA AskedForTyped ==
    ASSUME TypeOKUniformity, NEW D, D \subseteq Definitions(prog)
    PROVE  AskedFor(D) \subseteq ValuesUpTo(Len(prog))
<1>1. WellFormedMemoryProgram(prog)
  BY DEF TypeOKUniformity
<1>2. D \ {InitialDefinition} \subseteq DOMAIN prog
  BY DEF Definitions
<1>3. BranchConditions(D) \subseteq ValuesUpTo(Len(prog))
  BY <1>1, <1>2, ConditionsTyped DEF BranchConditions
<1>4. ModifierOperands(D) \subseteq ValuesUpTo(Len(prog))
  BY <1>1, <1>2, OperandsTyped DEF ModifierOperands
<1> QED
  BY <1>3, <1>4 DEF AskedFor, Missing

LEMMA ModifiersTyped ==
    ASSUME TypeOKUniformity, NEW o \in DOMAIN prog, ~Resets(prog, o)
    PROVE  ModifiersAt(o) \subseteq Definitions(prog)
<1>1. WellFormedMemoryProgram(prog) /\ defs \in [Points(prog) -> ReachingStates(prog)]
  BY DEF TypeOKUniformity
<1>2. defs[<<o, 0>>] \in ReachingStates(prog)
  BY <1>1, PointsAre
<1>3. ReadBy(prog, o) \subseteq DOMAIN prog
  BY <1>1, ReadByTyped
<1>4. \A m \in DOMAIN prog : Modifiers(defs[<<o, 0>>], m) \subseteq Definitions(prog)
  BY <1>2, StateParts DEF Modifiers
<1> QED
  BY <1>3, <1>4 DEF ModifiersAt

LEMMA SubscribedTyped ==
    ASSUME WellFormedMemoryProgram(prog), NEW o \in DOMAIN prog
    PROVE  Subscribed(o) \subseteq ValuesUpTo(Len(prog)) \X Visits
<1>1. Operands(prog, o) \subseteq ValuesUpTo(Len(prog))
  BY OperandsTyped
<1>2. ASSUME NEW v \in Operands(prog, o), NEW u \in UsersOf(v)
      PROVE  <<"uni", u, 0>> \in Visits
  <2>1. u \in DOMAIN prog /\ HasValues(prog, <<u, 0>>)
    BY DEF UsersOf
  <2>2. prog[u].kind \notin Arguments
    BY <2>1 DEF HasValues
  <2>3. <<u, 0>> \in VisitedPoints(prog)
    BY <2>1, <2>2, PointsAre DEF VisitedPoints
  <2> DEFINE pt == <<u, 0>>
  <2>4. pt \in VisitedPoints(prog) /\ HasValues(prog, pt) /\ pt[1] = u /\ pt[2] = 0
    BY <2>1, <2>3
  <2> HIDE DEF pt
  <2> QED
    BY <2>4, VisitMade
<1>3. ASSUME NEW x \in Subscribed(o)
      PROVE  x \in ValuesUpTo(Len(prog)) \X Visits
  <2>1. PICK v \in Operands(prog, o) : x \in {v} \X ({"uni"} \X UsersOf(v) \X {0})
    BY DEF Subscribed
  <2>2. PICK u \in UsersOf(v) : x = <<v, <<"uni", u, 0>>>>
    BY <2>1
  <2> QED
    BY <1>1, <1>2, <2>2
<1> QED
  BY <1>3

(* The region that has to be live for a point to be visited. *)
RegionVisited(pt) == IF pt[2] = 0 THEN RegionAt(prog, pt[1]) ELSE pt

(* The visits a region starts with are visits of points in it. *)
LEMMA RegionVisitsProper ==
    ASSUME WellFormedMemoryProgram(prog), NEW b, NEW r, <<b, r>> \in VisitedPoints(prog), r # 0
    PROVE  /\ VisitsIn(prog, b, r) \subseteq Visits
           /\ \A x \in VisitsIn(prog, b, r) : RegionVisited(<<x[2], x[3]>>) = <<b, r>>
<1> DEFINE rp == <<b, r>>
<1>1. rp \in VisitedPoints(prog) /\ rp \in Points(prog) /\ rp[1] = b /\ rp[2] = r
  BY DEF VisitedPoints
<1>2. ASSUME NEW o \in OpsIn(prog, b, r)
      PROVE  o \in DOMAIN prog /\ <<o, 0>> \in VisitedPoints(prog) /\ RegionAt(prog, o) = <<b, r>>
  <2> HIDE DEF rp
  <2>1. o \in DOMAIN prog /\ prog[o].kind \notin Arguments /\ RegionAt(prog, o) = rp
    BY <1>1, RegionOfOp
  <2>2. <<o, 0>> \in VisitedPoints(prog)
    BY <2>1, PointsAre DEF VisitedPoints
  <2> QED
    BY <2>1, <2>2 DEF rp
<1>3. ASSUME NEW pt \in PointsIn(prog, b, r)
      PROVE  /\ pt \in VisitedPoints(prog) /\ pt = <<pt[1], pt[2]>>
             /\ RegionVisited(pt) = rp
  <2>1. CASE pt = rp
    BY <1>1, <2>1 DEF RegionVisited
  <2>2. CASE pt # rp
    <3>1. PICK o \in OpsIn(prog, b, r) : pt = <<o, 0>>
      BY <2>2 DEF PointsIn
    <3> QED
      BY <1>2, <3>1 DEF RegionVisited
  <2> QED
    BY <2>1, <2>2
<1>4. ASSUME NEW x \in VisitsIn(prog, b, r)
      PROVE  x \in Visits /\ RegionVisited(<<x[2], x[3]>>) = rp
  <2>1. \/ \E pt \in PointsIn(prog, b, r) : x = <<"defs", pt[1], pt[2]>>
        \/ \E pt \in PointsIn(prog, b, r) : x = <<"uni", pt[1], pt[2]>> /\ HasValues(prog, pt)
        \/ \E o \in OpsIn(prog, b, r) : x = <<"live", o, 0>> /\ prog[o].kind \in RegionOps
    BY DEF VisitsIn
  <2> HIDE DEF rp
  <2>2. CASE \E pt \in PointsIn(prog, b, r) : x = <<"defs", pt[1], pt[2]>>
    <3>1. PICK pt \in PointsIn(prog, b, r) : x = <<"defs", pt[1], pt[2]>>
      BY <2>2
    <3>2. pt \in VisitedPoints(prog) /\ pt = <<pt[1], pt[2]>> /\ RegionVisited(pt) = rp
      BY <1>3
    <3>3. x \in Visits
      BY <3>1, <3>2, VisitMade
    <3> QED
      BY <3>1, <3>2, <3>3
  <2>3. CASE \E pt \in PointsIn(prog, b, r) : x = <<"uni", pt[1], pt[2]>> /\ HasValues(prog, pt)
    <3>1. PICK pt \in PointsIn(prog, b, r) : x = <<"uni", pt[1], pt[2]>> /\ HasValues(prog, pt)
      BY <2>3
    <3>2. pt \in VisitedPoints(prog) /\ pt = <<pt[1], pt[2]>> /\ RegionVisited(pt) = rp
      BY <1>3
    <3>3. x \in Visits
      BY <3>1, <3>2, VisitMade
    <3> QED
      BY <3>1, <3>2, <3>3
  <2>4. CASE \E o \in OpsIn(prog, b, r) : x = <<"live", o, 0>> /\ prog[o].kind \in RegionOps
    <3>1. PICK o \in OpsIn(prog, b, r) : x = <<"live", o, 0>> /\ prog[o].kind \in RegionOps
      BY <2>4
    <3> DEFINE pt == <<o, 0>>
    <3>2. pt \in PointsIn(prog, b, r) /\ pt[1] = o /\ pt[2] = 0
      BY DEF PointsIn
    <3>3. x = <<"live", pt[1], pt[2]>> /\ prog[pt[1]].kind \in RegionOps
      BY <3>1, <3>2
    <3> HIDE DEF pt
    <3>4. pt \in VisitedPoints(prog) /\ pt = <<pt[1], pt[2]>> /\ RegionVisited(pt) = rp
      BY <1>3, <3>2
    <3>5. x \in Visits
      BY <3>2, <3>3, <3>4, VisitMade
    <3> QED
      BY <3>3, <3>4, <3>5
  <2> QED
    BY <2>1, <2>2, <2>3, <2>4
<1> QED
  BY <1>4

-----------------------------------------------------------------------------
(* The entry state, and the state of a join. *)
LEMMA EntryTyped ==
    ASSUME NEW p
    PROVE  EntryState(p) \in ReachingStates(p)
<1> DEFINE f == [m \in DOMAIN p |-> IF p[m].kind = "memarg" THEN {InitialDefinition} ELSE {}]
<1>1. f \in [DOMAIN p -> SUBSET Definitions(p)]
  BY DEF Definitions
<1>2. Nothing(p).pMods \in [DOMAIN p -> SUBSET Definitions(p)]
  BY NothingAt, StateParts
<1>3. EntryState(p) = [mods |-> f, pMods |-> Nothing(p).pMods]
  BY DEF EntryState, Nothing
<1> QED
  BY <1>1, <1>2, <1>3, StateMade

LEMMA JoinedAt ==
    ASSUME TypeOKUniformity, NEW pt \in Points(prog), NEW from, from \subseteq Points(prog)
    PROVE  /\ Joined(pt, from) \in ReachingStates(prog)
           /\ \A m \in DOMAIN prog :
                /\ Joined(pt, from).mods[m] = defs[pt].mods[m] \union UNION {defs[q].mods[m] : q \in from}
                /\ Joined(pt, from).pMods[m] = defs[pt].pMods[m] \union UNION {defs[q].pMods[m] : q \in from}
<1>1. defs \in [Points(prog) -> ReachingStates(prog)]
  BY DEF TypeOKUniformity
<1>2. \A q \in Points(prog) : \A m \in DOMAIN prog :
         defs[q].mods[m] \subseteq Definitions(prog) /\ defs[q].pMods[m] \subseteq Definitions(prog)
  BY <1>1, StateParts
<1>3. \A m \in DOMAIN prog :
         /\ defs[pt].mods[m] \union UNION {defs[q].mods[m] : q \in from} \subseteq Definitions(prog)
         /\ defs[pt].pMods[m] \union UNION {defs[q].pMods[m] : q \in from} \subseteq Definitions(prog)
  BY <1>2
<1>4. Joined(pt, from) \in ReachingStates(prog)
  BY <1>3, StateMade DEF Joined
<1> QED
  BY <1>4 DEF Joined

LEMMA SourcesAre ==
    ASSUME TypeOKUniformity, NEW pt \in VisitedPoints(prog)
    PROVE  /\ Sources(pt) \subseteq VisitedPoints(prog) /\ Sources(pt) \subseteq Points(prog)
           /\ ~IsJoin(pt) =>
                /\ pt[1] \in DOMAIN prog /\ pt = <<pt[1], 0>> /\ prog[pt[1]].kind \notin RegionOps
                /\ Sources(pt) = {Before(prog, pt[1])} /\ Before(prog, pt[1]) \in Points(prog)
                /\ StateOf(Sources(pt)) = defs[Before(prog, pt[1])]
                /\ Before(prog, pt[1]) # pt
<1>1. WellFormedMemoryProgram(prog) /\ pt \in Points(prog)
  BY DEF TypeOKUniformity, VisitedPoints
<1>2. Predecessors(prog, pt) \subseteq VisitedPoints(prog) /\ VisitedPoints(prog) \subseteq Points(prog)
  BY <1>1, PredecessorPoints DEF VisitedPoints
<1>3. ASSUME ~IsJoin(pt)
      PROVE  /\ pt[1] \in DOMAIN prog /\ pt = <<pt[1], 0>> /\ prog[pt[1]].kind \notin RegionOps
             /\ Sources(pt) = {Before(prog, pt[1])} /\ Before(prog, pt[1]) \in Points(prog)
             /\ StateOf(Sources(pt)) = defs[Before(prog, pt[1])]
             /\ Before(prog, pt[1]) # pt
  <2>1. pt[2] = 0 /\ prog[pt[1]].kind \notin RegionOps
    BY <1>3 DEF IsJoin
  <2>2. pt # MainStart
    BY <2>1 DEF MainStart
  <2>3. pt[1] \in DOMAIN prog /\ pt = <<pt[1], 0>>
    BY <1>1, <2>1, <2>2, PointParts
  <2>4. Sources(pt) = Predecessors(prog, pt)
    BY <1>3 DEF Sources
  <2>5. Predecessors(prog, <<pt[1], 0>>) = {Before(prog, pt[1])} /\ Before(prog, pt[1]) # <<pt[1], 0>>
    BY <1>1, <2>1, <2>3, OnePredecessor
  <2>6. Sources(pt) = {Before(prog, pt[1])}
    BY <2>3, <2>4, <2>5
  <2>7. StateOf(Sources(pt)) = defs[Before(prog, pt[1])]
    BY <2>6 DEF StateOf
  <2> QED
    BY <1>2, <2>1, <2>3, <2>4, <2>5, <2>6, <2>7
<1> QED
  BY <1>2, <1>3 DEF Sources

(***************************************************************************)
(* The state a visit finds, and the one it leaves.                         *)
(***************************************************************************)
StateAfter(pt) ==
    IF IsJoin(pt) THEN Joined(pt, Sources(pt)) ELSE Transfer(prog, pt[1], StateOf(Sources(pt)), defs[pt])

(* The state a visit leaves is a state. *)
LEMMA StateAfterTyped ==
    ASSUME TypeOKUniformity, NEW pt \in VisitedPoints(prog)
    PROVE  StateAfter(pt) \in ReachingStates(prog)
<1>1. pt \in Points(prog) /\ defs \in [Points(prog) -> ReachingStates(prog)]
  BY DEF TypeOKUniformity, VisitedPoints
<1>2. CASE IsJoin(pt)
  BY <1>1, <1>2, SourcesAre, JoinedAt DEF StateAfter
<1>3. CASE ~IsJoin(pt)
  <2>1. StateOf(Sources(pt)) \in ReachingStates(prog) /\ pt[1] \in DOMAIN prog
    BY <1>1, <1>3, SourcesAre
  <2> QED
    BY <1>1, <1>3, <2>1, TransferTyped DEF StateAfter
<1> QED
  BY <1>2, <1>3

-----------------------------------------------------------------------------
(* What is put on the list. *)
LEMMA EnqueuedTyped ==
    ASSUME TypeOKUniformity, queue # <<>>, NEW V, V \subseteq Visits, NEW X, V \subseteq X, ToMake \subseteq X
    PROVE  /\ Enqueued(V) \in Seq(X)
           /\ Head(queue) \in ToMake
           /\ Range(queue) = {Head(queue)} \union Range(Tail(queue))
           /\ Range(Enqueued(V)) = Range(Tail(queue)) \union V
<1>1. WellFormedMemoryProgram(prog) /\ queue \in Seq(ToMake)
  BY DEF TypeOKUniformity, ToMake
<1>2. Ordered(V) \in Seq(V) /\ Range(Ordered(V)) = V
  BY <1>1, ListOf
<1>3. Ordered(V) \in Seq(X) /\ queue \in Seq(X)
  BY <1>1, <1>2
<1>4. Head(queue) \in ToMake
  BY <1>1
<1> QED
  BY <1>2, <1>3, <1>4, ListParts DEF Enqueued

(* The visits that follow a point are visits of live points. *)
LEMMA FollowersTyped ==
    ASSUME TypeOKUniformity
    PROVE  /\ \A pt : FollowersOf(pt) \subseteq ToMake
           /\ \A V : AskersFor(V) \subseteq ToMake
<1>1. follows \subseteq Points(prog) \X Visits /\ asked \subseteq ValuesUpTo(Len(prog)) \X Visits
  BY DEF TypeOKUniformity
<1>2. ASSUME NEW pt, NEW x \in FollowersOf(pt) PROVE x \in ToMake
  <2>1. IsVisited(x) /\ \E f \in follows : x = f[2]
    BY DEF FollowersOf
  <2> QED
    BY <1>1, <2>1 DEF ToMake
<1>3. ASSUME NEW V, NEW x \in AskersFor(V) PROVE x \in ToMake
  <2>1. IsVisited(x) /\ \E f \in asked : x = f[2]
    BY DEF AskersFor
  <2> QED
    BY <1>1, <2>1 DEF ToMake
<1> QED
  BY <1>2, <1>3

-----------------------------------------------------------------------------
(* The types: initially, and after a step of the solver. *)
LEMMA VisitsKept ==
    ASSUME TypeOKUniformity, prog' = prog, live \subseteq live', NEW x \in ToMake
    PROVE  x \in {y \in Visits' : IsVisited(y)'}
<1>1. Visits' = Visits
  BY DEF Visits, MayVisit, HasValues, HasResult
<1>2. x \in Visits /\ IsVisited(x)
  BY DEF ToMake
<1>3. IsVisited(x)'
  <2>1. IsLive(<<x[2], x[3]>>)
    BY <1>2 DEF IsVisited
  <2>2. IsLive(<<x[2], x[3]>>)'
    BY <2>1 DEF IsLive, RegionAt
  <2> QED
    BY <2>2 DEF IsVisited
<1> QED
  BY <1>1, <1>2, <1>3

(* The types hold at first. *)
LEMMA TypeInit ==
    ASSUME WellFormedMemoryProgram(prog), InitSolver
    PROVE  TypeOKUniformity
<1>1. defs \in [Points(prog) -> ReachingStates(prog)]
  BY EntryTyped, NothingAt DEF InitSolver
<1>2. uni \in [ValuesUpTo(Len(prog)) -> Kinds]
  BY DEF InitSolver, Kinds
<1>3. live \subseteq Points(prog) /\ MainStart \in live
  BY DEF InitSolver, Points
<1>4. queue \in Seq({x \in Visits : IsVisited(x)})
  <2>1. <<0, 1>> \in VisitedPoints(prog)
    BY DEF VisitedPoints, Points, MainStart
  <2>2. VisitsIn(prog, 0, 1) \subseteq Visits /\ \A x \in VisitsIn(prog, 0, 1) : IsVisited(x)
    BY <1>3, <2>1, RegionVisitsProper DEF MainStart, IsVisited, IsLive, RegionVisited
  <2>3. queue \in Seq(VisitsIn(prog, 0, 1))
    BY <2>2, ListOf DEF InitSolver
  <2> QED
    BY <2>2, <2>3
<1>5. follows = {} /\ asked = {} /\ solver = "running"
  BY DEF InitSolver
<1> QED
  BY <1>1, <1>2, <1>3, <1>4, <1>5 DEF TypeOKUniformity

(* The visit that is made is on the list, and of a live point. *)
LEMMA HeadIs ==
    ASSUME TypeOKUniformity, queue # <<>>
    PROVE  LET x == Head(queue) IN
           /\ x \in Visits /\ IsVisited(x) /\ x[1] \in {"defs", "uni", "live"} /\ x = <<x[1], x[2], x[3]>>
           /\ <<x[2], x[3]>> \in VisitedPoints(prog) /\ <<x[2], x[3]>> \in Points(prog)
           /\ x[1] = "uni" => HasValues(prog, <<x[2], x[3]>>)
           /\ x[1] = "live" => x[2] \in DOMAIN prog /\ x[3] = 0 /\ prog[x[2]].kind \in RegionOps
<1>1. Head(queue) \in ToMake
  <2>1. queue \in Seq(ToMake)
    BY DEF TypeOKUniformity, ToMake
  <2> QED BY <2>1
<1> DEFINE x == Head(queue)
           pt == <<x[2], x[3]>>
<1>2. x \in Visits /\ IsVisited(x)
  BY <1>1 DEF ToMake
<1>3. /\ x[1] \in {"defs", "uni", "live"} /\ x = <<x[1], x[2], x[3]>>
      /\ pt \in VisitedPoints(prog)
      /\ x[1] = "uni" => HasValues(prog, pt)
      /\ x[1] = "live" => x[3] = 0 /\ prog[x[2]].kind \in RegionOps
  BY <1>2, VisitParts
<1>4. pt \in Points(prog)
  BY <1>3 DEF VisitedPoints
<1>5. x[1] = "live" => x[2] \in DOMAIN prog
  <2>1. x[1] = "live" => pt # MainStart /\ pt[1] = x[2]
    BY <1>3 DEF MainStart
  <2> QED
    BY <1>4, <2>1, PointParts
<1> QED
  BY <1>2, <1>3, <1>4, <1>5

(* A step of the reaching definition analysis keeps the types. *)
LEMMA TypeVisitDefs ==
    ASSUME TypeOKUniformity, queue # <<>>, VisitDefs
    PROVE  TypeOKUniformity'
<1> DEFINE x == Head(queue)
           pt == <<x[2], x[3]>>
           from == Sources(pt)
           V == IF Reported(pt, from) THEN FollowersOf(pt) ELSE {}
<1>0. prog' = prog /\ uni' = uni /\ live' = live /\ asked' = asked /\ solver' = solver
  BY DEF VisitDefs
<1>1. WellFormedMemoryProgram(prog)' /\ Visits' = Visits /\ ToMake' = ToMake /\ Points(prog)' = Points(prog)
  <2>1. WellFormedMemoryProgram(prog)
    BY DEF TypeOKUniformity
  <2> QED
    BY <1>0, <2>1 DEF WellFormedMemoryProgram, Visits, MayVisit, HasValues, HasResult, ToMake, IsVisited, IsLive, RegionAt
<1>2. pt \in VisitedPoints(prog) /\ x \in Visits /\ pt \in Points(prog)
  BY HeadIs
<1>3. defs' = [defs EXCEPT ![pt] = StateAfter(pt)]
  BY DEF VisitDefs, StateAfter
<1>4. defs' \in [Points(prog) -> ReachingStates(prog)]
  BY <1>2, <1>3, StateAfterTyped DEF TypeOKUniformity
<1>5. follows' \subseteq Points(prog) \X Visits
  <2>1. from \subseteq Points(prog)
    BY <1>2, SourcesAre
  <2>2. follows' = follows \union {<<q, x>> : q \in from}
    BY DEF VisitDefs
  <2> HIDE DEF from, x
  <2>3. {<<q, x>> : q \in from} \subseteq Points(prog) \X Visits
    BY <1>2, <2>1
  <2> QED
    BY <2>2, <2>3 DEF TypeOKUniformity
<1>6. queue' \in Seq(ToMake)
  <2>1. V \subseteq ToMake /\ ToMake \subseteq Visits
    BY FollowersTyped DEF ToMake
  <2>2. queue' = Enqueued(V)
    BY DEF VisitDefs
  <2> HIDE DEF V
  <2> QED
    BY <2>1, <2>2, EnqueuedTyped
<1>7. uni \in [ValuesUpTo(Len(prog)) -> Kinds] /\ live \subseteq Points(prog)
      /\ asked \subseteq ValuesUpTo(Len(prog)) \X Visits /\ solver \in {"running", "unreachable"}
  BY DEF TypeOKUniformity
<1> QED
  BY <1>0, <1>1, <1>4, <1>5, <1>6, <1>7 DEF TypeOKUniformity, ToMake

(* So does one that makes regions live. *)
LEMMA TypeGoLive ==
    ASSUME TypeOKUniformity, queue # <<>>, GoLive
    PROVE  TypeOKUniformity'
<1> PICK o : o = Head(queue)[2]
  OBVIOUS
<1> DEFINE new == {<<o, r>> : r \in Regions(prog, o)}
           W == {<<"defs", o, 0>>} \union (IF HasResult(prog, o) THEN {<<"uni", o, 0>>} ELSE {})
           R == UNION {VisitsIn(prog, o, r) : r \in Regions(prog, o)}
           X == {y \in Visits : IsVisited(y)'}
<1>0. prog' = prog /\ uni' = uni /\ defs' = defs /\ follows' = follows /\ asked' = asked /\ solver' = solver
  BY DEF GoLive
<1>1. WellFormedMemoryProgram(prog) /\ WellFormedMemoryProgram(prog)' /\ Visits' = Visits /\ Points(prog)' = Points(prog)
  <2>1. WellFormedMemoryProgram(prog)
    BY DEF TypeOKUniformity
  <2> QED
    BY <1>0, <2>1 DEF WellFormedMemoryProgram, Visits, MayVisit, HasValues, HasResult
<1>2. o \in DOMAIN prog /\ prog[o].kind \in RegionOps /\ IsVisited(Head(queue)) /\ Head(queue) = <<"live", o, 0>>
      /\ <<o, 0>> \in VisitedPoints(prog)
  BY HeadIs, Zenon DEF GoLive
<1>3. live' = live \union new
  BY DEF GoLive
<1>4. new \subseteq Points(prog) /\ \A r \in Regions(prog, o) : <<o, r>> \in VisitedPoints(prog) /\ r # 0
  <2>1. \A r \in Regions(prog, o) : <<o, r>> \in Points(prog)
    BY <1>2, PointsAre
  <2>2. prog[o].kind \notin Arguments
    BY <1>2 DEF RegionOps, Arguments
  <2> QED
    BY <2>1, <2>2, RegionsTyped DEF VisitedPoints
<1>5. ToMake \subseteq X
  BY <1>0, <1>1, <1>3, VisitsKept
<1>6. R \subseteq X
  <2>1. ASSUME NEW r \in Regions(prog, o) PROVE VisitsIn(prog, o, r) \subseteq X
    <3>1. /\ VisitsIn(prog, o, r) \subseteq Visits
          /\ \A x \in VisitsIn(prog, o, r) : RegionVisited(<<x[2], x[3]>>) = <<o, r>>
      BY <1>1, <1>4, RegionVisitsProper
    <3>2. \A x \in VisitsIn(prog, o, r) : IsVisited(x)'
      BY <1>0, <1>3, <3>1 DEF RegionVisited, IsVisited, IsLive, RegionAt
    <3> QED
      BY <3>1, <3>2
  <2> QED
    BY <2>1
<1>7. W \subseteq X
  <2> DEFINE pt == <<o, 0>>
  <2>1. pt \in VisitedPoints(prog) /\ pt[1] = o /\ pt[2] = 0
    BY <1>2
  <2>2. HasResult(prog, o) => HasValues(prog, pt)
    BY <1>2 DEF HasValues, RegionOps, Arguments
  <2> HIDE DEF pt
  <2>3. <<"defs", o, 0>> \in Visits /\ (HasResult(prog, o) => <<"uni", o, 0>> \in Visits)
    BY <1>1, <2>1, <2>2, VisitMade
  <2>4. IsLive(<<o, 0>>)
    BY <1>2 DEF IsVisited
  <2>5. IsLive(<<o, 0>>)'
    BY <1>0, <1>3, <2>4 DEF IsLive, RegionAt
  <2>6. IsVisited(<<"defs", o, 0>>)' /\ IsVisited(<<"uni", o, 0>>)'
    BY <2>5 DEF IsVisited
  <2> QED
    BY <2>3, <2>6
<1>8. queue' \in Seq(X)
  <2>1. queue' = Enqueued(W \union R)
    BY DEF GoLive
  <2>2. X \subseteq Visits
    OBVIOUS
  <2> HIDE DEF W, R, X
  <2>3. W \union R \subseteq Visits /\ W \union R \subseteq X
    BY <1>6, <1>7, <2>2
  <2> QED
    BY <1>5, <2>1, <2>3, EnqueuedTyped
<1>9. uni \in [ValuesUpTo(Len(prog)) -> Kinds] /\ live \subseteq Points(prog) /\ follows \subseteq Points(prog) \X Visits
      /\ defs \in [Points(prog) -> ReachingStates(prog)]
      /\ asked \subseteq ValuesUpTo(Len(prog)) \X Visits /\ solver \in {"running", "unreachable"}
  BY DEF TypeOKUniformity
<1>10. live' \subseteq Points(prog)
  BY <1>3, <1>4, <1>9
<1>11. queue' \in Seq({y \in Visits : IsVisited(y)})'
  BY <1>1, <1>8
<1> HIDE DEF X
<1> QED
  BY <1>0, <1>1, <1>9, <1>10, <1>11 DEF TypeOKUniformity

(* And a visit of the uniformity analysis that sets kinds, whatever it has read. *)
LEMMA TypeSetUniformity ==
    ASSUME TypeOKUniformity, queue # <<>>, NEW new, NEW reads,
           SetUniformity(new, reads),
           \A v \in DOMAIN new : new[v] \in Kinds,
           reads \subseteq ValuesUpTo(Len(prog)) \X Visits,
           follows' \subseteq Points(prog) \X Visits
    PROVE  TypeOKUniformity'
<1>0. prog' = prog /\ live' = live /\ defs' = defs /\ solver' = solver
  BY DEF SetUniformity
<1>1. WellFormedMemoryProgram(prog)' /\ Visits' = Visits /\ ToMake' = ToMake /\ Points(prog)' = Points(prog)
  <2>1. WellFormedMemoryProgram(prog)
    BY DEF TypeOKUniformity
  <2> QED
    BY <1>0, <2>1 DEF WellFormedMemoryProgram, Visits, MayVisit, HasValues, HasResult, ToMake, IsVisited, IsLive, RegionAt
<1>2. uni' \in [ValuesUpTo(Len(prog)) -> Kinds]
  <2>1. uni' = [v \in DOMAIN uni |-> IF v \in DOMAIN new THEN JoinKinds(uni[v], new[v]) ELSE uni[v]]
    BY DEF SetUniformity
  <2>2. uni \in [ValuesUpTo(Len(prog)) -> Kinds]
    BY DEF TypeOKUniformity
  <2>3. \A v \in ValuesUpTo(Len(prog)) : (IF v \in DOMAIN new THEN JoinKinds(uni[v], new[v]) ELSE uni[v]) \in Kinds
    BY <2>2, JoinKindsTyped
  <2> QED
    BY <2>1, <2>2, <2>3
<1>3. asked' \subseteq ValuesUpTo(Len(prog)) \X Visits
  BY DEF SetUniformity, TypeOKUniformity
<1>4. queue' \in Seq(ToMake)
  <2> DEFINE V == AskersFor({v \in DOMAIN uni : uni'[v] # uni[v]})
  <2>1. V \subseteq ToMake /\ ToMake \subseteq Visits
    BY FollowersTyped DEF ToMake
  <2>2. queue' = Enqueued(V)
    BY DEF SetUniformity
  <2> HIDE DEF V
  <2> QED
    BY <2>1, <2>2, EnqueuedTyped
<1>5. /\ live \subseteq Points(prog) /\ defs \in [Points(prog) -> ReachingStates(prog)]
      /\ solver \in {"running", "unreachable"}
  BY DEF TypeOKUniformity
<1>6. (queue \in Seq({x \in Visits : IsVisited(x)}))'
  BY <1>1, <1>4 DEF ToMake
<1>7. /\ (defs \in [Points(prog) -> ReachingStates(prog)])' /\ (uni \in [ValuesUpTo(Len(prog)) -> Kinds])'
      /\ (live \subseteq Points(prog))' /\ (follows \subseteq Points(prog) \X Visits)'
      /\ (asked \subseteq ValuesUpTo(Len(prog)) \X Visits)' /\ (solver \in {"running", "unreachable"})'
  BY <1>0, <1>1, <1>2, <1>3, <1>5
<1> QED
  BY <1>1, <1>6, <1>7, Zenon DEF TypeOKUniformity

(* What is known of a visit of the uniformity analysis. *)
LEMMA UniVisit ==
    ASSUME TypeOKUniformity, queue # <<>>, NEW o, NEW r, Visiting("uni", o, r)
    PROVE  /\ o \in DOMAIN prog /\ HasValues(prog, <<o, r>>) /\ Head(queue) = <<"uni", o, r>>
           /\ <<o, r>> \in Points(prog) /\ Head(queue) \in Visits
           /\ prog[o].kind \notin Arguments
           /\ WellFormedMemoryProgram(prog)
           /\ r = 0 => HasResult(prog, o)
           /\ r # 0 => prog[o].kind = "for" /\ r = 1
<1> DEFINE x == Head(queue)
<1>1. x = <<"uni", o, r>>
  BY DEF Visiting
<1>2. x \in Visits /\ <<x[2], x[3]>> \in VisitedPoints(prog) /\ HasValues(prog, <<x[2], x[3]>>)
  BY <1>1, HeadIs
<1>3. <<o, r>> \in VisitedPoints(prog) /\ HasValues(prog, <<o, r>>) /\ x \in Visits
  BY <1>1, <1>2
<1>4. <<o, r>> # MainStart
  BY <1>3 DEF HasValues, MainStart
<1>5. o \in DOMAIN prog /\ <<o, r>> \in Points(prog) /\ prog[o].kind \notin Arguments
  BY <1>3, <1>4, PointParts DEF VisitedPoints
<1>6. /\ r = 0 => HasResult(prog, o)
      /\ r # 0 => prog[o].kind = "for" /\ r = 1
  BY <1>3 DEF HasValues
<1> QED
  BY <1>1, <1>3, <1>5, <1>6 DEF TypeOKUniformity

(* The visits of the uniformity analysis, one after the other. *)
LEMMA TypeVisitResult ==
    ASSUME TypeOKUniformity, queue # <<>>, NEW o \in DOMAIN prog, VisitResult(o)
    PROVE  TypeOKUniformity'
<1> DEFINE new == [v \in {ResultOf(o)} |-> ResultKind(o)]
<1>1. SetUniformity(new, Subscribed(o)) /\ follows' = follows
  BY DEF VisitResult
<1>2. WellFormedMemoryProgram(prog) /\ follows \subseteq Points(prog) \X Visits
  BY DEF TypeOKUniformity
<1>3. ResultKind(o) \in Kinds
  BY KindOfTyped DEF ResultKind, Kinds
<1>4. \A v \in DOMAIN new : new[v] \in Kinds
  BY <1>3
<1>5. Subscribed(o) \subseteq ValuesUpTo(Len(prog)) \X Visits
  BY <1>2, SubscribedTyped
<1> HIDE DEF new
<1> QED
  BY <1>1, <1>2, <1>4, <1>5, TypeSetUniformity

LEMMA ReadKindTyped == ASSUME NEW D PROVE ReadKind(D) \in Kinds
<1>1. KindOf(BranchConditions(D)) \in Kinds /\ JoinAll({"Uniform"} \union {ModifierKind(d) : d \in Handled(D)}) \in Kinds
  BY KindOfTyped, JoinAllTyped
<1> QED
  BY <1>1 DEF ReadKind, Kinds

LEMMA TypeVisitRead ==
    ASSUME TypeOKUniformity, queue # <<>>, NEW o \in DOMAIN prog, VisitRead(o)
    PROVE  TypeOKUniformity'
<1> DEFINE D == ModifiersAt(o)
           new == [v \in {ResultOf(o)} |-> ReadKind(D)]
           reads == Subscribed(o) \union (AskedFor(D) \X {Head(queue)})
<1>1. SetUniformity(new, reads) /\ follows' = follows \union {<<<<o, 0>>, Head(queue)>>}
  BY DEF VisitRead
<1>2. Visiting("uni", o, 0) /\ ~Resets(prog, o)
  BY DEF VisitRead, Reads
<1>3. WellFormedMemoryProgram(prog) /\ Head(queue) \in Visits /\ <<o, 0>> \in Points(prog)
  BY <1>2, UniVisit
<1>4. \A v \in DOMAIN new : new[v] \in Kinds
  <2> HIDE DEF D
  <2> QED BY ReadKindTyped
<1>5. reads \subseteq ValuesUpTo(Len(prog)) \X Visits
  <2>1. D \subseteq Definitions(prog)
    BY <1>2, ModifiersTyped
  <2> HIDE DEF D
  <2>2. AskedFor(D) \subseteq ValuesUpTo(Len(prog))
    BY <2>1, AskedForTyped
  <2>3. Subscribed(o) \subseteq ValuesUpTo(Len(prog)) \X Visits
    BY <1>3, SubscribedTyped
  <2> QED
    BY <1>3, <2>2, <2>3
<1>6. follows' \subseteq Points(prog) \X Visits
  BY <1>1, <1>3 DEF TypeOKUniformity
<1> HIDE DEF new, reads
<1> QED
  BY <1>1, <1>4, <1>5, <1>6, TypeSetUniformity

LEMMA IncomingTyped ==
    ASSUME WellFormedMemoryProgram(prog), NEW o \in DOMAIN prog
    PROVE  Incoming(o) \subseteq ValuesUpTo(Len(prog))
<1>1. Range(prog[o].yields) \subseteq ValuesUpTo(Len(prog))
  BY OperandsTyped
<1>2. prog[o].uses \in Seq(ValuesUpTo(Len(prog)))
  BY OperationTyped
<1>3. \A k \in 3 .. Len(prog[o].uses) : prog[o].uses[k] \in ValuesUpTo(Len(prog))
  BY <1>2
<1> QED
  BY <1>1, <1>3 DEF Incoming

LEMMA TypeVisitRegionResult ==
    ASSUME TypeOKUniformity, queue # <<>>, NEW o \in DOMAIN prog, VisitRegionResult(o)
    PROVE  TypeOKUniformity'
<1> DEFINE old    == uni[ResultOf(o)]
           joined == JoinKinds(old, JoinAll({uni[v] : v \in KnownIncoming(o)}))
           kind   == IF joined = old THEN old ELSE OnUpdate(o, joined)
           new    == [v \in {ResultOf(o)} |-> kind]
           reads  == KnownIncoming(o) \X {Head(queue)}
<1>1. SetUniformity(new, reads) /\ follows' = follows
  BY DEF VisitRegionResult
<1>2. Visiting("uni", o, 0) /\ prog[o].kind \in RegionOps
  BY DEF VisitRegionResult
<1>3. WellFormedMemoryProgram(prog) /\ Head(queue) \in Visits /\ HasResult(prog, o)
  BY <1>2, UniVisit
<1>4. uni \in [ValuesUpTo(Len(prog)) -> Kinds] /\ ResultOf(o) \in ValuesUpTo(Len(prog))
  BY <1>3, OperandsTyped DEF TypeOKUniformity
<1>5. prog[o].uses[1] \in ValuesUpTo(Len(prog))
  <2>1. prog[o].kind \in {"if", "for"}
    BY <1>2, <1>3 DEF HasResult, RegionOps, ValueOps, MemrefOps, CallOps
  <2>2. HasOperands(prog[o]) /\ prog[o].uses \in Seq(ValuesUpTo(Len(prog))) /\ prog[o].yields \in Seq(ValuesUpTo(Len(prog)))
    BY <1>3, OperationTyped
  <2>3. Len(prog[o].uses) \in Nat /\ Len(prog[o].yields) \in Nat
    BY <2>2
  <2>4. Len(prog[o].uses) = 1 \/ Len(prog[o].uses) = 2 + Len(prog[o].yields)
    BY <2>1, <2>2 DEF HasOperands
  <2>5. 1 \in 1 .. Len(prog[o].uses)
    <3> DEFINE n == Len(prog[o].uses)
               k == Len(prog[o].yields)
    <3>1. n \in Nat /\ k \in Nat /\ (n = 1 \/ n = 2 + k)
      BY <2>3, <2>4
    <3> HIDE DEF n, k
    <3>2. 1 \in 1 .. n
      BY <3>1
    <3> QED
      BY <3>2 DEF n
  <2> QED
    BY <1>3, <2>5, UsesTyped
<1>6. old \in Kinds /\ joined \in Kinds
  <2>1. old \in Kinds
    BY <1>4
  <2> HIDE DEF old
  <2> QED
    BY <2>1, JoinAllTyped, JoinKindsTyped
<1>7. OnUpdate(o, joined) \in Kinds
  <2> HIDE DEF joined
  <2> QED
    BY <1>4, <1>5, <1>6, JoinKindsTyped DEF OnUpdate
<1>8. kind \in Kinds
  <2> HIDE DEF joined, old
  <2> QED
    BY <1>6, <1>7
<1>9. \A v \in DOMAIN new : new[v] \in Kinds
  <2> HIDE DEF kind
  <2> QED
    BY <1>8
<1>10. reads \subseteq ValuesUpTo(Len(prog)) \X Visits
  BY <1>3, IncomingTyped DEF KnownIncoming
<1>11. follows' \subseteq Points(prog) \X Visits
  BY <1>1 DEF TypeOKUniformity
<1> HIDE DEF new, reads
<1> QED
  BY <1>1, <1>9, <1>10, <1>11, TypeSetUniformity

LEMMA TypeVisitForBody ==
    ASSUME TypeOKUniformity, queue # <<>>, NEW o \in DOMAIN prog, VisitForBody(o)
    PROVE  TypeOKUniformity'
<1> DEFINE new == [v \in ArgumentsOf(o) |-> IF v = IvOf(o) THEN BoundsKind(o) ELSE JoinAll({uni[w] : w \in Incoming(o)})]
           reads == Incoming(o) \X {Head(queue)}
<1>1. SetUniformity(new, reads) /\ follows' = follows
  BY DEF VisitForBody
<1>2. Visiting("uni", o, 1)
  BY DEF VisitForBody
<1>3. WellFormedMemoryProgram(prog) /\ Head(queue) \in Visits
  BY <1>2, UniVisit
<1>4. BoundsKind(o) \in Kinds
  BY KindOfTyped DEF BoundsKind, Kinds
<1>5. \A v \in DOMAIN new : new[v] \in Kinds
  BY <1>4, JoinAllTyped
<1>6. reads \subseteq ValuesUpTo(Len(prog)) \X Visits
  BY <1>3, IncomingTyped
<1>7. follows' \subseteq Points(prog) \X Visits
  BY <1>1 DEF TypeOKUniformity
<1> HIDE DEF new, reads
<1> QED
  BY <1>1, <1>5, <1>6, <1>7, TypeSetUniformity

LEMMA TypeUnreachable ==
    ASSUME TypeOKUniformity, NEW o, ReadUnreachable(o)
    PROVE  TypeOKUniformity'
<1>1. solver' = "unreachable" /\ UNCHANGED <<prog, defs, uni, live, queue, follows, asked>>
  BY DEF ReadUnreachable
<1>2. WellFormedMemoryProgram(prog)
  BY DEF TypeOKUniformity
<1>3. WellFormedMemoryProgram(prog)' /\ Visits' = Visits /\ ToMake' = ToMake /\ Points(prog)' = Points(prog)
  BY <1>1, <1>2 DEF WellFormedMemoryProgram, Visits, MayVisit, HasValues, HasResult, ToMake, IsVisited, IsLive, RegionAt
<1> QED
  BY <1>1, <1>3 DEF TypeOKUniformity, ToMake

LEMMA TypeStutter ==
    ASSUME TypeOKUniformity, UNCHANGED solverVars
    PROVE  TypeOKUniformity'
<1>1. UNCHANGED <<solver, prog, defs, uni, live, queue, follows, asked>>
  BY DEF solverVars
<1>2. WellFormedMemoryProgram(prog)
  BY DEF TypeOKUniformity
<1>3. WellFormedMemoryProgram(prog)' /\ Visits' = Visits /\ ToMake' = ToMake /\ Points(prog)' = Points(prog)
  BY <1>1, <1>2 DEF WellFormedMemoryProgram, Visits, MayVisit, HasValues, HasResult, ToMake, IsVisited, IsLive, RegionAt
<1> QED
  BY <1>1, <1>3 DEF TypeOKUniformity, ToMake

(* Every step keeps the types. *)
LEMMA TypeNext ==
    ASSUME TypeOKUniformity, [NextSolver]_solverVars
    PROVE  TypeOKUniformity'
<1>1. CASE UNCHANGED solverVars
  BY <1>1, TypeStutter
<1>2. CASE NextSolver
  <2>1. queue # <<>>
    BY <1>2 DEF NextSolver
  <2>2. CASE VisitDefs
    BY <2>1, <2>2, TypeVisitDefs
  <2>3. CASE GoLive
    BY <2>1, <2>3, TypeGoLive
  <2>4. ASSUME NEW o \in DOMAIN prog,
               VisitResult(o) \/ VisitRead(o) \/ ReadUnreachable(o) \/ VisitRegionResult(o) \/ VisitForBody(o)
        PROVE  TypeOKUniformity'
    BY <2>1, <2>4, TypeVisitResult, TypeVisitRead, TypeUnreachable, TypeVisitRegionResult, TypeVisitForBody
  <2> QED
    BY <1>2, <2>2, <2>3, <2>4 DEF NextSolver
<1> QED
  BY <1>1, <1>2

(***************************************************************************)
(* Every state the solver reaches has its types, whatever the program:     *)
(* uniformity is kept for values of the program and reaching definitions   *)
(* for operations of it, and no visit is on the list whose point is not in *)
(* a live region, so that no analysis looks at a state that has not been   *)
(* set up (DataFlowSolver::run and initializeRecursively of the analyses). *)
(***************************************************************************)
THEOREM TypeCorrectUniformity == SpecSolver => []TypeOKUniformity
<1>1. WellFormedMemoryProgram(prog) /\ InitSolver => TypeOKUniformity
  BY TypeInit
<1>2. TypeOKUniformity /\ [NextSolver]_solverVars => TypeOKUniformity'
  BY TypeNext
<1> QED
  BY <1>1, <1>2, PTL DEF SpecSolver

-----------------------------------------------------------------------------
(* The invariant: what is not on the list has nothing to do. *)
DefsVisit(pt) == <<"defs", pt[1], pt[2]>>

NeverGivesUp == \A o \in DOMAIN prog : ~GivesUp(prog, o)

Done(pt) ==
    /\ StateAfter(pt) = defs[pt]
    /\ \A q \in Sources(pt) : <<q, DefsVisit(pt)>> \in follows

DefsInv == \A pt \in VisitedPoints(prog) : IsLive(pt) => DefsVisit(pt) \in Range(queue) \/ Done(pt)

(* The points of one region. *)
LEMMA PointInRegion ==
    ASSUME WellFormedMemoryProgram(prog), NEW pt \in VisitedPoints(prog), NEW b, NEW r,
           RegionVisited(pt) = <<b, r>>
    PROVE  pt \in PointsIn(prog, b, r) /\ DefsVisit(pt) \in VisitsIn(prog, b, r)
<1>1. pt \in PointsIn(prog, b, r)
  <2>1. CASE pt[2] = 0
    <3>1. pt # MainStart
      BY <2>1 DEF MainStart
    <3>2. pt[1] \in DOMAIN prog /\ pt = <<pt[1], 0>> /\ prog[pt[1]].kind \notin Arguments
      BY <2>1, <3>1, PointParts DEF VisitedPoints
    <3>3. pt[1] \in OpsIn(prog, RegionAt(prog, pt[1])[1], RegionAt(prog, pt[1])[2])
      BY <3>2, RegionPoint
    <3>4. RegionAt(prog, pt[1]) = <<b, r>>
      BY <2>1 DEF RegionVisited
    <3>5. pt[1] \in OpsIn(prog, b, r)
      BY <3>3, <3>4
    <3> QED
      BY <3>2, <3>5 DEF PointsIn
  <2>2. CASE pt[2] # 0
    BY <2>2 DEF RegionVisited, PointsIn
  <2> QED
    BY <2>1, <2>2
<1> QED
  BY <1>1 DEF VisitsIn, DefsVisit

(* At first the start of @main is the one live region, and it is on the list. *)
LEMMA DefsInvInit ==
    ASSUME WellFormedMemoryProgram(prog), InitSolver
    PROVE  DefsInv
<1> SUFFICES ASSUME NEW pt \in VisitedPoints(prog), IsLive(pt)
             PROVE  DefsVisit(pt) \in Range(queue)
  BY DEF DefsInv
<1>1. RegionVisited(pt) = <<0, 1>>
  BY DEF IsLive, RegionVisited, InitSolver, MainStart
<1>2. DefsVisit(pt) \in VisitsIn(prog, 0, 1)
  BY <1>1, PointInRegion
<1>3. <<0, 1>> \in VisitedPoints(prog)
  BY DEF VisitedPoints, Points, MainStart
<1>4. VisitsIn(prog, 0, 1) \subseteq Visits
  BY <1>3, RegionVisitsProper
<1>5. Range(Ordered(VisitsIn(prog, 0, 1))) = VisitsIn(prog, 0, 1)
  BY <1>4, ListOf
<1> QED
  BY <1>2, <1>5 DEF InitSolver

(* What a visit would leave is the same as long as nothing it reads has changed. *)
LEMMA StateAfterKept ==
    ASSUME UNCHANGED <<prog, defs, live>>, NEW pt
    PROVE  Sources(pt)' = Sources(pt) /\ StateAfter(pt)' = StateAfter(pt)
  BY DEF StateAfter, IsJoin, Joined, Sources, StateOf, Entered

(* A visit of the other kinds. *)
LEMMA DefsInvOther ==
    ASSUME TypeOKUniformity, DefsInv, queue # <<>>, UNCHANGED <<prog, defs, live>>,
           follows \subseteq follows', Head(queue)[1] # "defs",
           NEW V, V \subseteq ToMake, queue' = Enqueued(V)
    PROVE  DefsInv'
<1>1. V \subseteq Visits /\ ToMake \subseteq Visits
  BY DEF ToMake
<1>2. /\ Range(queue) = {Head(queue)} \union Range(Tail(queue))
      /\ Range(queue') = Range(Tail(queue)) \union V
  BY <1>1, EnqueuedTyped
<1>3. VisitedPoints(prog)' = VisitedPoints(prog)
  OBVIOUS
<1>4. ASSUME NEW pt \in VisitedPoints(prog), IsLive(pt)'
      PROVE  DefsVisit(pt) \in Range(queue') \/ Done(pt)'
  <2>1. IsLive(pt)
    BY <1>4 DEF IsLive
  <2>2. DefsVisit(pt) # Head(queue)
    BY DEF DefsVisit
  <2>3. CASE DefsVisit(pt) \in Range(queue)
    BY <1>2, <2>2, <2>3
  <2>4. CASE Done(pt)
    BY <2>4 DEF Done, StateAfter, IsJoin, Joined, Sources, StateOf, Entered
  <2> QED
    BY <2>1, <2>3, <2>4 DEF DefsInv
<1> QED
  BY <1>3, <1>4 DEF DefsInv, DefsVisit

LEMMA DefsInvStutter ==
    ASSUME DefsInv, UNCHANGED <<prog, defs, live, queue, follows>>
    PROVE  DefsInv'
<1>1. VisitedPoints(prog)' = VisitedPoints(prog)
  OBVIOUS
<1>2. ASSUME NEW pt \in VisitedPoints(prog), IsLive(pt)'
      PROVE  DefsVisit(pt) \in Range(queue') \/ Done(pt)'
  <2>1. IsLive(pt)
    BY <1>2 DEF IsLive
  <2>2. CASE Done(pt)
    BY <2>2 DEF Done, StateAfter, IsJoin, Joined, Sources, StateOf, Entered
  <2> QED
    BY <2>1, <2>2 DEF DefsInv
<1> QED
  BY <1>1, <1>2 DEF DefsInv, DefsVisit

(* A visit that reports no change has made none. *)
LEMMA UnreportedVisit ==
    ASSUME TypeOKUniformity, NeverGivesUp, NEW pt \in VisitedPoints(prog), ~Reported(pt, Sources(pt))
    PROVE  StateAfter(pt) = defs[pt]
<1>1. CASE IsJoin(pt)
  BY <1>1 DEF Reported, StateAfter
<1>2. CASE ~IsJoin(pt)
  <2>1. /\ pt[1] \in DOMAIN prog
        /\ Before(prog, pt[1]) \in Points(prog)
        /\ StateOf(Sources(pt)) = defs[Before(prog, pt[1])]
    BY <1>2, SourcesAre
  <2>2. defs[pt] \in ReachingStates(prog) /\ StateOf(Sources(pt)) \in ReachingStates(prog)
    BY <2>1 DEF TypeOKUniformity, VisitedPoints
  <2>3. ~ReportsChange(prog, pt[1], StateOf(Sources(pt)), defs[pt])
    BY <1>2 DEF Reported
  <2>4. ~GivesUp(prog, pt[1])
    BY <2>1 DEF NeverGivesUp
  <2> QED
    BY <1>2, <2>1, <2>2, <2>3, <2>4, TransferUnreported DEF StateAfter
<1> QED
  BY <1>1, <1>2

(* A point that has just been visited has nothing to do. *)
LEMMA VisitedIsDone ==
    ASSUME TypeOKUniformity, NEW pt \in VisitedPoints(prog), UNCHANGED <<prog, live>>,
           defs' = [defs EXCEPT ![pt] = StateAfter(pt)]
    PROVE  StateAfter(pt)' = defs'[pt]
<1> DEFINE from == Sources(pt)
<1>1. pt \in Points(prog) /\ defs \in [Points(prog) -> ReachingStates(prog)]
  BY DEF TypeOKUniformity, VisitedPoints
<1>2. defs'[pt] = StateAfter(pt) /\ \A q \in Points(prog) : q # pt => defs'[q] = defs[q]
  BY <1>1
<1>3. Sources(pt)' = from /\ IsJoin(pt)' = IsJoin(pt)
  BY DEF Sources, IsJoin, Entered
<1>4. from \subseteq Points(prog)
  BY SourcesAre
<1>5. CASE IsJoin(pt)
  <2>1. StateAfter(pt) = Joined(pt, from) /\ StateAfter(pt)' = Joined(pt, from)'
    BY <1>3, <1>5 DEF StateAfter
  <2>2. /\ Joined(pt, from) \in ReachingStates(prog)
        /\ \A m \in DOMAIN prog :
             /\ Joined(pt, from).mods[m] = defs[pt].mods[m] \union UNION {defs[q].mods[m] : q \in from}
             /\ Joined(pt, from).pMods[m] = defs[pt].pMods[m] \union UNION {defs[q].pMods[m] : q \in from}
    BY <1>1, <1>4, JoinedAt
  <2> DEFINE j == [mods  |-> [m \in DOMAIN prog |-> defs'[pt].mods[m] \union UNION {defs'[q].mods[m] : q \in from}],
                   pMods |-> [m \in DOMAIN prog |-> defs'[pt].pMods[m] \union UNION {defs'[q].pMods[m] : q \in from}]]
             s == defs'[pt]
  <2>3. StateAfter(pt)' = j
    BY <1>3, <2>1 DEF Joined
  <2>4. s = Joined(pt, from)
    BY <1>2, <2>1
  <2> HIDE DEF from
  <2>5. ASSUME NEW m \in DOMAIN prog
        PROVE  defs'[pt].mods[m] \union UNION {defs'[q].mods[m] : q \in from} = s.mods[m]
    <3>1. \A q \in from : defs'[q].mods[m] \subseteq s.mods[m]
      BY <1>2, <1>4, <2>2, <2>4
    <3> HIDE DEF s
    <3> QED
      BY <3>1 DEF s
  <2>6. ASSUME NEW m \in DOMAIN prog
        PROVE  defs'[pt].pMods[m] \union UNION {defs'[q].pMods[m] : q \in from} = s.pMods[m]
    <3>1. \A q \in from : defs'[q].pMods[m] \subseteq s.pMods[m]
      BY <1>2, <1>4, <2>2, <2>4
    <3> HIDE DEF s
    <3> QED
      BY <3>1 DEF s
  <2>7. s \in ReachingStates(prog)
    BY <2>2, <2>4
  <2>8. j = [mods |-> [m \in DOMAIN prog |-> s.mods[m]], pMods |-> [m \in DOMAIN prog |-> s.pMods[m]]]
    BY <2>5, <2>6
  <2> HIDE DEF j, s
  <2>9. j = s
    <3>1. s.mods \in [DOMAIN prog -> SUBSET Definitions(prog)] /\ s.pMods \in [DOMAIN prog -> SUBSET Definitions(prog)]
          /\ s = [mods |-> s.mods, pMods |-> s.pMods]
      BY <2>7, StateParts
    <3> QED
      BY <2>8, <3>1
  <2> QED
    BY <2>3, <2>9 DEF s
<1>6. CASE ~IsJoin(pt)
  <2> DEFINE o == pt[1]
             b == Before(prog, o)
  <2>1. o \in DOMAIN prog /\ from = {b} /\ b \in Points(prog) /\ b # pt /\ StateOf(from) = defs[b]
    BY <1>6, SourcesAre
  <2>2. StateAfter(pt) = Transfer(prog, o, defs[b], defs[pt])
    BY <1>6, <2>1 DEF StateAfter
  <2>3. StateAfter(pt)' = Transfer(prog, o, defs'[b], defs'[pt])
    <3>1. StateAfter(pt)' = Transfer(prog, o, StateOf(from)', defs'[pt])
      BY <1>3, <1>6 DEF StateAfter
    <3>2. StateOf(from)' = defs'[b]
      BY <1>3, <2>1 DEF StateOf
    <3> QED
      BY <3>1, <3>2
  <2>4. defs'[b] = defs[b] /\ defs[b] \in ReachingStates(prog) /\ defs[pt] \in ReachingStates(prog)
    BY <1>1, <1>2, <2>1
  <2> HIDE DEF b, o
  <2> QED
    BY <1>2, <2>1, <2>2, <2>3, <2>4, TransferIdempotent
<1> QED
  BY <1>5, <1>6

(* A visit of the analysis: what has read the point is on the list if the point has changed. *)
LEMMA DefsInvVisitDefs ==
    ASSUME TypeOKUniformity, NeverGivesUp, DefsInv, queue # <<>>, VisitDefs
    PROVE  DefsInv'
<1> PICK x : x = Head(queue)
  OBVIOUS
<1> DEFINE pt == <<x[2], x[3]>>
           from == Sources(pt)
           V == IF Reported(pt, from) THEN FollowersOf(pt) ELSE {}
<1>0. UNCHANGED <<prog, live>> /\ queue' = Enqueued(V) /\ follows' = follows \union {<<q, x>> : q \in from}
      /\ defs' = [defs EXCEPT ![pt] = StateAfter(pt)] /\ x[1] = "defs"
  BY DEF VisitDefs, StateAfter
<1>1. pt \in VisitedPoints(prog) /\ x = DefsVisit(pt) /\ IsLive(pt) /\ pt \in Points(prog)
  <2>1. x = <<x[1], x[2], x[3]>> /\ IsVisited(x) /\ pt \in VisitedPoints(prog) /\ pt \in Points(prog)
    BY HeadIs
  <2> QED
    BY <1>0, <2>1 DEF DefsVisit, IsVisited
<1>2. /\ Range(queue) = {x} \union Range(Tail(queue))
      /\ Range(queue') = Range(Tail(queue)) \union V
  <2>1. V \subseteq ToMake /\ ToMake \subseteq Visits
    BY FollowersTyped DEF ToMake
  <2> HIDE DEF V
  <2> QED
    BY <1>0, <2>1, EnqueuedTyped
<1>3. VisitedPoints(prog)' = VisitedPoints(prog) /\ \A p : IsLive(p)' = IsLive(p)
  BY <1>0 DEF IsLive
<1> HIDE DEF pt
<1>4. Done(pt)'
  <2>1. StateAfter(pt)' = defs'[pt]
    BY <1>0, <1>1, VisitedIsDone
  <2>2. Sources(pt)' = from
    BY <1>0 DEF Sources, IsJoin, Entered
  <2>3. \A q \in from : <<q, x>> \in follows'
    BY <1>0
  <2>4. (\A q \in Sources(pt) : <<q, DefsVisit(pt)>> \in follows)'
    BY <2>2, <2>3, <1>1 DEF DefsVisit
  <2> QED
    BY <2>1, <2>4 DEF Done
<1>5. ASSUME NEW p \in VisitedPoints(prog), IsLive(p), p # pt
      PROVE  DefsVisit(p) \in Range(queue') \/ Done(p)'
  <2>1. DefsVisit(p) # x
    <3>1. p \in Points(prog) /\ (p = MainStart \/ p = <<p[1], p[2]>>)
      BY PointParts DEF VisitedPoints
    <3>2. p = <<p[1], p[2]>>
      BY <3>1 DEF MainStart
    <3> QED
      BY <1>5, <3>2 DEF DefsVisit, pt
  <2>2. CASE DefsVisit(p) \in Range(queue)
    BY <1>2, <2>1, <2>2
  <2>3. CASE Done(p) /\ pt \notin Sources(p)
    <3>1. Sources(p)' = Sources(p) /\ IsJoin(p)' = IsJoin(p)
      BY <1>0 DEF Sources, IsJoin, Entered
    <3>2. Sources(p) \subseteq Points(prog) /\ p \in Points(prog)
      BY SourcesAre DEF VisitedPoints
    <3>3. \A q \in Points(prog) : q # pt => defs'[q] = defs[q]
      BY <1>0 DEF TypeOKUniformity
    <3>4. defs'[p] = defs[p] /\ \A q \in Sources(p) : defs'[q] = defs[q]
      BY <1>5, <2>3, <3>2, <3>3
    <3>5. Joined(p, Sources(p))' = Joined(p, Sources(p))
      <4>1. PICK S : S = Sources(p)
        OBVIOUS
      <4>2. \A m \in DOMAIN prog : /\ {defs'[q].mods[m] : q \in S} = {defs[q].mods[m] : q \in S}
                                  /\ {defs'[q].pMods[m] : q \in S} = {defs[q].pMods[m] : q \in S}
        BY <3>4, <4>1
      <4>3. Joined(p, S)' = Joined(p, S)
        BY <1>0, <3>4, <4>2 DEF Joined
      <4> QED
        BY <3>1, <4>1, <4>3 DEF Joined
    <3>6. ~IsJoin(p) => StateOf(Sources(p))' = StateOf(Sources(p))
      <4>1. ASSUME ~IsJoin(p)
            PROVE  StateOf(Sources(p))' = StateOf(Sources(p))
        <5>1. Sources(p) = {Before(prog, p[1])}
          BY <4>1, SourcesAre
        <5> QED
          BY <3>1, <3>4, <5>1 DEF StateOf
      <4> QED
        BY <4>1
    <3>7. StateAfter(p)' = StateAfter(p)
      BY <1>0, <3>1, <3>4, <3>5, <3>6 DEF StateAfter
    <3>8. \A q \in Sources(p) : <<q, DefsVisit(p)>> \in follows'
      BY <1>0, <2>3 DEF Done
    <3> QED
      BY <2>3, <3>1, <3>4, <3>7, <3>8 DEF Done, DefsVisit
  <2>4. CASE Done(p) /\ pt \in Sources(p)
    <3>1. <<pt, DefsVisit(p)>> \in follows
      BY <2>4 DEF Done
    <3>2. CASE Reported(pt, from)
      <4>1. IsVisited(DefsVisit(p))
        <5>1. p \in Points(prog)
          BY DEF VisitedPoints
        <5>2. p = <<p[1], p[2]>>
          BY <5>1, PointParts DEF MainStart
        <5> QED
          BY <1>5, <5>2 DEF IsVisited, DefsVisit
      <4>2. DefsVisit(p) \in FollowersOf(pt)
        <5>1. <<pt, DefsVisit(p)>> \in {g \in follows : g[1] = pt}
          BY <3>1
        <5> QED
          BY <4>1, <5>1 DEF FollowersOf
      <4> QED
        BY <1>2, <3>2, <4>2
    <3>3. CASE ~Reported(pt, from)
      <4>1. StateAfter(pt) = defs[pt]
        BY <1>1, <3>3, UnreportedVisit
      <4>2. defs' = defs
        BY <1>0, <4>1 DEF TypeOKUniformity
      <4>3. follows \subseteq follows'
        BY <1>0
      <4>4. Sources(p)' = Sources(p) /\ StateAfter(p)' = StateAfter(p)
        BY <1>0, <4>2, StateAfterKept
      <4> QED
        BY <2>4, <4>2, <4>3, <4>4 DEF Done, DefsVisit
    <3> QED
      BY <3>2, <3>3
  <2> QED
    BY <1>5, <2>2, <2>3, <2>4 DEF DefsInv
<1> QED
  BY <1>3, <1>4, <1>5 DEF DefsInv, DefsVisit

(* Regions that become live: their operations are on the list, and what follows the owner, too. *)
LEMMA DefsInvGoLive ==
    ASSUME TypeOKUniformity, DefsInv, queue # <<>>, GoLive
    PROVE  DefsInv'
<1> PICK o : o = Head(queue)[2]
  OBVIOUS
<1> DEFINE new == {<<o, r>> : r \in Regions(prog, o)}
           W == {<<"defs", o, 0>>} \union (IF HasResult(prog, o) THEN {<<"uni", o, 0>>} ELSE {})
           R == UNION {VisitsIn(prog, o, r) : r \in Regions(prog, o)}
           V == W \union R
<1>0. UNCHANGED <<prog, defs, follows>> /\ live' = live \union new /\ queue' = Enqueued(V) /\ Head(queue)[1] = "live"
  BY DEF GoLive
<1>1. /\ WellFormedMemoryProgram(prog)
      /\ o \in DOMAIN prog /\ prog[o].kind \in RegionOps /\ Head(queue) = <<"live", o, 0>>
      /\ <<o, 0>> \in VisitedPoints(prog)
  BY HeadIs, Zenon DEF GoLive, TypeOKUniformity
<1>2. \A r \in Regions(prog, o) : <<o, r>> \in VisitedPoints(prog) /\ r # 0
  <2>1. \A r \in Regions(prog, o) : <<o, r>> \in Points(prog)
    BY <1>1, PointsAre
  <2>2. prog[o].kind \notin Arguments
    BY <1>1 DEF RegionOps, Arguments
  <2> QED
    BY <2>1, <2>2, RegionsTyped DEF VisitedPoints
<1>3. V \subseteq Visits
  <2>1. R \subseteq Visits
    <3>1. ASSUME NEW r \in Regions(prog, o)
          PROVE  VisitsIn(prog, o, r) \subseteq Visits
      BY <1>1, <1>2, RegionVisitsProper
    <3> QED
      BY <3>1
  <2> DEFINE pt == <<o, 0>>
  <2>2. pt \in VisitedPoints(prog) /\ pt[1] = o /\ pt[2] = 0
    BY <1>1
  <2>3. HasResult(prog, o) => HasValues(prog, pt)
    BY <1>1 DEF HasValues, RegionOps, Arguments
  <2> HIDE DEF pt
  <2>4. <<"defs", o, 0>> \in Visits /\ (HasResult(prog, o) => <<"uni", o, 0>> \in Visits)
    BY <1>1, <2>2, <2>3, VisitMade
  <2> QED
    BY <2>1, <2>4
<1>4. /\ Range(queue) = {Head(queue)} \union Range(Tail(queue))
      /\ Range(queue') = Range(Tail(queue)) \union V
  <2> DEFINE X == Visits
  <2>1. ToMake \subseteq X /\ V \subseteq X
    BY <1>3 DEF ToMake
  <2> HIDE DEF X, V
  <2> QED
    BY <1>0, <1>3, <2>1, EnqueuedTyped
<1>5. ASSUME NEW pt \in VisitedPoints(prog), IsLive(pt)'
      PROVE  DefsVisit(pt) \in Range(queue') \/ Done(pt)'
  <2>1. pt \in Points(prog) /\ pt = <<pt[1], pt[2]>>
    BY PointParts DEF VisitedPoints, MainStart
  <2>2. CASE ~IsLive(pt)
    <3>1. RegionVisited(pt) \in live' /\ RegionVisited(pt) \notin live
      BY <1>0, <1>5, <2>2 DEF IsLive, RegionVisited, RegionAt
    <3>2. PICK r \in Regions(prog, o) : RegionVisited(pt) = <<o, r>>
      BY <1>0, <3>1
    <3>3. DefsVisit(pt) \in VisitsIn(prog, o, r)
      BY <1>1, <3>2, PointInRegion
    <3>4. DefsVisit(pt) \in V
      BY <3>3
    <3> QED
      BY <1>4, <3>4
  <2>3. CASE pt = <<o, 0>>
    <3>1. DefsVisit(pt) \in V
      BY <2>3 DEF DefsVisit
    <3> QED
      BY <1>4, <3>1
  <2>4. CASE IsLive(pt) /\ pt # <<o, 0>>
    <3>1. DefsVisit(pt) # Head(queue)
      BY <1>1 DEF DefsVisit
    <3>2. CASE DefsVisit(pt) \in Range(queue)
      BY <1>4, <3>1, <3>2
    <3>3. CASE Done(pt)
      <4>1. pt[2] = 0 => Entered(pt[1])' = Entered(pt[1])
        <5>1. pt[2] = 0 => pt[1] # o
          BY <2>1, <2>4
        <5> QED
          BY <1>0, <5>1 DEF Entered
      <4>2. Sources(pt)' = Sources(pt)
        BY <1>0, <4>1 DEF Sources, IsJoin
      <4> QED
        BY <1>0, <3>3, <4>2 DEF Done, StateAfter, IsJoin, Joined, StateOf, DefsVisit
    <3> QED
      BY <2>4, <3>2, <3>3 DEF DefsInv
  <2> QED
    BY <2>2, <2>3, <2>4
<1> QED
  BY <1>0, <1>5 DEF DefsInv, DefsVisit, VisitedPoints

(* Every step of the solver keeps the invariant. *)
LEMMA DefsInvNext ==
    ASSUME TypeOKUniformity, NeverGivesUp, DefsInv, [NextSolver]_solverVars
    PROVE  DefsInv'
<1>1. CASE UNCHANGED solverVars
  BY <1>1, DefsInvStutter DEF solverVars
<1>2. CASE NextSolver
  <2>1. queue # <<>>
    BY <1>2 DEF NextSolver
  <2>2. CASE VisitDefs
    BY <2>1, <2>2, DefsInvVisitDefs
  <2>3. CASE GoLive
    BY <2>1, <2>3, DefsInvGoLive
  <2>4. ASSUME NEW o \in DOMAIN prog, NEW new, NEW reads, NEW r, Visiting("uni", o, r),
               SetUniformity(new, reads), follows \subseteq follows'
        PROVE  DefsInv'
    <3> DEFINE V == AskersFor({v \in DOMAIN uni : uni'[v] # uni[v]})
    <3>1. queue' = Enqueued(V) /\ UNCHANGED <<prog, defs, live>>
      BY <2>4 DEF SetUniformity
    <3>2. V \subseteq ToMake
      BY FollowersTyped
    <3>3. Head(queue)[1] # "defs"
      BY <2>4 DEF Visiting
    <3> HIDE DEF V
    <3> QED
      BY <2>1, <2>4, <3>1, <3>2, <3>3, DefsInvOther
  <2>5. ASSUME NEW o \in DOMAIN prog, ReadUnreachable(o)
        PROVE  DefsInv'
    BY <2>5, DefsInvStutter DEF ReadUnreachable
  <2>6. ASSUME NEW o \in DOMAIN prog, VisitResult(o) \/ VisitRead(o) \/ VisitRegionResult(o) \/ VisitForBody(o)
        PROVE  \E new, reads, r : Visiting("uni", o, r) /\ SetUniformity(new, reads) /\ follows \subseteq follows'
    <3>1. CASE VisitResult(o)
      BY <3>1 DEF VisitResult
    <3>2. CASE VisitRead(o)
      BY <3>2 DEF VisitRead
    <3>3. CASE VisitRegionResult(o)
      BY <3>3 DEF VisitRegionResult
    <3>4. CASE VisitForBody(o)
      BY <3>4 DEF VisitForBody
    <3> QED
      BY <2>6, <3>1, <3>2, <3>3, <3>4
  <2> QED
    BY <1>2, <2>2, <2>3, <2>4, <2>5, <2>6 DEF NextSolver
<1> QED
  BY <1>1, <1>2

(* When the list is empty, the invariant is what is to be shown. *)
LEMMA DefsInvSettles ==
    ASSUME TypeOKUniformity, NeverGivesUp => DefsInv
    PROVE  DefinitionsSettled
<1> SUFFICES ASSUME Solved, NeverGivesUp, NEW pt \in Points(prog), Visited(pt)
             PROVE  SettledDefs(pt)
  BY DEF DefinitionsSettled, NeverGivesUp
<1>1. pt \in VisitedPoints(prog) /\ IsLive(pt)
  BY DEF Visited, VisitedPoints
<1>2. Range(queue) = {}
  BY DEF Solved, Range
<1>3. Done(pt)
  BY <1>1, <1>2 DEF DefsInv
<1> QED
  BY <1>3 DEF Done, StateAfter, SettledDefs

(***************************************************************************)
(* The list of the solver does not run empty too early: when it is empty,  *)
(* no visit of the reaching definition analysis would change anything, for *)
(* every program without an operation that gives up (setToEntryState and   *)
(* visitOperation of ReachingDefinitionAnalysis.cpp).  The invariant says of *)
(* every live point that its visit is on the list, or its state is what a  *)
(* visit would make of it and the list of those to be told when one of the *)
(* states it is made of changes has it.  It is enough because a visit that *)
(* reports no change has made none, which is what fails for an operation   *)
(* that gives up.                                                          *)
(***************************************************************************)
THEOREM DefinitionsSettledAlways == SpecSolver => []DefinitionsSettled
<1> DEFINE I == TypeOKUniformity /\ (NeverGivesUp => DefsInv)
<1>1. WellFormedMemoryProgram(prog) /\ InitSolver => I
  BY TypeInit, DefsInvInit
<1>2. I /\ [NextSolver]_solverVars => I'
  <2> SUFFICES ASSUME I, [NextSolver]_solverVars
               PROVE  I'
    OBVIOUS
  <2>1. TypeOKUniformity'
    BY TypeNext
  <2>2. prog' = prog
    BY DEF NextSolver, solverVars, VisitDefs, GoLive, VisitResult, VisitRead, ReadUnreachable,
           VisitRegionResult, VisitForBody, SetUniformity
  <2>3. NeverGivesUp' = NeverGivesUp
    BY <2>2 DEF NeverGivesUp
  <2> QED
    BY <2>1, <2>3, DefsInvNext
<1>3. I => DefinitionsSettled
  BY DefsInvSettles
<1> QED
  BY <1>1, <1>2, <1>3, PTL DEF SpecSolver

-----------------------------------------------------------------------------
(***************************************************************************)
(* Where nothing uses the rank.  A load depends on the definitions that    *)
(* reach it, so that the invariant is about both: no value is above        *)
(* Uniform but the rank itself, and nothing is known to be written from    *)
(* outside.                                                                *)
(***************************************************************************)
Low(v) == uni[v] \in {"none", "Uniform"} \/ prog[v[2]].kind = "rank"

AllLow == \A v \in ValuesUpTo(Len(prog)) : Low(v)

WrittenInside ==
    \A pt \in Points(prog) : \A m \in DOMAIN prog :
        InitialDefinition \notin defs[pt].mods[m] /\ InitialDefinition \notin defs[pt].pMods[m]

NoRankInv == UsesNoRank => AllLow /\ WrittenInside

(* Kinds that are low are joined to one that is. *)
LEMMA JoinLow ==
    ASSUME NEW a \in {"none", "Uniform"}, NEW b \in {"none", "Uniform"}
    PROVE  JoinKinds(a, b) \in {"none", "Uniform"}
  BY DEF JoinKinds

LEMMA JoinAllLow ==
    ASSUME NEW S, S \subseteq {"none", "Uniform"}
    PROVE  JoinAll(S) \in {"none", "Uniform"}
  BY DEF JoinAll

LEMMA KindOfLow ==
    ASSUME NEW V, \A v \in V : uni[v] \in {"none", "Uniform"}
    PROVE  KindOf(V) = "Uniform"
<1> DEFINE S == {"Uniform"} \union {uni[v] : v \in V}
<1>1. S \subseteq {"none", "Uniform"} /\ ~(S \subseteq {"none"})
  OBVIOUS
<1> HIDE DEF S
<1>2. JoinAll(S) = "Uniform"
  BY <1>1 DEF JoinAll
<1> QED
  BY <1>2 DEF KindOf, S

(* Operands, conditions and what is yielded are not the rank. *)
LEMMA UsedLow ==
    ASSUME TypeOKUniformity, UsesNoRank, AllLow, NEW o \in DOMAIN prog,
           NEW v \in Operands(prog, o) \union Range(prog[o].yields)
    PROVE  uni[v] \in {"none", "Uniform"}
<1>1. WellFormedMemoryProgram(prog)
  BY DEF TypeOKUniformity
<1>2. v \in ValuesUpTo(Len(prog))
  BY <1>1, OperandsTyped
<1> QED
  BY <1>2 DEF UsesNoRank, AllLow, Low

LEMMA ConditionLow ==
    ASSUME TypeOKUniformity, UsesNoRank, AllLow, NEW o \in DOMAIN prog, prog[o].kind \in RegionOps,
           NEW v \in ConditionOf(o)
    PROVE  uni[v] \in {"none", "Uniform"}
<1>1. WellFormedMemoryProgram(prog)
  BY DEF TypeOKUniformity
<1>2. HasOperands(prog[o]) /\ prog[o].uses \in Seq(ValuesUpTo(Len(prog))) /\ prog[o].yields \in Seq(ValuesUpTo(Len(prog)))
  BY <1>1, OperationTyped
<1>3. CASE prog[o].kind = "if"
  <2>1. v = prog[o].uses[1] /\ Len(prog[o].uses) = 1
    BY <1>2, <1>3 DEF ConditionOf, HasOperands
  <2>2. v \in Range(prog[o].uses)
    BY <1>2, <2>1 DEF Range
  <2> QED
    BY <2>2, UsedLow DEF Operands
<1>4. CASE prog[o].kind = "while"
  <2>1. v = prog[o].yields[1] /\ Len(prog[o].yields) = 1
    BY <1>2, <1>4 DEF ConditionOf, HasOperands
  <2>2. v \in Range(prog[o].yields)
    BY <1>2, <2>1 DEF Range
  <2> QED
    BY <2>2, UsedLow
<1>5. CASE prog[o].kind = "for"
  BY <1>5 DEF ConditionOf
<1> QED
  BY <1>3, <1>4, <1>5 DEF RegionOps

(* Only a receive declares an effect on no value. *)
LEMMA OnlyRecvResets ==
    ASSUME NEW p, WellFormedMemoryProgram(p), NEW o \in DOMAIN p, p[o].kind # "recv"
    PROVE  ~Resets(p, o)
<1>1. o \in 1 .. Len(p) /\ Len(p) \in Nat /\ p[o].mem \in Seq(1 .. Len(p)) /\ HasOperands(p[o])
  BY OperationTyped
<1>2. CASE p[o].kind \in {"alloca", "malloc"}
  <2>1. Effects(p, o) = <<<<"Allocate", o>>>>
    BY <1>2 DEF Effects
  <2> QED
    BY <1>1, <2>1 DEF Resets
<1>3. CASE p[o].kind \in {"load", "store", "free"}
  <2>1. Len(p[o].mem) = 1 /\ p[o].mem[1] \in 1 .. Len(p)
    BY <1>1, <1>3 DEF HasOperands
  <2>2. \E k : Effects(p, o) = <<<<k, p[o].mem[1]>>>>
    BY <1>3 DEF Effects
  <2> QED
    BY <1>1, <2>1, <2>2 DEF Resets
<1>4. CASE p[o].kind \in {"bcast", "scatter"}
  <2>1. Len(p[o].mem) = 2 /\ p[o].mem[1] \in 1 .. Len(p) /\ p[o].mem[2] \in 1 .. Len(p)
    BY <1>1, <1>4 DEF HasOperands
  <2>2. Effects(p, o) = <<<<"Read", p[o].mem[1]>>, <<"Write", p[o].mem[2]>>>>
    BY <1>4 DEF Effects
  <2> QED
    BY <1>1, <2>1, <2>2 DEF Resets
<1>5. CASE p[o].kind \notin {"alloca", "malloc", "load", "store", "free", "bcast", "scatter"}
  <2>1. Effects(p, o) = <<>>
    BY <1>5 DEF Effects
  <2> QED
    BY <2>1 DEF Resets
<1> QED
  BY <1>2, <1>3, <1>4, <1>5

(* A visit that sets kinds which are low, or that of the rank, keeps the values low. *)
LEMMA SetLow ==
    ASSUME TypeOKUniformity, AllLow, NEW new, NEW reads, SetUniformity(new, reads),
           \A v \in DOMAIN new : new[v] \in {"none", "Uniform"} \/ prog[v[2]].kind = "rank"
    PROVE  AllLow' /\ (WrittenInside => WrittenInside')
<1>1. prog' = prog /\ defs' = defs
  BY DEF SetUniformity
<1>2. uni' = [v \in DOMAIN uni |-> IF v \in DOMAIN new THEN JoinKinds(uni[v], new[v]) ELSE uni[v]]
  BY DEF SetUniformity
<1>3. DOMAIN uni = ValuesUpTo(Len(prog))
  BY DEF TypeOKUniformity
<1>4. ASSUME NEW v \in ValuesUpTo(Len(prog)), prog[v[2]].kind # "rank"
      PROVE  uni'[v] \in {"none", "Uniform"}
  <2>1. uni[v] \in {"none", "Uniform"}
    BY <1>4 DEF AllLow, Low
  <2>2. v \in DOMAIN new => JoinKinds(uni[v], new[v]) \in {"none", "Uniform"}
    BY <2>1, <1>4, JoinLow
  <2> QED
    BY <1>2, <1>3, <2>1, <2>2
<1> QED
  BY <1>1, <1>4 DEF AllLow, Low, WrittenInside

(* Nothing a load depends on is above Uniform. *)
LEMMA ReadLow ==
    ASSUME TypeOKUniformity, UsesNoRank, AllLow, NEW D, D \subseteq DOMAIN prog, InitialDefinition \notin D
    PROVE  ReadKind(D) \in {"none", "Uniform"}
<1>1. WellFormedMemoryProgram(prog)
  BY DEF TypeOKUniformity
<1>2. ASSUME NEW v \in BranchConditions(D)
      PROVE  uni[v] \in {"none", "Uniform"}
  <2>1. PICK d \in D : \E b \in Enclosing(d) : v \in ConditionOf(b)
    BY DEF BranchConditions
  <2>2. PICK b \in Enclosing(d) : v \in ConditionOf(b)
    BY <2>1
  <2>3. b \in DOMAIN prog /\ prog[b].kind \in RegionOps
    BY <1>1, ConditionsTyped
  <2> QED
    BY <2>2, <2>3, ConditionLow
<1>3. KindOf(BranchConditions(D)) = "Uniform"
  BY <1>2, KindOfLow
<1>4. ASSUME NEW d \in D PROVE ModifierKind(d) = "Uniform"
  <2>1. \A v \in Operands(prog, d) : uni[v] \in {"none", "Uniform"}
    BY UsedLow
  <2>2. KindOf(Operands(prog, d)) = "Uniform"
    BY <2>1, KindOfLow
  <2> QED
    BY <2>2 DEF ModifierKind
<1>5. {"Uniform"} \union {ModifierKind(d) : d \in Handled(D)} \subseteq {"none", "Uniform"}
  BY <1>4 DEF Handled
<1>6. JoinAll({"Uniform"} \union {ModifierKind(d) : d \in Handled(D)}) \in {"none", "Uniform"}
  BY <1>5, JoinAllLow
<1> QED
  BY <1>3, <1>6 DEF ReadKind, ConditionsDecide

(* Of the operations, only the rank has a result that is. *)
LEMMA ResultLow ==
    ASSUME TypeOKUniformity, UsesNoRank, AllLow, NEW o \in DOMAIN prog, prog[o].kind # "rank"
    PROVE  ResultKind(o) \in {"none", "Uniform"}
<1>1. WellFormedMemoryProgram(prog)
  BY DEF TypeOKUniformity
<1>2. \A v \in Operands(prog, o) : uni[v] \in {"none", "Uniform"}
  BY UsedLow
<1>3. KindOf(Operands(prog, o)) = "Uniform"
  BY <1>2, KindOfLow
<1>4. prog[o].kind # "recv" /\ prog[o].kind # "barrier"
  BY DEF UsesNoRank
<1>5. DeclaresEffects(prog, o) /\ ~Resets(prog, o)
  BY <1>1, <1>4, OnlyRecvResets DEF DeclaresEffects
<1> QED
  BY <1>3, <1>5 DEF ResultKind

LEMMA NoRankResult ==
    ASSUME TypeOKUniformity, UsesNoRank, AllLow, WrittenInside, NEW o \in DOMAIN prog, VisitResult(o)
    PROVE  AllLow' /\ WrittenInside'
<1> DEFINE new == [v \in {ResultOf(o)} |-> ResultKind(o)]
<1>1. SetUniformity(new, Subscribed(o))
  BY DEF VisitResult
<1>2. prog[o].kind = "rank" \/ ResultKind(o) \in {"none", "Uniform"}
  BY ResultLow
<1>3. \A v \in DOMAIN new : new[v] \in {"none", "Uniform"} \/ prog[v[2]].kind = "rank"
  BY <1>2 DEF ResultOf
<1> HIDE DEF new
<1> QED
  BY <1>1, <1>3, SetLow

LEMMA NoRankRead ==
    ASSUME TypeOKUniformity, UsesNoRank, AllLow, WrittenInside, NEW o \in DOMAIN prog, VisitRead(o)
    PROVE  AllLow' /\ WrittenInside'
<1> DEFINE D == ModifiersAt(o)
           new == [v \in {ResultOf(o)} |-> ReadKind(D)]
           reads == Subscribed(o) \union (AskedFor(D) \X {Head(queue)})
<1>1. SetUniformity(new, reads)
  BY DEF VisitRead
<1>2. ~Resets(prog, o) /\ WellFormedMemoryProgram(prog)
  BY DEF VisitRead, Reads, TypeOKUniformity
<1>3. D \subseteq Definitions(prog)
  BY <1>2, ModifiersTyped
<1>4. InitialDefinition \notin D
  <2>1. ReadBy(prog, o) \subseteq DOMAIN prog
    BY <1>2, ReadByTyped
  <2>2. <<o, 0>> \in Points(prog)
    BY PointsAre
  <2> QED
    BY <2>1, <2>2 DEF ModifiersAt, Modifiers, WrittenInside
<1> HIDE DEF D
<1>5. D \subseteq DOMAIN prog
  BY <1>3, <1>4 DEF Definitions
<1>6. ReadKind(D) \in {"none", "Uniform"}
  BY <1>4, <1>5, ReadLow
<1>7. \A v \in DOMAIN new : new[v] \in {"none", "Uniform"} \/ prog[v[2]].kind = "rank"
  BY <1>6
<1> HIDE DEF new, reads
<1> QED
  BY <1>1, <1>7, SetLow

(* What regions yield is not the rank, and neither is what an scf.for starts with. *)
LEMMA IncomingLow ==
    ASSUME TypeOKUniformity, UsesNoRank, AllLow, NEW o \in DOMAIN prog
    PROVE  \A v \in Incoming(o) : uni[v] \in {"none", "Uniform"}
<1>1. prog[o].uses \in Seq(ValuesUpTo(Len(prog)))
  BY OperationTyped DEF TypeOKUniformity
<1>2. \A k \in 3 .. Len(prog[o].uses) : prog[o].uses[k] \in Range(prog[o].uses)
  BY <1>1 DEF Range
<1>3. Incoming(o) \subseteq Operands(prog, o) \union Range(prog[o].yields)
  BY <1>2 DEF Incoming, Operands
<1> QED
  BY <1>3, UsedLow

(* The first operand of an operation with regions and a result. *)
LEMMA FirstOperandLow ==
    ASSUME TypeOKUniformity, UsesNoRank, AllLow, NEW o \in DOMAIN prog, prog[o].kind \in {"if", "for"}
    PROVE  uni[prog[o].uses[1]] \in {"none", "Uniform"}
<1>1. /\ HasOperands(prog[o]) /\ prog[o].uses \in Seq(ValuesUpTo(Len(prog)))
      /\ prog[o].yields \in Seq(ValuesUpTo(Len(prog)))
  BY OperationTyped DEF TypeOKUniformity
<1> DEFINE n == Len(prog[o].uses)
           k == Len(prog[o].yields)
<1>2. n \in Nat /\ k \in Nat /\ (n = 1 \/ n = 2 + k)
  BY <1>1 DEF HasOperands
<1>3. 1 \in 1 .. n
  <2> HIDE DEF n, k
  <2> QED BY <1>2
<1>4. prog[o].uses[1] \in Range(prog[o].uses)
  BY <1>1, <1>3 DEF Range
<1> QED
  BY <1>4, UsedLow DEF Operands

LEMMA NoRankRegionResult ==
    ASSUME TypeOKUniformity, UsesNoRank, AllLow, WrittenInside, queue # <<>>,
           NEW o \in DOMAIN prog, VisitRegionResult(o)
    PROVE  AllLow' /\ WrittenInside'
<1> DEFINE old    == uni[ResultOf(o)]
           joined == JoinKinds(old, JoinAll({uni[v] : v \in KnownIncoming(o)}))
           kind   == IF joined = old THEN old ELSE OnUpdate(o, joined)
           new    == [v \in {ResultOf(o)} |-> kind]
           reads  == KnownIncoming(o) \X {Head(queue)}
<1>1. SetUniformity(new, reads)
  BY DEF VisitRegionResult
<1>2. Visiting("uni", o, 0) /\ prog[o].kind \in RegionOps
  BY DEF VisitRegionResult
<1>3. WellFormedMemoryProgram(prog) /\ HasResult(prog, o)
  BY <1>2, UniVisit
<1>4. prog[o].kind \in {"if", "for"}
  BY <1>2, <1>3 DEF HasResult, RegionOps, ValueOps, MemrefOps, CallOps
<1>5. old \in {"none", "Uniform"}
  <2>1. ResultOf(o) \in ValuesUpTo(Len(prog)) /\ ResultOf(o)[2] = o
    BY <1>3, OperandsTyped DEF ResultOf
  <2> QED
    BY <1>4, <2>1 DEF AllLow, Low
<1>6. JoinAll({uni[v] : v \in KnownIncoming(o)}) \in {"none", "Uniform"}
  <2>1. {uni[v] : v \in KnownIncoming(o)} \subseteq {"none", "Uniform"}
    BY IncomingLow DEF KnownIncoming
  <2> QED
    BY <2>1, JoinAllLow
<1>7. joined \in {"none", "Uniform"}
  <2> HIDE DEF old
  <2> QED
    BY <1>5, <1>6, JoinLow
<1>8. OnUpdate(o, joined) \in {"none", "Uniform"}
  <2> HIDE DEF joined
  <2> QED
    BY <1>4, <1>7, FirstOperandLow, JoinLow DEF OnUpdate
<1>9. kind \in {"none", "Uniform"}
  <2> HIDE DEF joined, old
  <2> QED
    BY <1>5, <1>8
<1>10. \A v \in DOMAIN new : new[v] \in {"none", "Uniform"} \/ prog[v[2]].kind = "rank"
  <2> HIDE DEF kind
  <2> QED
    BY <1>9
<1> HIDE DEF new, reads
<1> QED
  BY <1>1, <1>10, SetLow

LEMMA NoRankForBody ==
    ASSUME TypeOKUniformity, UsesNoRank, AllLow, WrittenInside, queue # <<>>,
           NEW o \in DOMAIN prog, VisitForBody(o)
    PROVE  AllLow' /\ WrittenInside'
<1> DEFINE new == [v \in ArgumentsOf(o) |-> IF v = IvOf(o) THEN BoundsKind(o) ELSE JoinAll({uni[w] : w \in Incoming(o)})]
           reads == Incoming(o) \X {Head(queue)}
<1>1. SetUniformity(new, reads)
  BY DEF VisitForBody
<1>2. Visiting("uni", o, 1)
  BY DEF VisitForBody
<1>3. prog[o].kind = "for" /\ WellFormedMemoryProgram(prog)
  <2>1. HasValues(prog, <<o, 1>>) /\ WellFormedMemoryProgram(prog)
    BY <1>2, UniVisit
  <2> QED
    BY <2>1 DEF HasValues
<1>4. BoundsKind(o) \in {"none", "Uniform"}
  <2>1. /\ HasOperands(prog[o]) /\ prog[o].uses \in Seq(ValuesUpTo(Len(prog)))
        /\ prog[o].yields \in Seq(ValuesUpTo(Len(prog)))
    BY <1>3, OperationTyped
  <2> DEFINE n == Len(prog[o].uses)
             k == Len(prog[o].yields)
  <2>2. n \in Nat /\ k \in Nat /\ n = 2 + k
    BY <1>3, <2>1 DEF HasOperands
  <2>3. 1 \in 1 .. n /\ 2 \in 1 .. n
    <3> HIDE DEF n, k
    <3> QED BY <2>2
  <2>4. prog[o].uses[1] \in Range(prog[o].uses) /\ prog[o].uses[2] \in Range(prog[o].uses)
    BY <2>1, <2>3 DEF Range
  <2>5. \A v \in {prog[o].uses[1], prog[o].uses[2]} : uni[v] \in {"none", "Uniform"}
    BY <2>4, UsedLow DEF Operands
  <2>6. KindOf({prog[o].uses[1], prog[o].uses[2]}) = "Uniform"
    BY <2>5, KindOfLow
  <2> QED
    BY <2>6 DEF BoundsKind
<1>5. JoinAll({uni[w] : w \in Incoming(o)}) \in {"none", "Uniform"}
  <2>1. {uni[w] : w \in Incoming(o)} \subseteq {"none", "Uniform"}
    BY IncomingLow
  <2> QED
    BY <2>1, JoinAllLow
<1>6. \A v \in DOMAIN new : new[v] \in {"none", "Uniform"} \/ prog[v[2]].kind = "rank"
  BY <1>4, <1>5
<1> HIDE DEF new, reads
<1> QED
  BY <1>1, <1>6, SetLow

(* A visit of the reaching definition analysis finds no definition from outside. *)
LEMMA TransferInside ==
    ASSUME NEW p, NEW o \in DOMAIN p, o # 0, NEW b \in ReachingStates(p), NEW a \in ReachingStates(p),
           NEW m \in DOMAIN p, 0 \notin a.mods[m], 0 \notin a.pMods[m], 0 \notin b.mods[m], 0 \notin b.pMods[m]
    PROVE  0 \notin Transfer(p, o, b, a).mods[m] /\ 0 \notin Transfer(p, o, b, a).pMods[m]
<1>1. CASE ~DeclaresEffects(p, o)
  BY <1>1 DEF Transfer
<1>2. CASE DeclaresEffects(p, o) /\ Resets(p, o)
  BY <1>2, NothingAt DEF Transfer
<1>3. CASE DeclaresEffects(p, o) /\ ~Resets(p, o)
  <2>1. PICK S, C, P, A : \A x, y \in ReachingStates(p) :
             /\ Transfer(p, o, x, y) \in ReachingStates(p)
             /\ Acts(p, Transfer(p, o, x, y), JoinStates(y, x), o, S, C, P, A)
    BY <1>3, TransferAt
  <2> DEFINE t == Transfer(p, o, b, a)
             j == JoinStates(a, b)
  <2>2. Acts(p, t, j, o, S, C, P, A)
    BY <2>1
  <2>3. j.mods[m] = a.mods[m] \union b.mods[m] /\ j.pMods[m] = a.pMods[m] \union b.pMods[m]
    BY JoinAt
  <2> HIDE DEF t, j
  <2>4. t.mods[m] = {o} \/ t.mods[m] = {} \/ t.mods[m] = j.mods[m]
    BY <2>2 DEF Acts
  <2>5. t.pMods[m] = {o} \/ t.pMods[m] = {} \/ t.pMods[m] = j.pMods[m] \/ t.pMods[m] = j.pMods[m] \union {o}
    BY <2>2 DEF Acts
  <2>6. 0 \notin t.mods[m] /\ 0 \notin t.pMods[m]
    BY <2>3, <2>4, <2>5
  <2> QED
    BY <2>6 DEF t
<1> QED
  BY <1>1, <1>2, <1>3

LEMMA NoRankVisitDefs ==
    ASSUME TypeOKUniformity, AllLow, WrittenInside, queue # <<>>, VisitDefs
    PROVE  AllLow' /\ WrittenInside'
<1> DEFINE x == Head(queue)
           pt == <<x[2], x[3]>>
<1>0. prog' = prog /\ uni' = uni
  BY DEF VisitDefs
<1>1. pt \in VisitedPoints(prog) /\ pt \in Points(prog)
  BY HeadIs
<1>2. defs' = [defs EXCEPT ![pt] = StateAfter(pt)] /\ defs \in [Points(prog) -> ReachingStates(prog)]
  BY DEF VisitDefs, StateAfter, TypeOKUniformity
<1> HIDE DEF pt
<1>3. ASSUME NEW m \in DOMAIN prog
      PROVE  0 \notin StateAfter(pt).mods[m] /\ 0 \notin StateAfter(pt).pMods[m]
  <2>1. Sources(pt) \subseteq Points(prog)
    BY <1>1, SourcesAre
  <2>2. \A q \in Points(prog) : 0 \notin defs[q].mods[m] /\ 0 \notin defs[q].pMods[m]
    BY DEF WrittenInside, InitialDefinition
  <2>3. CASE IsJoin(pt)
    <3>1. /\ StateAfter(pt).mods[m] = defs[pt].mods[m] \union UNION {defs[q].mods[m] : q \in Sources(pt)}
          /\ StateAfter(pt).pMods[m] = defs[pt].pMods[m] \union UNION {defs[q].pMods[m] : q \in Sources(pt)}
      BY <1>1, <2>1, <2>3, JoinedAt DEF StateAfter
    <3> QED
      BY <1>1, <2>1, <2>2, <3>1
  <2>4. CASE ~IsJoin(pt)
    <3> DEFINE q == Before(prog, pt[1])
    <3>1. pt[1] \in DOMAIN prog /\ q \in Points(prog) /\ StateOf(Sources(pt)) = defs[q]
      BY <1>1, <2>4, SourcesAre
    <3>2. StateAfter(pt) = Transfer(prog, pt[1], defs[q], defs[pt])
      BY <2>4, <3>1 DEF StateAfter
    <3>3. pt[1] # 0
      BY <3>1, OperationTyped DEF TypeOKUniformity
    <3> HIDE DEF q
    <3>4. defs[q] \in ReachingStates(prog) /\ defs[pt] \in ReachingStates(prog)
      BY <1>1, <1>2, <3>1
    <3> QED
      BY <1>1, <2>2, <3>1, <3>2, <3>3, <3>4, TransferInside
  <2> QED
    BY <2>3, <2>4
<1>4. ASSUME NEW q \in Points(prog), NEW m \in DOMAIN prog
      PROVE  0 \notin defs'[q].mods[m] /\ 0 \notin defs'[q].pMods[m]
  <2>1. CASE q = pt
    <3>1. defs'[q] = StateAfter(pt)
      BY <1>1, <1>2, <2>1
    <3> QED
      BY <1>3, <3>1
  <2>2. CASE q # pt
    <3>1. defs'[q] = defs[q]
      BY <1>2, <2>2
    <3> QED
      BY <3>1 DEF WrittenInside, InitialDefinition
  <2> QED
    BY <2>1, <2>2
<1> QED
  BY <1>0, <1>4 DEF AllLow, Low, WrittenInside, InitialDefinition

LEMMA NoRankInit ==
    ASSUME WellFormedMemoryProgram(prog), InitSolver, UsesNoRank
    PROVE  AllLow /\ WrittenInside
<1>1. DOMAIN prog = 1 .. Len(prog) /\ \A o \in DOMAIN prog : prog[o].kind \notin Arguments
  BY DEF WellFormedMemoryProgram, UsesNoRank
<1>2. ASSUME NEW v \in ValuesUpTo(Len(prog))
      PROVE  uni[v] \in {"none", "Uniform"}
  <2>1. v[2] \in DOMAIN prog
    BY <1>1 DEF ValuesUpTo
  <2> QED
    BY <1>1, <2>1 DEF InitSolver
<1>3. ASSUME NEW pt \in Points(prog), NEW m \in DOMAIN prog
      PROVE  InitialDefinition \notin defs[pt].mods[m] /\ InitialDefinition \notin defs[pt].pMods[m]
  <2>1. prog[m].kind # "memarg"
    BY <1>1 DEF Arguments
  <2>2. CASE pt = MainStart
    <3>1. defs[pt] = EntryState(prog)
      BY <2>2 DEF InitSolver
    <3> QED
      BY <2>1, <3>1 DEF EntryState
  <2>3. CASE pt # MainStart
    <3>1. defs[pt] = Nothing(prog)
      BY <2>3 DEF InitSolver
    <3> QED
      BY <3>1 DEF Nothing
  <2> QED
    BY <2>2, <2>3
<1> QED
  BY <1>2, <1>3 DEF AllLow, Low, WrittenInside

LEMMA NoRankNext ==
    ASSUME TypeOKUniformity, NoRankInv, [NextSolver]_solverVars
    PROVE  NoRankInv'
<1>1. CASE UNCHANGED solverVars
  BY <1>1 DEF solverVars, NoRankInv, UsesNoRank, AllLow, Low, WrittenInside
<1>2. CASE NextSolver
  <2>1. queue # <<>>
    BY <1>2 DEF NextSolver
  <2>2. prog' = prog
    BY <1>2 DEF NextSolver, VisitDefs, GoLive, VisitResult, VisitRead, ReadUnreachable, VisitRegionResult,
                VisitForBody, SetUniformity
  <2>3. SUFFICES ASSUME UsesNoRank
                 PROVE  AllLow' /\ WrittenInside'
    <3>1. UsesNoRank' => UsesNoRank
      BY <2>2 DEF UsesNoRank
    <3> QED
      BY <3>1 DEF NoRankInv
  <2>4. AllLow /\ WrittenInside
    BY <2>3 DEF NoRankInv
  <2>5. CASE VisitDefs
    BY <2>1, <2>4, <2>5, NoRankVisitDefs
  <2>6. CASE GoLive
    BY <2>4, <2>6 DEF GoLive, AllLow, Low, WrittenInside
  <2>7. ASSUME NEW o \in DOMAIN prog,
               VisitResult(o) \/ VisitRead(o) \/ ReadUnreachable(o) \/ VisitRegionResult(o) \/ VisitForBody(o)
        PROVE  AllLow' /\ WrittenInside'
    <3>1. CASE ReadUnreachable(o)
      BY <2>4, <3>1 DEF ReadUnreachable, AllLow, Low, WrittenInside
    <3>2. CASE VisitResult(o) \/ VisitRead(o) \/ VisitRegionResult(o) \/ VisitForBody(o)
      BY <2>1, <2>3, <2>4, <3>2, NoRankResult, NoRankRead, NoRankRegionResult, NoRankForBody
    <3> QED
      BY <2>7, <3>1, <3>2
  <2> QED
    BY <1>2, <2>5, <2>6, <2>7 DEF NextSolver
<1> QED
  BY <1>1, <1>2

(***************************************************************************)
(* Nothing is found non-uniform or unknown without a reason: in a program  *)
(* that uses the rank for nothing and gets nothing from outside, no value  *)
(* but the rank ever is, whatever branches, loops and stores there are     *)
(* (visitOperation, analyzeMemoryEffects, onUpdate).                       *)
(***************************************************************************)
THEOREM UniformWithoutRankAlways == SpecSolver => []UniformWithoutRank
<1>1. WellFormedMemoryProgram(prog) /\ InitSolver => TypeOKUniformity /\ NoRankInv
  BY TypeInit, NoRankInit DEF NoRankInv
<1>2. TypeOKUniformity /\ NoRankInv /\ [NextSolver]_solverVars => (TypeOKUniformity /\ NoRankInv)'
  BY TypeNext, NoRankNext
<1>3. TypeOKUniformity /\ NoRankInv => UniformWithoutRank
  BY DEF UniformWithoutRank, NoRankInv, AllLow, Low, TypeOKUniformity
<1> QED
  BY <1>1, <1>2, <1>3, PTL DEF SpecSolver

=============================================================================
