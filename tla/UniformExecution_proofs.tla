------------------------ MODULE UniformExecution_proofs ------------------------
(***************************************************************************)
(* Proofs about a run of the program behind the solver, for every program  *)
(* with plain memory: what a rank loads has been written by one of the     *)
(* modifiers of the load, and by the only one where there are no branches. *)
(***************************************************************************)
EXTENDS UniformExecution, UniformityAnalysis_proofs

LOCAL INSTANCE FiniteSetsExt

(***************************************************************************)
(* Where a rank is, m is defined: behind or inside an operation it         *)
(* dominates, or by it; a memref argument is known everywhere.             *)
(***************************************************************************)
Available(p, pt, m) ==
    IF pt[2] = 0 THEN m = pt[1] \/ Dominates(p, m, pt[1]) ELSE pt # MainStart /\ Dominates(p, m, pt[1])

Known(p, pt, m) == p[m].kind = "memarg" \/ Available(p, pt, m)

FreedBefore(p, pt, m) ==
    \E f \in DOMAIN p : p[f].kind = "free" /\ f <= pt[1] /\ SourceOf(p, p[f].mem[1]) = m

(***************************************************************************)
(* The programs the theorems are about.  What is excluded is what the      *)
(* claim is not true of: a write through a memref that is yielded or has   *)
(* been selected in another iteration, or behind an operation that resets  *)
(* the state or declares no effects; elements, of which a store ends the   *)
(* definitions of the others; views of arguments, of which the entry state *)
(* knows nothing; and loads of memory that has been freed, or may have     *)
(* been in another region.                                                 *)
(***************************************************************************)
PlainMemory(p) ==
    \A o \in DOMAIN p :
        /\ p[o].kind \notin {"select", "merge", "recv", "barrier"}
        /\ p[o].elem = 0
        /\ p[o].kind = "view" => p[p[o].mem[1]].kind \in {"alloca", "malloc"}
        /\ p[o].kind = "free" =>
             /\ p[o].path = p[SourceOf(p, p[o].mem[1])].path
             /\ \A l \in DOMAIN p : p[l].kind = "load" /\ l > o => SourceOf(p, p[l].mem[1]) # SourceOf(p, p[o].mem[1])

Allocations == {"alloca", "malloc"}

(***************************************************************************)
(* What the solver keeps besides DefsInv: what arguments hold on entry is  *)
(* a definition of theirs, and a region is live, with the visit that makes *)
(* it so still on the list if it is not.                                   *)
(***************************************************************************)
EntryKept == \A m \in DOMAIN prog : prog[m].kind = "memarg" => InitialDefinition \in defs[MainStart].mods[m]

LiveInv ==
    /\ MainStart \in live
    /\ \A o \in DOMAIN prog : prog[o].kind \in RegionOps =>
         /\ \A k \in Regions(prog, o) : <<o, k>> \in live => RegionAt(prog, o) \in live
         /\ RegionAt(prog, o) \in live =>
              \/ <<"live", o, 0>> \in Range(queue)
              \/ \A k \in Regions(prog, o) : <<o, k>> \in live

-----------------------------------------------------------------------------
(* What is dominated by what is dominated. *)
LEMMA DominatesTransitive ==
    ASSUME NEW p, WellFormedMemoryProgram(p), NEW a \in DOMAIN p, NEW b \in DOMAIN p, NEW c \in DOMAIN p,
           Dominates(p, a, b), Dominates(p, b, c)
    PROVE  Dominates(p, a, c)
<1>1. a \in Nat /\ b \in Nat /\ c \in Nat /\ a < b /\ b < c
  BY OperationTyped DEF Dominates
<1>2. /\ Len(p[a].path) \in Nat /\ DOMAIN p[a].path = 1 .. Len(p[a].path)
      /\ Len(p[b].path) \in Nat /\ DOMAIN p[b].path = 1 .. Len(p[b].path) /\ Len(p[c].path) \in Nat
  BY OperationTyped
<1>3. /\ Len(p[a].path) <= Len(p[b].path) /\ Len(p[b].path) <= Len(p[c].path)
      /\ \A k \in DOMAIN p[a].path : p[b].path[k] = p[a].path[k]
      /\ \A k \in DOMAIN p[b].path : p[c].path[k] = p[b].path[k]
  BY DEF Dominates
<1> DEFINE i == Len(p[a].path)
           j == Len(p[b].path)
           n == Len(p[c].path)
<1>4. i <= n /\ 1 .. i \subseteq 1 .. j
  <2>1. i \in Nat /\ j \in Nat /\ n \in Nat /\ i <= j /\ j <= n
    BY <1>2, <1>3
  <2> HIDE DEF i, j, n
  <2> QED
    BY <2>1
<1>5. \A k \in DOMAIN p[a].path : p[c].path[k] = p[a].path[k]
  BY <1>2, <1>3, <1>4
<1>6. a < c
  BY <1>1
<1> QED
  BY <1>4, <1>5, <1>6 DEF Dominates

(* The operations around an operation, from the outside to the inside. *)
LEMMA AroundIt ==
    ASSUME NEW p, WellFormedMemoryProgram(p), NEW o \in DOMAIN p, NEW k \in DOMAIN p[o].path
    PROVE  LET b == p[o].path[k][1] IN
           /\ b \in DOMAIN p /\ b < o /\ p[b].kind \in RegionOps
           /\ k \in Nat \ {0} /\ k <= Len(p[o].path) /\ Len(p[o].path) \in Nat
           /\ p[b].path = SubSeq(p[o].path, 1, k - 1) /\ Len(p[b].path) = k - 1
           /\ \A i \in 1 .. (k - 1) : p[b].path[i] = p[o].path[i]
           /\ \A j \in (b + 1) .. o : InsideOf(p, b, j)
<1> DEFINE path == p[o].path
           b == path[k][1]
<1>1. path \in Seq((1 .. Len(p)) \X {1, 2}) /\ DOMAIN p = 1 .. Len(p) /\ NestedIn(p, o, k)
  BY OperationTyped
<1>2. /\ b < o /\ p[b].kind \in RegionOps /\ p[b].path = SubSeq(path, 1, k - 1)
      /\ \A j \in (b + 1) .. o : InsideOf(p, b, j)
  BY <1>1 DEF NestedIn
<1>3. k \in Nat \ {0} /\ k <= Len(path) /\ Len(path) \in Nat /\ path[k] \in (1 .. Len(p)) \X {1, 2}
  BY <1>1
<1>4. Len(SubSeq(path, 1, k - 1)) = k - 1 /\ \A i \in 1 .. (k - 1) : SubSeq(path, 1, k - 1)[i] = path[i]
  BY <1>1, <1>3
<1> HIDE DEF path
<1>5. b \in DOMAIN p
  BY <1>1, <1>3
<1> HIDE DEF b
<1> QED
  BY <1>2, <1>3, <1>4, <1>5 DEF path, b

(* No operation is inside itself, or twice around another. *)
LEMMA NotInsideItself ==
    ASSUME NEW p, WellFormedMemoryProgram(p), NEW b \in DOMAIN p
    PROVE  ~InsideOf(p, b, b)
<1> SUFFICES ASSUME NEW k \in DOMAIN p[b].path, p[b].path[k][1] = b
             PROVE  FALSE
  BY DEF InsideOf
<1>1. b < b /\ b \in Nat
  BY AroundIt, OperationTyped
<1> QED
  BY <1>1

(* An operation is around another at one depth only. *)
LEMMA AroundOnce ==
    ASSUME NEW p, WellFormedMemoryProgram(p), NEW o \in DOMAIN p, NEW i \in DOMAIN p[o].path,
           NEW j \in DOMAIN p[o].path, p[o].path[i][1] = p[o].path[j][1]
    PROVE  i = j
<1>1. Len(p[p[o].path[i][1]].path) = i - 1 /\ Len(p[p[o].path[j][1]].path) = j - 1
  BY AroundIt
<1>2. i \in Nat /\ j \in Nat
  BY AroundIt
<1>3. i - 1 = j - 1
  BY <1>1
<1> QED
  BY <1>2, <1>3

(* Regions entered behind a memref's definition are of operations behind it. *)
LEMMA OuterFirst ==
    ASSUME NEW p, WellFormedMemoryProgram(p), NEW m \in DOMAIN p, NEW o \in DOMAIN p, Dominates(p, m, o),
           p[m].kind \notin RegionOps, NEW k \in DOMAIN p[o].path, k > Len(p[m].path)
    PROVE  m < p[o].path[k][1]
<1> DEFINE c == p[o].path[k][1]
<1>1. c \in DOMAIN p /\ p[c].kind \in RegionOps /\ \A j \in (c + 1) .. o : InsideOf(p, c, j)
  BY AroundIt
<1>2. c \in Nat /\ m \in Nat /\ o \in Nat
  <2> HIDE DEF c
  <2>1. c \in 1 .. Len(p) /\ m \in 1 .. Len(p) /\ o \in 1 .. Len(p) /\ Len(p) \in Nat
    BY <1>1, OperationTyped
  <2> QED
    BY <2>1
<1>3. m < o /\ DOMAIN p[m].path = 1 .. Len(p[m].path) /\ Len(p[m].path) \in Nat
      /\ Len(p[m].path) <= Len(p[o].path) /\ Len(p[o].path) \in Nat /\ DOMAIN p[o].path = 1 .. Len(p[o].path)
  BY OperationTyped DEF Dominates
<1>4. c # m
  BY <1>1
<1>5. ASSUME c < m
      PROVE  FALSE
  <2>1. InsideOf(p, c, m)
    <3>1. m \in (c + 1) .. o
      <4> HIDE DEF c
      <4> QED
        BY <1>2, <1>3, <1>5
    <3> QED
      BY <1>1, <3>1
  <2>2. PICK i \in DOMAIN p[m].path : p[m].path[i][1] = c
    BY <2>1 DEF InsideOf
  <2>3. p[o].path[i] = p[m].path[i]
    BY DEF Dominates
  <2>4. i \in DOMAIN p[o].path /\ i \in Nat /\ i <= Len(p[m].path)
    <3> DEFINE u == Len(p[m].path)
               v == Len(p[o].path)
    <3>1. i \in 1 .. u /\ u \in Nat /\ v \in Nat /\ u <= v /\ DOMAIN p[o].path = 1 .. v
      BY <1>3
    <3> HIDE DEF u, v
    <3> QED
      BY <3>1 DEF u
  <2>5. i = k
    BY <2>2, <2>3, <2>4, AroundOnce
  <2> QED
    <3> DEFINE u == Len(p[m].path)
    <3>1. u \in Nat /\ k > u /\ k <= u
      BY <1>3, <2>4, <2>5
    <3>2. k \in Nat
      BY <2>4, <2>5
    <3> HIDE DEF u
    <3> QED
      BY <3>1, <3>2
<1> QED
  <2>1. m < c
    <3> HIDE DEF c
    <3> QED
      BY <1>2, <1>4, <1>5
  <2> QED
    BY <2>1

-----------------------------------------------------------------------------
(* The region a point is in. *)
RegionOfPoint(p, pt) == IF pt[2] = 0 THEN RegionAt(p, pt[1]) ELSE pt

(* The region around a point, and its path. *)
LEMMA RegionOfPointIs ==
    ASSUME NEW p, WellFormedMemoryProgram(p), NEW pt \in VisitedPoints(p)
    PROVE  LET reg == RegionOfPoint(p, pt) IN
           /\ reg \in VisitedPoints(p) /\ reg[2] # 0
           /\ pt[2] = 0 =>
                /\ pt[1] \in OpsIn(p, reg[1], reg[2]) /\ pt = <<pt[1], 0>> /\ pt[1] \in DOMAIN p
                /\ reg[1] < pt[1] /\ p[pt[1]].path = RegionPath(p, reg[1], reg[2])
           /\ pt[2] # 0 => reg = pt
<1> DEFINE reg == RegionOfPoint(p, pt)
<1>1. CASE pt[2] = 0
  <2>1. pt # MainStart
    BY <1>1 DEF MainStart
  <2>2. pt[1] \in DOMAIN p /\ p[pt[1]].kind \notin Arguments /\ pt = <<pt[1], 0>>
    BY <1>1, <2>1, PointParts DEF VisitedPoints
  <2>3. reg = RegionAt(p, pt[1])
    BY <1>1 DEF RegionOfPoint
  <2>4. reg \in VisitedPoints(p) /\ reg[2] # 0 /\ reg[1] < pt[1] /\ pt[1] \in OpsIn(p, reg[1], reg[2])
    BY <2>2, <2>3, RegionPoint
  <2>5. p[pt[1]].path = RegionPath(p, reg[1], reg[2])
    BY <2>4 DEF OpsIn
  <2> QED
    BY <1>1, <2>2, <2>4, <2>5
<1>2. CASE pt[2] # 0
  BY <1>2 DEF RegionOfPoint
<1> QED
  BY <1>1, <1>2

(* The greatest element is known by its being one. *)
LEMMA GreatestIs ==
    ASSUME NEW n \in Nat, NEW T, T \subseteq 1 .. n, NEW x \in T, \A y \in T : y <= x
    PROVE  Max(T) = x
<1>1. T # {}
  OBVIOUS
<1>2. Max(T) \in T /\ \A y \in T : y <= Max(T)
  BY <1>1, GreatestOf
<1>3. PICK z \in T : z = Max(T) /\ x <= z
  BY <1>2
<1>4. z <= x /\ x \in Nat /\ z \in Nat
  OBVIOUS
<1> QED
  BY <1>3, <1>4

(* The operation that is next in the region of a point has the point before it. *)
LEMMA NextIsBehind ==
    ASSUME NEW p, WellFormedMemoryProgram(p), NEW pt \in VisitedPoints(p), NEW o,
           o \in OpsIn(p, RegionOfPoint(p, pt)[1], RegionOfPoint(p, pt)[2]), o > pt[1],
           \A j \in OpsIn(p, RegionOfPoint(p, pt)[1], RegionOfPoint(p, pt)[2]) : j > pt[1] => o <= j
    PROVE  /\ o \in DOMAIN p /\ p[o].kind \notin Arguments
           /\ RegionAt(p, o) = RegionOfPoint(p, pt) /\ Before(p, o) = pt
<1> DEFINE reg == RegionOfPoint(p, pt)
           ops == OpsIn(p, reg[1], reg[2])
           earlier == {j \in ops : j < o}
<1>1. reg \in VisitedPoints(p) /\ reg \in Points(p) /\ reg[2] # 0
  BY RegionOfPointIs DEF VisitedPoints
<1>2. o \in DOMAIN p /\ p[o].kind \notin Arguments /\ RegionAt(p, o) = reg
  <2> HIDE DEF reg
  <2> QED
    BY <1>1, RegionOfOp DEF reg
<1>3. Before(p, o) = IF earlier = {} THEN reg ELSE <<Max(earlier), 0>>
  <2> HIDE DEF reg
  <2> QED
    BY <1>2 DEF Before
<1>4. ops \subseteq 1 .. Len(p) /\ Len(p) \in Nat
  BY OpsNumbered
<1>5. CASE pt[2] = 0
  <2>1. pt[1] \in ops /\ pt = <<pt[1], 0>>
    BY <1>5, RegionOfPointIs
  <2>2. \A j \in ops : j > pt[1] => o <= j
    OBVIOUS
  <2>3. pt[1] \in earlier
    BY <2>1
  <2> HIDE DEF ops
  <2>4. \A j \in earlier : j <= pt[1]
    BY <1>4, <2>1, <2>2, <1>2
  <2>5. earlier \subseteq 1 .. Len(p)
    BY <1>4
  <2> HIDE DEF earlier
  <2>7. Max(earlier) = pt[1]
    BY <1>4, <2>3, <2>4, <2>5, GreatestIs
  <2> QED
    BY <1>2, <1>3, <2>1, <2>3, <2>7
<1>6. CASE pt[2] # 0
  <2>1. reg = pt
    BY <1>6, RegionOfPointIs
  <2>2. \A j \in ops : j > pt[1]
    <3>1. \A j \in OpsIn(p, pt[1], pt[2]) : j > pt[1]
      BY <1>1, <1>6, <2>1, RegionOfOp
    <3> QED
      BY <2>1, <3>1
  <2>3. \A j \in ops : o <= j
    BY <2>2
  <2>4. earlier = {}
    <3>1. o \in 1 .. Len(p)
      BY <1>2, OperationTyped
    <3>2. \A j \in ops : ~(j < o)
      <4> HIDE DEF ops
      <4> QED
        BY <1>4, <2>3, <3>1
    <3> HIDE DEF ops
    <3> QED
      BY <3>2
  <2> QED
    BY <1>2, <1>3, <2>1, <2>4
<1> QED
  BY <1>5, <1>6

(* Where no operation is next, the point is the end of its region. *)
LEMMA NoneIsBehind ==
    ASSUME NEW p, WellFormedMemoryProgram(p), NEW pt \in VisitedPoints(p),
           \A j \in OpsIn(p, RegionOfPoint(p, pt)[1], RegionOfPoint(p, pt)[2]) : ~(j > pt[1])
    PROVE  EndOf(p, RegionOfPoint(p, pt)[1], RegionOfPoint(p, pt)[2]) = pt
<1> DEFINE reg == RegionOfPoint(p, pt)
           ops == OpsIn(p, reg[1], reg[2])
<1>1. reg \in VisitedPoints(p) /\ reg \in Points(p) /\ reg[2] # 0
  BY RegionOfPointIs DEF VisitedPoints
<1>2. EndOf(p, reg[1], reg[2]) = IF ops = {} THEN <<reg[1], reg[2]>> ELSE <<Max(ops), 0>>
  BY DEF EndOf
<1>3. ops \subseteq 1 .. Len(p) /\ Len(p) \in Nat
  BY OpsNumbered
<1>4. CASE pt[2] = 0
  <2>1. pt[1] \in ops /\ pt = <<pt[1], 0>>
    BY <1>4, RegionOfPointIs
  <2>2. \A j \in ops : ~(j > pt[1])
    OBVIOUS
  <2> HIDE DEF ops, reg
  <2>3. \A j \in ops : j <= pt[1]
    BY <1>3, <2>1, <2>2
  <2>4. Max(ops) = pt[1]
    BY <1>3, <2>1, <2>3, GreatestIs
  <2> QED
    BY <1>2, <2>1, <2>4 DEF reg
<1>5. CASE pt[2] # 0
  <2>1. reg = pt
    BY <1>5, RegionOfPointIs
  <2>2. \A j \in OpsIn(p, pt[1], pt[2]) : j > pt[1]
    BY <1>1, <1>5, <2>1, RegionOfOp
  <2>3. ops = {}
    BY <2>1, <2>2
  <2>4. pt = <<pt[1], pt[2]>>
    BY <1>1, <2>1, PointParts DEF MainStart
  <2> QED
    BY <1>2, <2>1, <2>3, <2>4
<1> QED
  BY <1>4, <1>5

(* A path that is as long as the one it starts is that one. *)
LEMMA SamePath ==
    ASSUME NEW p, WellFormedMemoryProgram(p), NEW m \in DOMAIN p, NEW o \in DOMAIN p, Dominates(p, m, o),
           Len(p[m].path) = Len(p[o].path)
    PROVE  p[m].path = p[o].path
<1>1. p[m].path \in Seq((1 .. Len(p)) \X {1, 2}) /\ p[o].path \in Seq((1 .. Len(p)) \X {1, 2})
  BY OperationTyped
<1>2. \A k \in DOMAIN p[m].path : p[o].path[k] = p[m].path[k]
  BY DEF Dominates
<1> DEFINE a == p[m].path
           b == p[o].path
<1>3. a \in Seq((1 .. Len(p)) \X {1, 2}) /\ b \in Seq((1 .. Len(p)) \X {1, 2}) /\ Len(a) = Len(b)
      /\ \A k \in DOMAIN a : b[k] = a[k]
  BY <1>1, <1>2
<1> HIDE DEF a, b
<1>4. \A k \in 1 .. Len(a) : a[k] = b[k]
  BY <1>3
<1>5. a = b
  BY <1>3, <1>4, SeqEqual
<1> QED
  BY <1>5 DEF a, b

(* What is available behind an operation or in its regions is available before it, but for its own result. *)
LEMMA AvailableBefore ==
    ASSUME NEW p, WellFormedMemoryProgram(p), NEW m \in DOMAIN p, NEW o \in DOMAIN p, Dominates(p, m, o),
           p[m].kind \in MemrefOps \ Arguments, p[o].kind \notin Arguments
    PROVE  Available(p, Before(p, o), m)
<1> DEFINE reg == RegionAt(p, o)
           ops == OpsIn(p, reg[1], reg[2])
           earlier == {j \in ops : j < o}
<1>1. Before(p, o) = IF earlier = {} THEN reg ELSE <<Max(earlier), 0>>
  BY DEF Before
<1>2. o \in ops /\ reg \in VisitedPoints(p) /\ reg[2] # 0 /\ reg[1] < o
  BY RegionPoint
<1>3. ops \subseteq 1 .. Len(p) /\ Len(p) \in Nat
      /\ \A j \in ops : j \in DOMAIN p /\ p[j].path = p[o].path
  <2>1. \A j \in ops : p[j].path = RegionPath(p, reg[1], reg[2])
    BY OpsNumbered
  <2>2. \A j \in ops : j \in DOMAIN p
    BY OpsNumbered
  <2> QED
    BY <1>2, <2>1, <2>2, OpsNumbered
<1>4. m < o /\ Len(p[m].path) <= Len(p[o].path) /\ \A k \in DOMAIN p[m].path : p[o].path[k] = p[m].path[k]
  BY DEF Dominates
<1>5. p[m].kind \notin RegionOps /\ p[m].kind \notin Arguments
  BY DEF MemrefOps, RegionOps
<1>6. p[m].path = p[o].path => m \in earlier
  <2> SUFFICES ASSUME p[m].path = p[o].path
               PROVE  m \in earlier
    OBVIOUS
  <2>1. p[m].path = RegionPath(p, reg[1], reg[2])
    BY <1>2 DEF OpsIn
  <2>2. m \in ops
    BY <1>5, <2>1 DEF OpsIn
  <2> QED
    BY <1>4, <2>2
<1>7. Len(p[m].path) \in Nat /\ Len(p[o].path) \in Nat /\ DOMAIN p[o].path = 1 .. Len(p[o].path)
      /\ DOMAIN p[m].path = 1 .. Len(p[m].path)
  BY OperationTyped
<1>8. CASE earlier # {}
  <2>0. earlier \subseteq 1 .. Len(p)
    BY <1>3
  <2>1. PICK j : j = Max(earlier) /\ j \in earlier /\ \A i \in earlier : i <= j
    <3> HIDE DEF earlier
    <3> QED
      BY <1>3, <1>8, <2>0, GreatestOf
  <2>2. j \in DOMAIN p /\ p[j].path = p[o].path
    BY <1>3, <2>1
  <2>3. m = j \/ m < j
    <3>1. CASE p[m].path = p[o].path
      <4>1. m \in earlier /\ m <= j
        BY <1>6, <2>1, <3>1
      <4>2. m \in Nat /\ j \in Nat
        BY <2>0, <2>1, <4>1
      <4> QED
        BY <4>1, <4>2
    <3>2. CASE p[m].path # p[o].path
      <4> DEFINE u == Len(p[m].path)
                 v == Len(p[o].path)
      <4>1. u # v
        BY <3>2, SamePath
      <4>2. u + 1 \in 1 .. v /\ u + 1 > u
        <5>1. u \in Nat /\ v \in Nat /\ u <= v
          BY <1>4, <1>7
        <5> HIDE DEF u, v
        <5> QED
          BY <4>1, <5>1
      <4> HIDE DEF u, v
      <4>3. u + 1 \in DOMAIN p[o].path /\ u + 1 > Len(p[m].path)
        BY <1>7, <4>2 DEF u, v
      <4>4. m < p[o].path[u + 1][1]
        BY <1>5, <4>3, OuterFirst
      <4>5. p[j].path[u + 1][1] < j /\ p[j].path[u + 1][1] \in DOMAIN p
        BY <2>2, <4>3, AroundIt
      <4> DEFINE c == p[j].path[u + 1][1]
      <4>6. m < c /\ c < j /\ c \in 1 .. Len(p) /\ m \in 1 .. Len(p) /\ j \in 1 .. Len(p)
        BY <2>2, <4>4, <4>5, OperationTyped
      <4> HIDE DEF c
      <4> QED
        BY <1>3, <4>6
    <3> QED
      BY <3>1, <3>2
  <2>4. m = j \/ Dominates(p, m, j)
    BY <1>4, <2>2, <2>3 DEF Dominates
  <2>5. Before(p, o) = <<j, 0>>
    BY <1>1, <1>8, <2>1
  <2> QED
    BY <2>4, <2>5 DEF Available
<1>9. CASE earlier = {}
  <2>1. Before(p, o) = reg
    BY <1>1, <1>9
  <2>2. p[m].path # p[o].path
    BY <1>6, <1>9
  <2> DEFINE u == Len(p[m].path)
             v == Len(p[o].path)
  <2>3. u # v
    BY <2>2, SamePath
  <2>4. u + 1 \in 1 .. v /\ u <= v - 1 /\ v \in 1 .. v
    <3>1. u \in Nat /\ v \in Nat /\ u <= v
      BY <1>4, <1>7
    <3> HIDE DEF u, v
    <3> QED
      BY <2>3, <3>1
  <2>5. p[o].path # <<>>
    BY <2>4
  <2>6. PICK b \in 1 .. (o - 1) : \E r \in Regions(p, b) :
                    /\ RegionAt(p, o) = <<b, r>>
                    /\ b \in DOMAIN p /\ p[b].kind \in RegionOps
                    /\ p[o].path = RegionPath(p, b, r)
                    /\ p[o].path[Len(p[o].path)] = <<b, r>>
    BY <2>5, RegionOf
  <2>7. b \in DOMAIN p /\ reg[1] = b /\ p[o].path[v][1] = b
    BY <2>6
  <2>8. v \in DOMAIN p[o].path
    BY <1>7, <2>4
  <2>9. Len(p[b].path) = v - 1 /\ \A i \in 1 .. (v - 1) : p[b].path[i] = p[o].path[i]
    <3> HIDE DEF v
    <3>1. Len(p[p[o].path[v][1]].path) = v - 1
          /\ \A i \in 1 .. (v - 1) : p[p[o].path[v][1]].path[i] = p[o].path[i]
      BY <2>8, AroundIt
    <3> QED
      BY <2>7, <3>1
  <2>10. m < b
    <3>1. v > u
      <4>1. u \in Nat /\ v \in Nat
        BY <1>7
      <4> HIDE DEF u, v
      <4> QED
        BY <2>4, <4>1
    <3> QED
      BY <1>5, <2>7, <2>8, <3>1, OuterFirst
  <2>11. \A k \in DOMAIN p[m].path : p[b].path[k] = p[m].path[k]
    <3>1. \A k \in 1 .. u : k \in 1 .. (v - 1)
      <4>1. u \in Nat /\ v \in Nat
        BY <1>7
      <4> HIDE DEF u, v
      <4> QED
        BY <2>4, <4>1
    <3> QED
      BY <1>4, <1>7, <2>9, <3>1
  <2>12. Dominates(p, m, b)
    BY <2>4, <2>9, <2>10, <2>11 DEF Dominates
  <2>13. reg # MainStart
    <3>1. b \in 1 .. Len(p)
      BY <2>7, OperationTyped
    <3> QED
      BY <2>7, <3>1 DEF MainStart
  <2> QED
    BY <1>2, <2>1, <2>7, <2>12, <2>13 DEF Available
<1> QED
  BY <1>8, <1>9

(* What is available behind an operation with regions is available everywhere in them. *)
LEMMA AvailableInside ==
    ASSUME NEW p, WellFormedMemoryProgram(p), NEW pt \in VisitedPoints(p), NEW m \in DOMAIN p,
           RegionOfPoint(p, pt) # MainStart, Dominates(p, m, RegionOfPoint(p, pt)[1])
    PROVE  Available(p, pt, m)
<1> DEFINE reg == RegionOfPoint(p, pt)
           b == reg[1]
<1>1. reg \in VisitedPoints(p) /\ reg[2] # 0 /\ reg \in Points(p)
  BY RegionOfPointIs DEF VisitedPoints
<1>2. b \in DOMAIN p /\ reg = <<b, reg[2]>>
  BY <1>1, PointParts
<1>3. CASE pt[2] # 0
  <2>1. reg = pt
    BY <1>3, RegionOfPointIs
  <2> QED
    BY <1>3, <2>1 DEF Available
<1>4. CASE pt[2] = 0
  <2>1. pt[1] \in DOMAIN p /\ b < pt[1] /\ p[pt[1]].path = RegionPath(p, b, reg[2])
    BY <1>4, RegionOfPointIs
  <2>2. b \in 1 .. Len(p) /\ m \in 1 .. Len(p) /\ pt[1] \in 1 .. Len(p) /\ Len(p) \in Nat
        /\ p[b].path \in Seq((1 .. Len(p)) \X {1, 2}) /\ DOMAIN p[m].path = 1 .. Len(p[m].path) /\ Len(p[m].path) \in Nat
    BY <1>2, <2>1, OperationTyped
  <2>3. p[pt[1]].path = Append(p[b].path, <<b, reg[2]>>)
    BY <2>1, <2>2 DEF RegionPath
  <2> DEFINE up == p[b].path
  <2> HIDE DEF up
  <2>4. up \in Seq((1 .. Len(p)) \X {1, 2}) /\ p[pt[1]].path = Append(up, <<b, reg[2]>>)
    BY <2>2, <2>3 DEF up
  <2>5. Len(up) \in Nat /\ Len(Append(up, <<b, reg[2]>>)) = Len(up) + 1
        /\ \A k \in 1 .. Len(up) : Append(up, <<b, reg[2]>>)[k] = up[k]
    BY <2>4
  <2>6. Len(p[m].path) <= Len(up) /\ \A k \in DOMAIN p[m].path : up[k] = p[m].path[k]
    BY DEF Dominates, up
  <2> DEFINE i == Len(p[m].path)
             n == Len(up)
             q == p[pt[1]].path
  <2>7. i \in Nat /\ n \in Nat /\ i <= n /\ Len(q) = n + 1 /\ (\A k \in 1 .. n : q[k] = up[k])
        /\ DOMAIN p[m].path = 1 .. i
    BY <2>2, <2>4, <2>5, <2>6
  <2>8. i <= Len(q) /\ \A k \in DOMAIN p[m].path : q[k] = p[m].path[k]
    <3> HIDE DEF i, n, q
    <3>1. i <= Len(q) /\ 1 .. i \subseteq 1 .. n
      BY <2>7
    <3> QED
      BY <2>6, <2>7, <3>1
  <2>9. m < pt[1]
    <3>1. m < b
      BY DEF Dominates
    <3> HIDE DEF b
    <3> QED
      BY <2>1, <2>2, <3>1
  <2>10. Dominates(p, m, pt[1])
    BY <2>8, <2>9 DEF Dominates
  <2> QED
    BY <1>4, <2>10 DEF Available
<1> QED
  BY <1>3, <1>4

-----------------------------------------------------------------------------
(***************************************************************************)
(* A memory is freed in the region it is from, so that whoever leaves a    *)
(* region it is known outside of has not gone by the free inside.          *)
(***************************************************************************)
LEMMA FreedOutside ==
    ASSUME NEW p, WellFormedMemoryProgram(p), NEW pt \in VisitedPoints(p), NEW m \in DOMAIN p, NEW f \in DOMAIN p,
           RegionOfPoint(p, pt) # MainStart, p[m].kind = "memarg" \/ Dominates(p, m, RegionOfPoint(p, pt)[1]),
           p[f].path = p[m].path, f <= pt[1]
    PROVE  f <= RegionOfPoint(p, pt)[1]
<1> DEFINE reg == RegionOfPoint(p, pt)
           b == reg[1]
<1>1. reg \in VisitedPoints(p) /\ reg[2] # 0 /\ reg \in Points(p)
  BY RegionOfPointIs DEF VisitedPoints
<1>2. b \in DOMAIN p /\ reg = <<b, reg[2]>>
  BY <1>1, PointParts
<1>3. CASE pt[2] # 0
  BY <1>3, RegionOfPointIs
<1>4. CASE pt[2] = 0
  <2>1. pt[1] \in DOMAIN p /\ p[pt[1]].path = RegionPath(p, b, reg[2]) /\ pt[1] \in OpsIn(p, b, reg[2])
    BY <1>4, RegionOfPointIs
  <2>2. b \in 1 .. Len(p) /\ f \in 1 .. Len(p) /\ pt[1] \in 1 .. Len(p) /\ Len(p) \in Nat
        /\ p[b].path \in Seq((1 .. Len(p)) \X {1, 2})
    BY <1>2, <2>1, OperationTyped
  <2>3. p[pt[1]].path = Append(p[b].path, <<b, reg[2]>>)
    BY <2>1, <2>2 DEF RegionPath
  <2>4. Len(p[b].path) + 1 \in DOMAIN p[pt[1]].path /\ p[pt[1]].path[Len(p[b].path) + 1] = <<b, reg[2]>>
    <3>1. reg[2] \in {1, 2}
      BY <1>1, <1>2, PointParts, RegionsTyped
    <3> DEFINE up == p[b].path
               y  == <<b, reg[2]>>
               X  == (1 .. Len(p)) \X {1, 2}
    <3>2. up \in Seq(X) /\ y \in X /\ p[pt[1]].path = Append(up, y)
      BY <2>2, <2>3, <3>1
    <3> HIDE DEF up, y, X
    <3>3. Len(up) + 1 \in DOMAIN Append(up, y) /\ Append(up, y)[Len(up) + 1] = y
      BY <3>2
    <3> QED
      BY <3>2, <3>3 DEF up, y
  <2>5. \A j \in (b + 1) .. pt[1] : InsideOf(p, b, j)
    <3> DEFINE k == Len(p[b].path) + 1
    <3>1. k \in DOMAIN p[pt[1]].path /\ p[pt[1]].path[k][1] = b
      BY <2>4
    <3> HIDE DEF k, b
    <3> QED
      BY <2>1, <3>1, AroundIt
  <2>6. ASSUME ~(f <= b)
        PROVE  FALSE
    <3>1. f \in (b + 1) .. pt[1]
      <4> HIDE DEF b
      <4> QED
        BY <2>2, <2>6
    <3>2. InsideOf(p, b, f)
      BY <2>5, <3>1
    <3>3. PICK k \in DOMAIN p[m].path : p[m].path[k][1] = b
      BY <3>2 DEF InsideOf
    <3>4. p[m].kind # "memarg"
      <4>1. p[m].kind = "memarg" => p[m].path = <<>>
        BY OperationTyped DEF Arguments
      <4> QED
        BY <3>3, <4>1
    <3>5. Dominates(p, m, b)
      BY <3>4
    <3>6. p[b].path[k] = p[m].path[k] /\ k \in DOMAIN p[b].path
      <4> DEFINE u == Len(p[m].path)
                 v == Len(p[b].path)
      <4>1. u \in Nat /\ v \in Nat /\ u <= v /\ DOMAIN p[b].path = 1 .. v /\ DOMAIN p[m].path = 1 .. u
        BY <1>2, <3>5, OperationTyped DEF Dominates
      <4>2. 1 .. u \subseteq 1 .. v
        <5> HIDE DEF u, v
        <5> QED
          BY <4>1
      <4> QED
        BY <3>3, <3>5, <4>1, <4>2 DEF Dominates
    <3>7. InsideOf(p, b, b)
      BY <3>3, <3>6 DEF InsideOf
    <3> QED
      BY <1>2, <3>7, NotInsideItself
  <2> QED
    BY <2>6
<1> QED
  BY <1>3, <1>4

(* The point before an operation belongs to an earlier one. *)
LEMMA BeforeEarlier ==
    ASSUME NEW p, WellFormedMemoryProgram(p), NEW o \in DOMAIN p
    PROVE  Before(p, o)[1] < o
<1> DEFINE reg == RegionAt(p, o)
           earlier == {j \in OpsIn(p, reg[1], reg[2]) : j < o}
<1>1. Before(p, o) = IF earlier = {} THEN reg ELSE <<Max(earlier), 0>>
  BY DEF Before
<1>2. reg[1] < o
  BY RegionPoint
<1>3. earlier \subseteq 1 .. Len(p) /\ Len(p) \in Nat
  BY OpsNumbered
<1>4. ASSUME earlier # {}
      PROVE  Max(earlier) < o
  <2>1. Max(earlier) \in earlier
    <3> HIDE DEF earlier
    <3> QED
      BY <1>3, <1>4, GreatestOf
  <2> QED
    BY <2>1
<1> HIDE DEF earlier, reg
<1> QED
  BY <1>1, <1>2, <1>4

-----------------------------------------------------------------------------
(* Memrefs of a program.  A memref operand is defined in front of the operation. *)
LEMMA MemrefOperand ==
    ASSUME NEW p, WellFormedMemoryProgram(p), NEW o \in DOMAIN p, NEW k \in 1 .. Len(p[o].mem)
    PROVE  p[o].mem[k] \in DOMAIN p /\ Dominates(p, p[o].mem[k], o) /\ p[p[o].mem[k]].kind \in MemrefOps
<1>1. p[o].mem \in Seq(1 .. Len(p)) /\ DOMAIN p = 1 .. Len(p)
      /\ \A i \in DOMAIN p[o].mem : Dominates(p, p[o].mem[i], o) /\ p[p[o].mem[i]].kind \in MemrefOps
  BY OperationTyped
<1>2. k \in DOMAIN p[o].mem /\ p[o].mem[k] \in 1 .. Len(p)
  BY <1>1
<1> QED
  BY <1>1, <1>2

(* The operations that access memory have the memref operands they access. *)
LEMMA FirstMemref ==
    ASSUME NEW p, WellFormedMemoryProgram(p), NEW o \in DOMAIN p, p[o].kind \in {"load", "store", "view", "free", "bcast", "scatter"}
    PROVE  /\ p[o].mem[1] \in DOMAIN p /\ Dominates(p, p[o].mem[1], o) /\ p[p[o].mem[1]].kind \in MemrefOps
           /\ p[o].kind \in {"bcast", "scatter"} =>
                p[o].mem[2] \in DOMAIN p /\ Dominates(p, p[o].mem[2], o) /\ p[p[o].mem[2]].kind \in MemrefOps
<1>1. HasOperands(p[o])
  BY OperationTyped
<1>2. Len(p[o].mem) = 1 \/ Len(p[o].mem) = 2
  BY <1>1 DEF HasOperands
<1>3. 1 \in 1 .. Len(p[o].mem)
  <2> DEFINE n == Len(p[o].mem)
  <2>1. n = 1 \/ n = 2
    BY <1>2
  <2> HIDE DEF n
  <2>2. 1 \in 1 .. n
    BY <2>1
  <2> QED
    BY <2>2 DEF n
<1>4. p[o].kind \in {"bcast", "scatter"} => 2 \in 1 .. Len(p[o].mem)
  BY <1>1 DEF HasOperands
<1> QED
  BY <1>3, <1>4, MemrefOperand

(* In plain memory a memref is a memory of its own or a view of an allocation. *)
LEMMA SourceIs ==
    ASSUME NEW p, WellFormedMemoryProgram(p), PlainMemory(p), NEW m \in DOMAIN p, p[m].kind \in MemrefOps
    PROVE  LET R == SourceOf(p, m) IN
           /\ R \in DOMAIN p /\ p[R].kind \in {"memarg"} \union Allocations /\ SourceOf(p, R) = R
           /\ R = m \/ (p[m].kind = "view" /\ R = p[m].mem[1] /\ p[R].kind \in Allocations /\ Dominates(p, R, m))
<1>1. p[m].kind \in {"memarg", "alloca", "malloc", "view"}
  BY DEF PlainMemory, MemrefOps
<1>2. CASE p[m].kind = "view"
  <2>1. SourceOf(p, m) = p[m].mem[1]
    BY <1>2 DEF SourceOf
  <2>2. p[m].mem[1] \in DOMAIN p /\ Dominates(p, p[m].mem[1], m)
    BY <1>2, FirstMemref
  <2>3. p[p[m].mem[1]].kind \in Allocations
    BY <1>2 DEF PlainMemory, Allocations
  <2>4. SourceOf(p, p[m].mem[1]) = p[m].mem[1]
    BY <2>3 DEF SourceOf, Allocations
  <2> QED
    BY <1>2, <2>1, <2>2, <2>3, <2>4
<1>3. CASE p[m].kind # "view"
  <2>1. SourceOf(p, m) = m
    BY <1>3 DEF SourceOf
  <2> QED
    BY <1>1, <1>3, <2>1 DEF Allocations
<1> QED
  BY <1>2, <1>3

(* Effects are declared on memrefs. *)
LEMMA PlainEffects ==
    ASSUME NEW p, WellFormedMemoryProgram(p), PlainMemory(p), NEW o \in DOMAIN p
    PROVE  /\ \A i \in DOMAIN Effects(p, o) : Effects(p, o)[i][2] \in DOMAIN p /\ p[Effects(p, o)[i][2]].kind \in MemrefOps
           /\ ~Resets(p, o) /\ DeclaresEffects(p, o) /\ ~GivesUp(p, o)
           /\ EffectsHandled(p, o) = Effects(p, o)
<1>1. p[o].kind \notin {"select", "merge", "recv", "barrier"}
  BY DEF PlainMemory
<1>2. ASSUME NEW i \in DOMAIN Effects(p, o)
      PROVE  Effects(p, o)[i][2] \in DOMAIN p /\ p[Effects(p, o)[i][2]].kind \in MemrefOps
  <2>1. CASE p[o].kind \in {"alloca", "malloc"}
    <3>1. Effects(p, o) = <<<<"Allocate", o>>>>
      BY <2>1 DEF Effects
    <3> QED
      BY <1>2, <2>1, <3>1 DEF MemrefOps
  <2>2. CASE p[o].kind \in {"load", "store", "free"}
    <3>1. \E k : Effects(p, o) = <<<<k, p[o].mem[1]>>>>
      BY <2>2 DEF Effects
    <3>2. p[o].mem[1] \in DOMAIN p /\ p[p[o].mem[1]].kind \in MemrefOps
      BY <2>2, FirstMemref
    <3> QED
      BY <1>2, <3>1, <3>2
  <2>3. CASE p[o].kind \in {"bcast", "scatter"}
    <3>1. Effects(p, o) = <<<<"Read", p[o].mem[1]>>, <<"Write", p[o].mem[2]>>>>
      BY <2>3 DEF Effects
    <3>2. p[o].mem[1] \in DOMAIN p /\ p[p[o].mem[1]].kind \in MemrefOps /\ p[o].mem[2] \in DOMAIN p /\ p[p[o].mem[2]].kind \in MemrefOps
      BY <2>3, FirstMemref
    <3> QED
      BY <1>2, <3>1, <3>2
  <2>4. CASE p[o].kind \notin {"alloca", "malloc", "load", "store", "free", "bcast", "scatter"}
    <3>1. Effects(p, o) = <<>>
      BY <1>1, <2>4 DEF Effects
    <3> QED
      BY <1>2, <3>1
  <2> QED
    BY <2>1, <2>2, <2>3, <2>4
<1>3. ~Resets(p, o) /\ DeclaresEffects(p, o)
  BY <1>1, OnlyRecvResets DEF DeclaresEffects
<1>4. \A i \in DOMAIN Effects(p, o) : HasUnderlyingValue(p, Effects(p, o)[i][2])
  <2>1. ASSUME NEW i \in DOMAIN Effects(p, o)
        PROVE  HasUnderlyingValue(p, Effects(p, o)[i][2])
    <3>1. Effects(p, o)[i][2] \in DOMAIN p
      BY <1>2
    <3> QED
      BY <3>1 DEF PlainMemory, HasUnderlyingValue
  <2> QED
    BY <2>1
<1>5. ~GivesUp(p, o) /\ EffectsHandled(p, o) = Effects(p, o)
  <2>1. {i \in DOMAIN Effects(p, o) : ~HasUnderlyingValue(p, Effects(p, o)[i][2])} = {}
    BY <1>4
  <2> QED
    BY <1>4, <2>1 DEF GivesUp, EffectsHandled
<1> QED
  BY <1>2, <1>3, <1>5

(* The memory resources the analysis keeps a state of are memrefs, and loads read them. *)
LEMMA ResourcesAre ==
    ASSUME NEW p, WellFormedMemoryProgram(p), PlainMemory(p)
    PROVE  /\ \A m \in MemoryResources(p) : m \in DOMAIN p /\ p[m].kind \in MemrefOps
           /\ \A o \in DOMAIN p : p[o].kind = "load" => p[o].mem[1] \in MemoryResources(p)
<1>1. ASSUME NEW m \in MemoryResources(p)
      PROVE  m \in DOMAIN p /\ p[m].kind \in MemrefOps
  <2>1. PICK o \in DOMAIN p : m \in {Effects(p, o)[i][2] : i \in DOMAIN Effects(p, o)}
    BY DEF MemoryResources
  <2>2. PICK i \in DOMAIN Effects(p, o) : m = Effects(p, o)[i][2]
    BY <2>1
  <2> QED
    BY <2>2, PlainEffects
<1>2. ASSUME NEW o \in DOMAIN p, p[o].kind = "load"
      PROVE  p[o].mem[1] \in MemoryResources(p)
  <2>1. Effects(p, o) = <<<<"Read", p[o].mem[1]>>>>
    BY <1>2 DEF Effects
  <2>2. p[o].mem[1] \in {Effects(p, o)[i][2] : i \in DOMAIN Effects(p, o)}
    BY <2>1
  <2>3. p[o].mem[1] # 0
    <3>1. p[o].mem[1] \in 1 .. Len(p)
      BY <1>2, FirstMemref, OperationTyped
    <3> QED
      BY <3>1
  <2>4. {Effects(p, o)[i][2] : i \in DOMAIN Effects(p, o)} \in
          {{Effects(p, q)[i][2] : i \in DOMAIN Effects(p, q)} : q \in DOMAIN p}
    OBVIOUS
  <2>5. p[o].mem[1] \in UNION {{Effects(p, q)[i][2] : i \in DOMAIN Effects(p, q)} : q \in DOMAIN p}
    BY <2>2, <2>4
  <2> QED
    BY <2>3, <2>5 DEF MemoryResources
<1> QED
  BY <1>1, <1>2

(***************************************************************************)
(* What a visit of an operation leaves: the memrefs it writes have it as   *)
(* their modifier, the others what they had, unless they are freed.        *)
(***************************************************************************)
Acting(p, o) ==
    CASE p[o].kind = "store"                 -> <<"Write", p[o].mem[1]>>
      [] p[o].kind \in {"bcast", "scatter"}  -> <<"Write", p[o].mem[2]>>
      [] p[o].kind \in Allocations           -> <<"Allocate", o>>
      [] p[o].kind = "free"                  -> <<"Free", p[o].mem[1]>>
      [] OTHER                               -> <<"Read", 0>>

(* The declared effects of an operation leave what the one that acts leaves. *)
LEMMA ActingIs ==
    ASSUME NEW p, WellFormedMemoryProgram(p), PlainMemory(p), NEW o \in DOMAIN p, NEW s
    PROVE  AfterEffects(p, o, s, Effects(p, o)) = AfterEffect(p, o, s, Acting(p, o))
<1>1. p[o].kind \notin {"select", "merge", "recv", "barrier"}
  BY DEF PlainMemory
<1>2. \A n : AfterEffect(p, o, s, <<"Read", n>>) = s
  BY DEF AfterEffect
<1>3. CASE p[o].kind \in {"alloca", "malloc", "store", "free"}
  <2>1. Effects(p, o) = <<Acting(p, o)>>
    BY <1>3 DEF Effects, Acting, Allocations
  <2> DEFINE e == Effects(p, o)
  <2>2. Len(e) = 1 /\ e[1] = Acting(p, o)
    BY <2>1
  <2> HIDE DEF e
  <2> QED
    BY <2>2 DEF AfterEffects, e
<1>4. CASE p[o].kind = "load"
  <2>1. Effects(p, o) = <<<<"Read", p[o].mem[1]>>>> /\ Acting(p, o) = <<"Read", 0>>
    BY <1>4 DEF Effects, Acting, Allocations
  <2> DEFINE e == Effects(p, o)
  <2>2. Len(e) = 1 /\ e[1] = <<"Read", p[o].mem[1]>>
    BY <2>1
  <2> HIDE DEF e
  <2>3. AfterEffects(p, o, s, e) = AfterEffect(p, o, s, e[1])
    BY <2>2 DEF AfterEffects
  <2> QED
    BY <1>2, <2>1, <2>2, <2>3 DEF e
<1>5. CASE p[o].kind \in {"bcast", "scatter"}
  <2>1. Effects(p, o) = <<<<"Read", p[o].mem[1]>>, <<"Write", p[o].mem[2]>>>> /\ Acting(p, o) = <<"Write", p[o].mem[2]>>
    BY <1>5 DEF Effects, Acting, Allocations
  <2> DEFINE e == Effects(p, o)
  <2>2. Len(e) = 2 /\ e[1] = <<"Read", p[o].mem[1]>> /\ e[2] = Acting(p, o)
    BY <2>1
  <2> HIDE DEF e
  <2>3. AfterEffects(p, o, s, e) = AfterEffect(p, o, AfterEffect(p, o, s, e[1]), e[2])
    BY <2>2 DEF AfterEffects
  <2> QED
    BY <1>2, <2>2, <2>3 DEF e
<1>6. CASE p[o].kind \notin {"alloca", "malloc", "load", "store", "free", "bcast", "scatter"}
  <2>1. Effects(p, o) = <<>> /\ Acting(p, o) = <<"Read", 0>>
    BY <1>1, <1>6 DEF Effects, Acting, Allocations
  <2> DEFINE e == Effects(p, o)
  <2>2. Len(e) = 0
    BY <2>1
  <2> HIDE DEF e
  <2>3. AfterEffects(p, o, s, e) = s
    BY <2>2 DEF AfterEffects
  <2> QED
    BY <1>2, <2>1, <2>3 DEF e
<1> QED
  BY <1>3, <1>4, <1>5, <1>6

(* Memrefs that an operation sets have it as a modifier, those it does not clear keep theirs. *)
LEMMA PlainTransfer ==
    ASSUME NEW p, WellFormedMemoryProgram(p), PlainMemory(p), NEW o \in DOMAIN p,
           NEW b \in ReachingStates(p), NEW a \in ReachingStates(p), NEW m \in DOMAIN p
    PROVE  LET t == Transfer(p, o, b, a) IN
           /\ m \in Sets(p, o, Acting(p, o)) => o \in t.mods[m]
           /\ m \notin Sets(p, o, Acting(p, o)) /\ m \notin Clears(p, o, Acting(p, o)) => b.mods[m] \subseteq t.mods[m]
<1> DEFINE j == JoinStates(a, b)
           e == Acting(p, o)
           t == AfterEffect(p, o, j, e)
<1>1. Transfer(p, o, b, a) = t
  BY PlainEffects, ActingIs DEF Transfer
<1>2. j \in ReachingStates(p) /\ j.mods[m] = a.mods[m] \union b.mods[m]
  BY JoinAt
<1>3. Acts(p, t, j, o, Sets(p, o, e), Clears(p, o, e), ClearsPotential(p, o, e), Adds(p, o, e))
  <2> HIDE DEF j, e
  <2> QED
    BY <1>2, EffectAt
<1> HIDE DEF j, e, t
<1>4. /\ m \in Sets(p, o, e) => t.mods[m] = {o}
      /\ m \notin Sets(p, o, e) /\ m \notin Clears(p, o, e) => t.mods[m] = j.mods[m]
  BY <1>3 DEF Acts
<1> QED
  BY <1>1, <1>2, <1>4 DEF e

-----------------------------------------------------------------------------
(* A visit by which regions become live puts all that is in them on the list. *)
LEMMA GoLiveParts ==
    ASSUME TypeOKUniformity, queue # <<>>, GoLive, NEW o, o = Head(queue)[2]
    PROVE  /\ prog' = prog /\ o \in DOMAIN prog /\ prog[o].kind \in RegionOps /\ Head(queue) = <<"live", o, 0>>
           /\ live' = live \union {<<o, r>> : r \in Regions(prog, o)} /\ RegionAt(prog, o) \in live
           /\ Range(queue) = {Head(queue)} \union Range(Tail(queue))
           /\ Range(Tail(queue)) \subseteq Range(queue')
           /\ \A r \in Regions(prog, o) : VisitsIn(prog, o, r) \subseteq Range(queue')
<1> DEFINE W == {<<"defs", o, 0>>} \union (IF HasResult(prog, o) THEN {<<"uni", o, 0>>} ELSE {})
           R == UNION {VisitsIn(prog, o, r) : r \in Regions(prog, o)}
           V == W \union R
<1>0. prog' = prog /\ live' = live \union {<<o, r>> : r \in Regions(prog, o)} /\ queue' = Enqueued(V)
      /\ Head(queue)[1] = "live"
  BY DEF GoLive
<1>1. /\ WellFormedMemoryProgram(prog)
      /\ o \in DOMAIN prog /\ prog[o].kind \in RegionOps /\ Head(queue) = <<"live", o, 0>>
      /\ <<o, 0>> \in VisitedPoints(prog)
  BY <1>0, HeadIs, Zenon DEF TypeOKUniformity
<1>2. RegionAt(prog, o) \in live
  <2>1. IsVisited(Head(queue))
    BY HeadIs
  <2> QED
    BY <1>1, <2>1 DEF IsVisited, IsLive
<1>3. V \subseteq Visits
  <2>1. \A r \in Regions(prog, o) : <<o, r>> \in VisitedPoints(prog) /\ r # 0
    <3>1. \A r \in Regions(prog, o) : <<o, r>> \in Points(prog)
      BY <1>1, PointsAre
    <3>2. prog[o].kind \notin Arguments
      BY <1>1 DEF RegionOps, Arguments
    <3> QED
      BY <3>1, <3>2, RegionsTyped DEF VisitedPoints
  <2>2. R \subseteq Visits
    <3>1. ASSUME NEW r \in Regions(prog, o)
          PROVE  VisitsIn(prog, o, r) \subseteq Visits
      BY <1>1, <2>1, RegionVisitsProper
    <3> QED
      BY <3>1
  <2> DEFINE pt == <<o, 0>>
  <2>3. pt \in VisitedPoints(prog) /\ pt[1] = o /\ pt[2] = 0
    BY <1>1
  <2>4. HasResult(prog, o) => HasValues(prog, pt)
    BY <1>1 DEF HasValues, RegionOps, Arguments
  <2> HIDE DEF pt
  <2>5. <<"defs", o, 0>> \in Visits /\ (HasResult(prog, o) => <<"uni", o, 0>> \in Visits)
    BY <1>1, <2>3, <2>4, VisitMade
  <2> QED
    BY <2>2, <2>5
<1>4. /\ Range(queue) = {Head(queue)} \union Range(Tail(queue))
      /\ Range(queue') = Range(Tail(queue)) \union V
  <2> DEFINE X == Visits
  <2>1. ToMake \subseteq X /\ V \subseteq X
    BY <1>3 DEF ToMake
  <2> HIDE DEF X, V
  <2> QED
    BY <1>0, <1>3, <2>1, EnqueuedTyped
<1>5. \A r \in Regions(prog, o) : VisitsIn(prog, o, r) \subseteq V
  OBVIOUS
<1> HIDE DEF V
<1> QED
  BY <1>0, <1>1, <1>2, <1>4, <1>5

(* Other steps make nothing live, and the visits that would stay on the list. *)
LEMMA OtherParts ==
    ASSUME TypeOKUniformity, NextSolver, ~GoLive
    PROVE  /\ prog' = prog /\ live' = live
           /\ \A o : <<"live", o, 0>> \in Range(queue) => <<"live", o, 0>> \in Range(queue')
<1>1. queue # <<>>
  BY DEF NextSolver
<1>2. ASSUME NEW V, V \subseteq ToMake, queue' = Enqueued(V), Head(queue)[1] # "live"
      PROVE  \A o : <<"live", o, 0>> \in Range(queue) => <<"live", o, 0>> \in Range(queue')
  <2>1. V \subseteq Visits /\ ToMake \subseteq Visits
    BY <1>2 DEF ToMake
  <2>2. /\ Range(queue) = {Head(queue)} \union Range(Tail(queue))
        /\ Range(queue') = Range(Tail(queue)) \union V
    BY <1>1, <1>2, <2>1, EnqueuedTyped
  <2>3. ASSUME NEW o, <<"live", o, 0>> = Head(queue)
        PROVE  FALSE
    BY <1>2, <2>3
  <2> QED
    BY <2>2, <2>3
<1>3. CASE VisitDefs
  <2> DEFINE pt == <<Head(queue)[2], Head(queue)[3]>>
             V  == IF Reported(pt, Sources(pt)) THEN FollowersOf(pt) ELSE {}
  <2>1. queue' = Enqueued(V) /\ Head(queue)[1] # "live" /\ UNCHANGED <<prog, live>>
    BY <1>3 DEF VisitDefs
  <2>2. V \subseteq ToMake
    BY FollowersTyped
  <2> HIDE DEF V
  <2> QED
    BY <1>2, <2>1, <2>2
<1>4. ASSUME NEW new, NEW reads, SetUniformity(new, reads), Head(queue)[1] = "uni"
      PROVE  /\ prog' = prog /\ live' = live
             /\ \A o : <<"live", o, 0>> \in Range(queue) => <<"live", o, 0>> \in Range(queue')
  <2> DEFINE V == AskersFor({v \in DOMAIN uni : uni'[v] # uni[v]})
  <2>1. queue' = Enqueued(V) /\ UNCHANGED <<prog, live>>
    BY <1>4 DEF SetUniformity
  <2>2. V \subseteq ToMake
    BY FollowersTyped
  <2> HIDE DEF V
  <2> QED
    BY <1>2, <1>4, <2>1, <2>2
<1>5. ASSUME NEW o \in DOMAIN prog, ReadUnreachable(o)
      PROVE  UNCHANGED <<prog, live, queue>>
  BY <1>5 DEF ReadUnreachable
<1>6. ASSUME NEW o \in DOMAIN prog, VisitResult(o) \/ VisitRead(o) \/ VisitRegionResult(o) \/ VisitForBody(o)
      PROVE  \E new, reads : Head(queue)[1] = "uni" /\ SetUniformity(new, reads)
  <2>1. CASE VisitResult(o)
    BY <2>1 DEF VisitResult, Visiting
  <2>2. CASE VisitRead(o)
    BY <2>2 DEF VisitRead, Visiting
  <2>3. CASE VisitRegionResult(o)
    BY <2>3 DEF VisitRegionResult, Visiting
  <2>4. CASE VisitForBody(o)
    BY <2>4 DEF VisitForBody, Visiting
  <2> QED
    BY <1>6, <2>1, <2>2, <2>3, <2>4
<1> QED
  BY <1>3, <1>4, <1>5, <1>6 DEF NextSolver

(* The invariant about the regions holds at first. *)
LEMMA LiveInit ==
    ASSUME WellFormedMemoryProgram(prog), InitSolver
    PROVE  LiveInv
<1>1. live = {MainStart} /\ MainStart = <<0, 1>>
  BY DEF InitSolver, MainStart
<1>2. Range(queue) = VisitsIn(prog, 0, 1)
  <2>1. <<0, 1>> \in VisitedPoints(prog)
    BY DEF VisitedPoints, Points, MainStart
  <2>2. VisitsIn(prog, 0, 1) \subseteq Visits
    BY <2>1, RegionVisitsProper
  <2> QED
    BY <2>2, ListOf DEF InitSolver
<1>3. ASSUME NEW o \in DOMAIN prog, prog[o].kind \in RegionOps
      PROVE  /\ \A k \in Regions(prog, o) : <<o, k>> \notin live
             /\ RegionAt(prog, o) \in live => <<"live", o, 0>> \in Range(queue)
  <2>1. o # 0 /\ prog[o].kind \notin Arguments
    <3>1. o \in 1 .. Len(prog)
      BY OperationTyped
    <3> QED
      BY <1>3, <3>1 DEF RegionOps, Arguments
  <2>2. RegionAt(prog, o) \in live => o \in OpsIn(prog, 0, 1)
    BY <1>1, <2>1, RegionPoint
  <2>3. o \in OpsIn(prog, 0, 1) => <<"live", o, 0>> \in VisitsIn(prog, 0, 1)
    BY <1>3 DEF VisitsIn
  <2> QED
    BY <1>1, <1>2, <2>1, <2>2, <2>3
<1> QED
  BY <1>1, <1>3 DEF LiveInv

(* The invariant about the regions holds after every step of the solver. *)
LEMMA LiveNext ==
    ASSUME TypeOKUniformity, LiveInv, [NextSolver]_solverVars
    PROVE  LiveInv'
<1>1. CASE UNCHANGED solverVars
  BY <1>1 DEF solverVars, LiveInv
<1>2. CASE NextSolver /\ ~GoLive
  <2>1. /\ prog' = prog /\ live' = live
        /\ \A o : <<"live", o, 0>> \in Range(queue) => <<"live", o, 0>> \in Range(queue')
    BY <1>2, OtherParts
  <2> QED
    BY <2>1 DEF LiveInv
<1>3. CASE NextSolver /\ GoLive
  <2> PICK b : b = Head(queue)[2]
    OBVIOUS
  <2>1. /\ prog' = prog /\ b \in DOMAIN prog /\ prog[b].kind \in RegionOps /\ Head(queue) = <<"live", b, 0>>
        /\ live' = live \union {<<b, r>> : r \in Regions(prog, b)} /\ RegionAt(prog, b) \in live
        /\ Range(queue) = {Head(queue)} \union Range(Tail(queue))
        /\ Range(Tail(queue)) \subseteq Range(queue')
        /\ \A r \in Regions(prog, b) : VisitsIn(prog, b, r) \subseteq Range(queue')
    BY <1>3, GoLiveParts DEF NextSolver
  <2>2. WellFormedMemoryProgram(prog)
    BY DEF TypeOKUniformity
  <2>3. ASSUME NEW o \in DOMAIN prog, prog[o].kind \in RegionOps
        PROVE  /\ \A k \in Regions(prog, o) : <<o, k>> \in live' => RegionAt(prog, o) \in live'
               /\ RegionAt(prog, o) \in live' =>
                    \/ <<"live", o, 0>> \in Range(queue')
                    \/ \A k \in Regions(prog, o) : <<o, k>> \in live'
    <3>1. ASSUME NEW k \in Regions(prog, o), <<o, k>> \in live'
          PROVE  RegionAt(prog, o) \in live'
      <4>1. CASE <<o, k>> \in live
        BY <2>1, <2>3, <4>1 DEF LiveInv
      <4>2. CASE <<o, k>> \notin live
        <5>1. o = b
          BY <2>1, <3>1, <4>2
        <5> QED
          BY <2>1, <5>1
      <4> QED
        BY <4>1, <4>2
    <3> DEFINE Does == <<"live", o, 0>> \in Range(queue') \/ \A k \in Regions(prog, o) : <<o, k>> \in live'
    <3>2. ASSUME RegionAt(prog, o) \in live
          PROVE  Does
      <4>1. <<"live", o, 0>> \in Range(queue) \/ \A k \in Regions(prog, o) : <<o, k>> \in live
        BY <2>3, <3>2 DEF LiveInv
      <4>2. CASE \A k \in Regions(prog, o) : <<o, k>> \in live
        BY <2>1, <4>2
      <4>3. CASE <<"live", o, 0>> \in Range(queue) /\ o # b
        <5>1. <<"live", o, 0>> # Head(queue)
          BY <2>1, <4>3
        <5> QED
          BY <2>1, <4>3, <5>1
      <4>4. CASE o = b
        BY <2>1, <4>4
      <4> QED
        BY <4>1, <4>2, <4>3, <4>4
    <3>3. ASSUME RegionAt(prog, o) \in live', RegionAt(prog, o) \notin live
          PROVE  Does
      <4>1. PICK r \in Regions(prog, b) : RegionAt(prog, o) = <<b, r>>
        BY <2>1, <3>3
      <4>2. prog[o].kind \notin Arguments
        BY <2>3 DEF RegionOps, Arguments
      <4>3. o \in OpsIn(prog, b, r)
        BY <2>2, <4>1, <4>2, RegionPoint
      <4>4. <<"live", o, 0>> \in VisitsIn(prog, b, r)
        BY <2>3, <4>3 DEF VisitsIn
      <4> QED
        BY <2>1, <4>4
    <3>4. RegionAt(prog, o) \in live' => Does
      BY <3>2, <3>3
    <3> QED
      BY <3>1, <3>4
  <2>4. MainStart \in live'
    BY <2>1 DEF LiveInv
  <2> QED
    BY <2>1, <2>3, <2>4 DEF LiveInv
<1> QED
  BY <1>1, <1>2, <1>3

(* Where the list is empty, what is in a live region is live. *)
LEMMA AllLive ==
    ASSUME LiveInv, queue = <<>>, NEW o \in DOMAIN prog, prog[o].kind \in RegionOps, RegionAt(prog, o) \in live
    PROVE  \A k \in Regions(prog, o) : <<o, k>> \in live
<1>1. Range(queue) = {}
  BY DEF Range
<1> QED
  BY <1>1 DEF LiveInv

(* What holds on entry stays in the state at the start of @main. *)
LEMMA EntryInit ==
    ASSUME WellFormedMemoryProgram(prog), InitSolver
    PROVE  EntryKept
<1>1. MainStart \in Points(prog)
  BY DEF Points
<1>2. defs[MainStart] = EntryState(prog)
  BY <1>1 DEF InitSolver
<1> QED
  BY <1>2 DEF EntryKept, EntryState

(* A step of the solver takes no definition from the state at the start of @main. *)
LEMMA EntryNext ==
    ASSUME TypeOKUniformity, EntryKept, [NextSolver]_solverVars
    PROVE  EntryKept'
<1>1. CASE UNCHANGED <<prog, defs>>
  BY <1>1 DEF EntryKept
<1>2. CASE NextSolver /\ VisitDefs
  <2> PICK pt : pt = <<Head(queue)[2], Head(queue)[3]>>
    OBVIOUS
  <2>1. defs' = [defs EXCEPT ![pt] = StateAfter(pt)] /\ prog' = prog /\ queue # <<>>
    BY <1>2 DEF NextSolver, VisitDefs, StateAfter
  <2>2. pt \in VisitedPoints(prog) /\ pt \in Points(prog)
    BY <2>1, HeadIs
  <2>3. defs \in [Points(prog) -> ReachingStates(prog)] /\ MainStart \in Points(prog)
    BY DEF TypeOKUniformity, Points
  <2>4. \A m \in DOMAIN prog : defs[MainStart].mods[m] \subseteq defs'[MainStart].mods[m]
    <3>1. CASE pt = MainStart
      <4>1. StateAfter(pt) = Joined(pt, Sources(pt))
        BY <3>1 DEF StateAfter, IsJoin, MainStart
      <4>2. Sources(pt) \subseteq Points(prog)
        BY <2>2, SourcesAre
      <4>3. \A m \in DOMAIN prog : Joined(pt, Sources(pt)).mods[m] = defs[pt].mods[m] \union UNION {defs[q].mods[m] : q \in Sources(pt)}
        BY <2>2, <4>2, JoinedAt
      <4>4. defs'[pt] = Joined(pt, Sources(pt))
        BY <2>1, <2>2, <2>3, <4>1
      <4> QED
        BY <3>1, <4>3, <4>4
    <3>2. CASE pt # MainStart
      BY <2>1, <2>3, <3>2
    <3> QED
      BY <3>1, <3>2
  <2> QED
    BY <2>1, <2>4 DEF EntryKept
<1>3. NextSolver /\ ~VisitDefs => UNCHANGED <<prog, defs>>
  BY DEF NextSolver, GoLive, VisitResult, VisitRead, ReadUnreachable, VisitRegionResult, VisitForBody, SetUniformity
<1> QED
  BY <1>1, <1>2, <1>3 DEF solverVars

(* In a program with plain memory the analysis gives no operation up. *)
LEMMA PlainNeverGivesUp ==
    ASSUME WellFormedMemoryProgram(prog), PlainMemory(prog)
    PROVE  NeverGivesUp
  BY PlainEffects DEF NeverGivesUp

(***************************************************************************)
(* What the solver leaves of plain memory when it is done: a join has the  *)
(* modifiers of the points control comes from; behind another operation    *)
(* are those from in front of it, and the operation itself.                *)
(***************************************************************************)
LEMMA SolvedJoin ==
    ASSUME TypeOKUniformity, Solved, DefsInv, NEW pt \in VisitedPoints(prog), IsLive(pt), IsJoin(pt),
           pt[2] = 0 => Entered(pt[1]), NEW q \in Predecessors(prog, pt), NEW m \in DOMAIN prog
    PROVE  defs[q].mods[m] \subseteq defs[pt].mods[m]
<1>1. Range(queue) = {}
  BY DEF Solved, Range
<1>2. Done(pt)
  BY <1>1 DEF DefsInv
<1>3. q \in Sources(pt)
  BY DEF Sources
<1>4. Joined(pt, Sources(pt)) = defs[pt]
  BY <1>2 DEF Done, StateAfter
<1>5. Sources(pt) \subseteq Points(prog) /\ pt \in Points(prog)
  BY SourcesAre DEF VisitedPoints
<1>6. Joined(pt, Sources(pt)).mods[m] = defs[pt].mods[m] \union UNION {defs[x].mods[m] : x \in Sources(pt)}
  BY <1>5, JoinedAt
<1> QED
  BY <1>3, <1>4, <1>6

(* The same of an operation without regions, by its transfer function. *)
LEMMA SolvedTransfer ==
    ASSUME TypeOKUniformity, Solved, DefsInv, PlainMemory(prog), NEW o \in DOMAIN prog,
           prog[o].kind \notin RegionOps \union Arguments, RegionAt(prog, o) \in live, NEW m \in DOMAIN prog
    PROVE  LET e == Acting(prog, o)
               was == defs[Before(prog, o)].mods[m]
               is == defs[<<o, 0>>].mods[m]
           IN  /\ m \in Sets(prog, o, e) => o \in is
               /\ m \notin Sets(prog, o, e) /\ m \notin Clears(prog, o, e) => was \subseteq is
<1> DEFINE pt == <<o, 0>>
<1>1. pt \in VisitedPoints(prog) /\ pt \in Points(prog) /\ pt[1] = o /\ pt[2] = 0
  BY PointsAre DEF VisitedPoints
<1> HIDE DEF pt
<1>2. IsLive(pt) /\ ~IsJoin(pt)
  BY <1>1 DEF IsLive, IsJoin
<1>3. Range(queue) = {}
  BY DEF Solved, Range
<1>4. Done(pt)
  BY <1>1, <1>2, <1>3 DEF DefsInv
<1>5. StateOf(Sources(pt)) = defs[Before(prog, o)] /\ Before(prog, o) \in Points(prog)
  BY <1>1, <1>2, SourcesAre
<1>6. Transfer(prog, o, defs[Before(prog, o)], defs[pt]) = defs[pt]
  BY <1>1, <1>2, <1>4, <1>5 DEF Done, StateAfter
<1>7. defs[Before(prog, o)] \in ReachingStates(prog) /\ defs[pt] \in ReachingStates(prog) /\ WellFormedMemoryProgram(prog)
  BY <1>1, <1>5 DEF TypeOKUniformity
<1>8. LET t == Transfer(prog, o, defs[Before(prog, o)], defs[pt]) IN
      /\ m \in Sets(prog, o, Acting(prog, o)) => o \in t.mods[m]
      /\ m \notin Sets(prog, o, Acting(prog, o)) /\ m \notin Clears(prog, o, Acting(prog, o)) => defs[Before(prog, o)].mods[m] \subseteq t.mods[m]
  BY <1>7, PlainTransfer
<1> QED
  BY <1>6, <1>8 DEF pt

-----------------------------------------------------------------------------
(***************************************************************************)
(* What a rank's memrefs and memories are at a point, with the memrefs e   *)
(* and the memories c; the definitions D are what the analysis has found.  *)
(***************************************************************************)
Meant(p, pt, e) ==
    \A m \in DOMAIN p : p[m].kind \in MemrefOps /\ Known(p, pt, m) => e[ResultOf(m)] = SourceOf(p, m)

IsAllocation(p, d) == d # InitialDefinition /\ p[d].kind \in Allocations

WritersFound(p, D, pt, c) ==
    \A m \in MemoryResources(p) :
        LET R == SourceOf(p, m)
            d == c[R][0].by
        IN  Known(p, pt, R) =>
              \/ FreedBefore(p, pt, R)
              \/ d \in D[pt].mods[m]
              \/ p[m].kind = "view" /\ IsAllocation(p, d)

(* What an operation has for a memref operand is known before it. *)
LEMMA KnownBefore ==
    ASSUME NEW p, WellFormedMemoryProgram(p), NEW m \in DOMAIN p, NEW o \in DOMAIN p, p[m].kind \in MemrefOps,
           p[o].kind \notin Arguments, Dominates(p, m, o)
    PROVE  Known(p, Before(p, o), m)
<1>1. CASE p[m].kind = "memarg"
  BY <1>1 DEF Known
<1>2. CASE p[m].kind # "memarg"
  <2>1. p[m].kind \in MemrefOps \ Arguments
    BY <1>2 DEF MemrefOps, Arguments
  <2> QED
    BY <2>1, AvailableBefore DEF Known
<1> QED
  BY <1>1, <1>2

(* Behind an operation all that was known is known, and its own result. *)
LEMMA KnownBehind ==
    ASSUME NEW p, WellFormedMemoryProgram(p), NEW m \in DOMAIN p, NEW o \in DOMAIN p, p[m].kind \in MemrefOps,
           p[o].kind \notin Arguments, NEW k, k = 0 \/ <<o, k>> # MainStart, Known(p, <<o, k>>, m), m # o
    PROVE  Known(p, Before(p, o), m)
<1>1. p[m].kind = "memarg" \/ Dominates(p, m, o)
  BY DEF Known, Available
<1> QED
  BY <1>1, KnownBefore DEF Known

(* What was freed before an operation is freed behind it. *)
LEMMA FreedBehind ==
    ASSUME NEW p, WellFormedMemoryProgram(p), NEW o \in DOMAIN p, NEW k, NEW m, FreedBefore(p, Before(p, o), m)
    PROVE  FreedBefore(p, <<o, k>>, m)
<1>1. PICK f \in DOMAIN p : p[f].kind = "free" /\ f <= Before(p, o)[1] /\ SourceOf(p, p[f].mem[1]) = m
  BY DEF FreedBefore
<1>2. Before(p, o)[1] < o
  BY BeforeEarlier
<1>3. f \in 1 .. Len(p) /\ o \in 1 .. Len(p) /\ Before(p, o)[1] \in 0 .. Len(p) /\ Len(p) \in Nat
  <2>1. Before(p, o) \in Points(p)
    BY BeforePoint DEF VisitedPoints
  <2>2. Before(p, o) = MainStart \/ Before(p, o)[1] \in DOMAIN p
    BY <2>1, PointParts
  <2>3. Len(p) \in Nat /\ DOMAIN p = 1 .. Len(p)
    BY OperationTyped
  <2> DEFINE b == Before(p, o)[1]
  <2>4. b = 0 \/ b \in 1 .. Len(p)
    BY <2>2, <2>3 DEF MainStart
  <2> HIDE DEF b
  <2>5. b \in 0 .. Len(p)
    BY <2>3, <2>4
  <2> QED
    BY <2>3, <2>5 DEF b
<1>4. f <= o
  <2> DEFINE b == Before(p, o)[1]
  <2>1. f <= b /\ b < o /\ b \in 0 .. Len(p)
    BY <1>1, <1>2, <1>3
  <2> HIDE DEF b
  <2> QED
    BY <1>3, <2>1
<1> QED
  BY <1>1, <1>4 DEF FreedBefore

-----------------------------------------------------------------------------
(* A rank goes on from pt to q, where no more is known, and what was freed stays so. *)
GoesFrom(p, pt, q) ==
    \A m \in DOMAIN p : p[m].kind \in MemrefOps /\ Known(p, q, m) =>
        Known(p, pt, m) /\ (SourceOf(p, m) = m /\ FreedBefore(p, pt, m) => FreedBefore(p, q, m))

(* Into a region nothing is known that was not known in front of its operation. *)
LEMMA EnterKnown ==
    ASSUME NEW p, WellFormedMemoryProgram(p), NEW o \in DOMAIN p, p[o].kind \in RegionOps, NEW k
    PROVE  GoesFrom(p, Before(p, o), <<o, k>>)
<1>1. ASSUME NEW m \in DOMAIN p, p[m].kind \in MemrefOps, Known(p, <<o, k>>, m)
      PROVE  Known(p, Before(p, o), m) /\ (FreedBefore(p, Before(p, o), m) => FreedBefore(p, <<o, k>>, m))
  <2>1. m # o /\ p[o].kind \notin Arguments
    BY <1>1 DEF MemrefOps, RegionOps, Arguments
  <2>2. <<o, k>> # MainStart
    <3>1. o # 0
      <4>1. o \in 1 .. Len(p)
        BY OperationTyped
      <4> QED
        BY <4>1
    <3> QED
      BY <3>1 DEF MainStart
  <2> QED
    BY <1>1, <2>1, <2>2, KnownBehind, FreedBehind
<1> QED
  BY <1>1 DEF GoesFrom

(* Nor behind the operation of a region, or in another of its regions, of what its end does not know. *)
LEMMA LeaveKnown ==
    ASSUME NEW p, WellFormedMemoryProgram(p), PlainMemory(p), NEW pt \in VisitedPoints(p), RegionOfPoint(p, pt) # MainStart,
           NEW k
    PROVE  GoesFrom(p, pt, <<RegionOfPoint(p, pt)[1], k>>)
<1> DEFINE b == RegionOfPoint(p, pt)[1]
<1>1. b \in DOMAIN p /\ p[b].kind \in RegionOps
  <2>1. RegionOfPoint(p, pt) \in Points(p) /\ RegionOfPoint(p, pt)[2] # 0
    BY RegionOfPointIs DEF VisitedPoints
  <2>2. b \in DOMAIN p /\ Regions(p, b) # {}
    BY <2>1, PointParts
  <2> QED
    BY <2>2, RegionsTyped
<1>2. ASSUME NEW m \in DOMAIN p, p[m].kind \in MemrefOps, Known(p, <<b, k>>, m)
      PROVE  Known(p, pt, m) /\ (SourceOf(p, m) = m /\ FreedBefore(p, pt, m) => FreedBefore(p, <<b, k>>, m))
  <2>1. m # b
    BY <1>1, <1>2 DEF MemrefOps, RegionOps
  <2>2. p[m].kind = "memarg" \/ Dominates(p, m, b)
    BY <1>2, <2>1 DEF Known, Available
  <2>3. Known(p, pt, m)
    BY <2>2, AvailableInside DEF Known
  <2>4. ASSUME SourceOf(p, m) = m, FreedBefore(p, pt, m)
        PROVE  FreedBefore(p, <<b, k>>, m)
    <3>1. PICK f \in DOMAIN p : p[f].kind = "free" /\ f <= pt[1] /\ SourceOf(p, p[f].mem[1]) = m
      BY <2>4 DEF FreedBefore
    <3>2. p[f].path = p[m].path
      BY <3>1 DEF PlainMemory
    <3>3. f <= b
      BY <2>2, <3>1, <3>2, FreedOutside
    <3> QED
      BY <3>1, <3>3 DEF FreedBefore
  <2> QED
    BY <2>3, <2>4
<1> QED
  BY <1>2 DEF GoesFrom

(* Memrefs and memories stay what they are meant to be. *)
LEMMA ControlMeant ==
    ASSUME NEW p, WellFormedMemoryProgram(p), PlainMemory(p), NEW pt, NEW q, GoesFrom(p, pt, q),
           NEW e, Meant(p, pt, e), NEW f, \A m \in DOMAIN p : p[m].kind \in MemrefOps => f[ResultOf(m)] = e[ResultOf(m)]
    PROVE  Meant(p, q, f)
  BY DEF GoesFrom, Meant

(* Where the state at q includes that at pt, the writer of a memory is still among the definitions. *)
LEMMA ControlWritten ==
    ASSUME NEW p, WellFormedMemoryProgram(p), PlainMemory(p), NEW pt, NEW q, GoesFrom(p, pt, q),
           NEW D, \A m \in DOMAIN p : D[pt].mods[m] \subseteq D[q].mods[m], NEW c, WritersFound(p, D, pt, c)
    PROVE  WritersFound(p, D, q, c)
<1> SUFFICES ASSUME NEW m \in MemoryResources(p), Known(p, q, SourceOf(p, m))
             PROVE  \/ FreedBefore(p, q, SourceOf(p, m))
                    \/ c[SourceOf(p, m)][0].by \in D[q].mods[m]
                    \/ p[m].kind = "view" /\ IsAllocation(p, c[SourceOf(p, m)][0].by)
  BY DEF WritersFound
<1>1. m \in DOMAIN p /\ p[m].kind \in MemrefOps
  BY ResourcesAre
<1>2. SourceOf(p, m) \in DOMAIN p /\ p[SourceOf(p, m)].kind \in MemrefOps /\ SourceOf(p, SourceOf(p, m)) = SourceOf(p, m)
  BY <1>1, SourceIs DEF MemrefOps, Allocations
<1>3. Known(p, pt, SourceOf(p, m)) /\ (FreedBefore(p, pt, SourceOf(p, m)) => FreedBefore(p, q, SourceOf(p, m)))
  BY <1>2 DEF GoesFrom
<1>4. D[pt].mods[m] \subseteq D[q].mods[m]
  BY <1>1
<1> QED
  BY <1>3, <1>4 DEF WritersFound

-----------------------------------------------------------------------------
(* A rank executes an operation without regions. *)
LEMMA MoveMeant ==
    ASSUME NEW p, WellFormedMemoryProgram(p), NEW o \in DOMAIN p, p[o].kind \notin RegionOps \union Arguments,
           NEW e, Meant(p, Before(p, o), e), NEW f,
           \A m \in DOMAIN p : m # o => f[ResultOf(m)] = e[ResultOf(m)],
           p[o].kind \in MemrefOps => f[ResultOf(o)] = SourceOf(p, o)
    PROVE  Meant(p, <<o, 0>>, f)
<1> SUFFICES ASSUME NEW m \in DOMAIN p, p[m].kind \in MemrefOps, Known(p, <<o, 0>>, m)
             PROVE  f[ResultOf(m)] = SourceOf(p, m)
  BY DEF Meant
<1>1. CASE m = o
  BY <1>1
<1>2. CASE m # o
  <2>1. Known(p, Before(p, o), m)
    BY <1>2, KnownBehind
  <2> QED
    BY <1>2, <2>1 DEF Meant
<1> QED
  BY <1>1, <1>2

(* The memory an operation writes; 0 for none. *)
Target(p, o) ==
    CASE p[o].kind = "store"                -> SourceOf(p, p[o].mem[1])
      [] p[o].kind \in {"bcast", "scatter"} -> SourceOf(p, p[o].mem[2])
      [] p[o].kind \in Allocations          -> o
      [] OTHER                              -> 0

(* Whatever may name the memory that is written has the operation as its modifier. *)
LEMMA TargetSets ==
    ASSUME NEW p, WellFormedMemoryProgram(p), PlainMemory(p), NEW o \in DOMAIN p, NEW m \in MemoryResources(p)
    PROVE  /\ SourceOf(p, m) = Target(p, o) => m \in Sets(p, o, Acting(p, o)) \/ p[o].kind \in Allocations
           /\ m \in Sets(p, o, Acting(p, o)) => SourceOf(p, m) = Target(p, o)
           /\ m \in Clears(p, o, Acting(p, o)) => p[o].kind = "free" /\ SourceOf(p, p[o].mem[1]) = SourceOf(p, m)
<1>0. m \in DOMAIN p /\ p[m].kind \in MemrefOps
  BY ResourcesAre
<1>1. CASE p[o].kind \in {"store", "bcast", "scatter"}
  <2> DEFINE n == IF p[o].kind = "store" THEN p[o].mem[1] ELSE p[o].mem[2]
  <2>1. Acting(p, o) = <<"Write", n>> /\ Target(p, o) = SourceOf(p, n)
    <3>1. CASE p[o].kind = "store"
      BY <3>1 DEF Acting, Target, Allocations
    <3>2. CASE p[o].kind \in {"bcast", "scatter"}
      BY <3>2 DEF Acting, Target, Allocations
    <3> QED
      BY <1>1, <3>1, <3>2
  <2>2. Sets(p, o, Acting(p, o)) = {n} \union MustAlias(p, n) /\ Clears(p, o, Acting(p, o)) = {}
    BY <2>1 DEF Sets, Clears
  <2> HIDE DEF n
  <2>3. m \in {n} \union MustAlias(p, n) <=> SourceOf(p, m) = SourceOf(p, n)
    BY DEF MustAlias, AliasMust
  <2> QED
    BY <2>1, <2>2, <2>3
<1>2. CASE p[o].kind \in Allocations
  <2>1. Acting(p, o) = <<"Allocate", o>> /\ Target(p, o) = o
    BY <1>2 DEF Acting, Target, Allocations
  <2>2. Sets(p, o, Acting(p, o)) = {o} /\ Clears(p, o, Acting(p, o)) = {}
    BY <2>1 DEF Sets, Clears
  <2>3. SourceOf(p, o) = o
    BY <1>2 DEF SourceOf, Allocations
  <2> QED
    BY <1>2, <2>1, <2>2, <2>3
<1>3. CASE p[o].kind = "free"
  <2>1. Acting(p, o) = <<"Free", p[o].mem[1]>> /\ Target(p, o) = 0
    BY <1>3 DEF Acting, Target, Allocations
  <2>2. Sets(p, o, Acting(p, o)) = {} /\ Clears(p, o, Acting(p, o)) = {p[o].mem[1]} \union MustAlias(p, p[o].mem[1])
    BY <2>1 DEF Sets, Clears
  <2>3. m \in {p[o].mem[1]} \union MustAlias(p, p[o].mem[1]) => SourceOf(p, p[o].mem[1]) = SourceOf(p, m)
    BY DEF MustAlias, AliasMust
  <2>4. SourceOf(p, m) # 0
    <3>1. SourceOf(p, m) \in 1 .. Len(p)
      BY <1>0, SourceIs, OperationTyped
    <3> QED
      BY <3>1
  <2> QED
    BY <1>3, <2>1, <2>2, <2>3, <2>4
<1>4. CASE p[o].kind \notin {"store", "bcast", "scatter", "free"} \union Allocations
  <2>1. Acting(p, o) = <<"Read", 0>> /\ Target(p, o) = 0
    BY <1>4 DEF Acting, Target
  <2>2. Sets(p, o, Acting(p, o)) = {} /\ Clears(p, o, Acting(p, o)) = {}
    BY <2>1 DEF Sets, Clears
  <2>3. SourceOf(p, m) # 0
    <3>1. SourceOf(p, m) \in 1 .. Len(p)
      BY <1>0, SourceIs, OperationTyped
    <3> QED
      BY <3>1
  <2> QED
    BY <2>1, <2>2, <2>3
<1> QED
  BY <1>1, <1>2, <1>3, <1>4

(* The operation is the new writer of what it writes, and the state behind it says so of every memref. *)
LEMMA MoveWritten ==
    ASSUME NEW p, WellFormedMemoryProgram(p), PlainMemory(p), NEW o \in DOMAIN p, p[o].kind \notin RegionOps \union Arguments,
           NEW D,
           \A m \in DOMAIN p :
               /\ m \in Sets(p, o, Acting(p, o)) => o \in D[<<o, 0>>].mods[m]
               /\ m \notin Sets(p, o, Acting(p, o)) /\ m \notin Clears(p, o, Acting(p, o)) =>
                    D[Before(p, o)].mods[m] \subseteq D[<<o, 0>>].mods[m],
           NEW c, WritersFound(p, D, Before(p, o), c), NEW d,
           \A m \in DOMAIN p : d[m][0].by = IF m = Target(p, o) THEN o ELSE c[m][0].by
    PROVE  WritersFound(p, D, <<o, 0>>, d)
<1> SUFFICES ASSUME NEW m \in MemoryResources(p), Known(p, <<o, 0>>, SourceOf(p, m))
             PROVE  \/ FreedBefore(p, <<o, 0>>, SourceOf(p, m))
                    \/ d[SourceOf(p, m)][0].by \in D[<<o, 0>>].mods[m]
                    \/ p[m].kind = "view" /\ IsAllocation(p, d[SourceOf(p, m)][0].by)
  BY DEF WritersFound
<1> PICK R : R = SourceOf(p, m)
  OBVIOUS
<1>1. m \in DOMAIN p /\ p[m].kind \in MemrefOps
  BY ResourcesAre
<1>2. R \in DOMAIN p /\ p[R].kind \in {"memarg"} \union Allocations
  BY <1>1, SourceIs
<1>3. CASE R = Target(p, o)
  <2>1. d[R][0].by = o
    BY <1>2, <1>3
  <2>2. CASE m \in Sets(p, o, Acting(p, o))
    BY <1>1, <2>1, <2>2
  <2>3. CASE p[o].kind \in Allocations /\ m \notin Sets(p, o, Acting(p, o))
    <3>1. o # 0
      <4>1. o \in 1 .. Len(p)
        BY OperationTyped
      <4> QED
        BY <4>1
    <3>2. m # o
      <4>1. Acting(p, o) = <<"Allocate", o>>
        BY <2>3 DEF Acting, Allocations
      <4>2. Sets(p, o, Acting(p, o)) = {o}
        BY <4>1 DEF Sets
      <4> QED
        BY <2>3, <4>2
    <3>3. R = o
      BY <1>3, <2>3 DEF Target, Allocations
    <3>4. p[m].kind = "view"
      BY <1>1, <3>2, <3>3, SourceIs
    <3> QED
      BY <2>1, <2>3, <3>1, <3>4 DEF IsAllocation, InitialDefinition
  <2> QED
    BY <1>3, <2>2, <2>3, TargetSets
<1>4. CASE R # Target(p, o)
  <2>1. d[R][0].by = c[R][0].by
    BY <1>2, <1>4
  <2>2. R # o
    <3>1. p[o].kind \in Allocations => Target(p, o) = o
      BY DEF Target, Allocations
    <3> QED
      BY <1>2, <1>4, <3>1 DEF Arguments
  <2>3. Known(p, Before(p, o), R)
    BY <1>2, <2>2, KnownBehind DEF MemrefOps, Allocations
  <2>4. \/ FreedBefore(p, Before(p, o), R)
        \/ c[R][0].by \in D[Before(p, o)].mods[m]
        \/ p[m].kind = "view" /\ IsAllocation(p, c[R][0].by)
    BY <2>3 DEF WritersFound
  <2>5. CASE FreedBefore(p, Before(p, o), R)
    BY <2>5, FreedBehind
  <2>6. CASE m \in Clears(p, o, Acting(p, o))
    <3>1. p[o].kind = "free" /\ SourceOf(p, p[o].mem[1]) = R
      BY <2>6, TargetSets
    <3>2. o <= o
      <4>1. o \in 1 .. Len(p)
        BY OperationTyped
      <4> QED
        BY <4>1
    <3>3. FreedBefore(p, <<o, 0>>, R)
      BY <3>1, <3>2 DEF FreedBefore
    <3> QED
      BY <3>3
  <2>7. CASE c[R][0].by \in D[Before(p, o)].mods[m] /\ m \notin Clears(p, o, Acting(p, o))
    <3>1. m \notin Sets(p, o, Acting(p, o))
      BY <1>4, TargetSets
    <3>2. D[Before(p, o)].mods[m] \subseteq D[<<o, 0>>].mods[m]
      BY <1>1, <2>7, <3>1
    <3> QED
      BY <2>1, <2>7, <3>2
  <2> QED
    BY <2>1, <2>4, <2>5, <2>6, <2>7
<1> QED
  BY <1>3, <1>4

(* The memref an operation has for an operand, and the memory it is. *)
LEMMA OperandMeant ==
    ASSUME NEW p, WellFormedMemoryProgram(p), PlainMemory(p), NEW o \in DOMAIN p, p[o].kind \notin Arguments,
           NEW n \in DOMAIN p, Dominates(p, n, o), p[n].kind \in MemrefOps, NEW e, Meant(p, Before(p, o), e)
    PROVE  /\ e[ResultOf(n)] = SourceOf(p, n) /\ SourceOf(p, n) \in DOMAIN p
           /\ Known(p, Before(p, o), SourceOf(p, n))
<1>1. Known(p, Before(p, o), n)
  BY KnownBefore
<1>2. LET R == SourceOf(p, n) IN
      /\ R \in DOMAIN p /\ p[R].kind \in {"memarg"} \union Allocations
      /\ R = n \/ Dominates(p, R, n)
  BY SourceIs
<1>3. p[SourceOf(p, n)].kind \in MemrefOps
  BY <1>2 DEF MemrefOps, Allocations
<1>4. SourceOf(p, n) = n \/ Dominates(p, SourceOf(p, n), o)
  BY <1>2, DominatesTransitive
<1> QED
  BY <1>1, <1>2, <1>3, <1>4, KnownBefore DEF Meant

(* What a load finds has been written by one of its modifiers, or is what the memory was allocated with. *)
LEMMA LoadMeant ==
    ASSUME NEW p, WellFormedMemoryProgram(p), PlainMemory(p), NEW o \in DOMAIN p, p[o].kind = "load",
           NEW D, NEW c, WritersFound(p, D, Before(p, o), c), NEW e, Meant(p, Before(p, o), e)
    PROVE  LET d == c[e[ResultOf(p[o].mem[1])]][0].by IN
           d \in D[Before(p, o)].mods[p[o].mem[1]] \/ (p[p[o].mem[1]].kind = "view" /\ IsAllocation(p, d))
<1> PICK n : n = p[o].mem[1]
  OBVIOUS
<1>1. n \in DOMAIN p /\ Dominates(p, n, o) /\ p[n].kind \in MemrefOps
  BY FirstMemref
<1>2. n \in MemoryResources(p)
  BY ResourcesAre
<1>3. e[ResultOf(n)] = SourceOf(p, n) /\ Known(p, Before(p, o), SourceOf(p, n))
  BY <1>1, OperandMeant DEF Arguments
<1>4. ASSUME FreedBefore(p, Before(p, o), SourceOf(p, n))
      PROVE  FALSE
  <2>1. FreedBefore(p, <<o, 0>>, SourceOf(p, n))
    BY <1>4, FreedBehind
  <2>2. PICK f \in DOMAIN p : p[f].kind = "free" /\ f <= o /\ SourceOf(p, p[f].mem[1]) = SourceOf(p, n)
    BY <2>1 DEF FreedBefore
  <2>3. o > f
    <3>1. f \in 1 .. Len(p) /\ o \in 1 .. Len(p) /\ f # o
      BY <2>2, OperationTyped
    <3> QED
      BY <2>2, <3>1
  <2> QED
    BY <2>2, <2>3 DEF PlainMemory
<1> QED
  BY <1>2, <1>3, <1>4 DEF WritersFound

-----------------------------------------------------------------------------
(* The run: every rank has its memrefs and memories. *)
RunTyped ==
    /\ DOMAIN pc = Ranks /\ DOMAIN env = Ranks /\ DOMAIN cells = Ranks
    /\ \A r \in Ranks :
         /\ DOMAIN env[r] = ValuesUpTo(Len(prog)) /\ DOMAIN cells[r] = DOMAIN prog
         /\ \A m \in DOMAIN prog : DOMAIN cells[r][m] = Numbers

(* A rank is where the analysis has been, with the memrefs and the memories that are meant there. *)
RankMeant(r) ==
    /\ pc[r] \in VisitedPoints(prog) /\ IsLive(pc[r])
    /\ Meant(prog, pc[r], env[r])
    /\ WritersFound(prog, defs, pc[r], cells[r])

RanksMeant == \A r \in Ranks : RankMeant(r)

(* What the run finds when the list is empty. *)
SolverDone == TypeOKUniformity /\ Solved /\ PlainMemory(prog) /\ DefsInv /\ LiveInv

(* What Min is of a set of numbers. *)
LEMMA LeastOf ==
    ASSUME NEW T, T \subseteq Nat, T # {}
    PROVE  Min(T) \in T /\ \A y \in T : Min(T) <= y
<1>1. \E x \in T : \A y \in T : x <= y
  BY LeastNumber
<1> QED
  BY <1>1, Zenon DEF Min

(* The operation a rank executes next, and the point it is at before. *)
LEMMA NextOpIs ==
    ASSUME WellFormedMemoryProgram(prog), NEW r, pc[r] \in VisitedPoints(prog), ~AtEnd(r), NEW o, o = NextOp(r)
    PROVE  /\ o \in DOMAIN prog /\ prog[o].kind \notin Arguments
           /\ RegionAt(prog, o) = Region(r) /\ Before(prog, o) = pc[r]
<1> PICK pt : pt = pc[r]
  OBVIOUS
<1>1. Region(r) = RegionOfPoint(prog, pt)
  BY DEF Region, RegionOfPoint
<1>2. Ahead(r) = {j \in OpsIn(prog, RegionOfPoint(prog, pt)[1], RegionOfPoint(prog, pt)[2]) : j > pt[1]}
  BY <1>1 DEF Ahead
<1>3. Ahead(r) \subseteq Nat /\ Ahead(r) # {}
  <2>1. OpsIn(prog, RegionOfPoint(prog, pt)[1], RegionOfPoint(prog, pt)[2]) \subseteq 1 .. Len(prog) /\ Len(prog) \in Nat
    BY OpsNumbered
  <2> QED
    BY <1>2, <2>1 DEF AtEnd
<1>4. o \in Ahead(r) /\ \A j \in Ahead(r) : o <= j
  BY <1>3, LeastOf DEF NextOp
<1>5. /\ o \in OpsIn(prog, RegionOfPoint(prog, pt)[1], RegionOfPoint(prog, pt)[2]) /\ o > pt[1]
      /\ \A j \in OpsIn(prog, RegionOfPoint(prog, pt)[1], RegionOfPoint(prog, pt)[2]) : j > pt[1] => o <= j
  BY <1>2, <1>4
<1> QED
  BY <1>1, <1>5, NextIsBehind

(* A rank that has nothing ahead is at the point that is the end of its region. *)
LEMMA AtEndIs ==
    ASSUME WellFormedMemoryProgram(prog), NEW r, pc[r] \in VisitedPoints(prog), AtEnd(r)
    PROVE  EndOf(prog, Region(r)[1], Region(r)[2]) = pc[r]
<1> PICK pt : pt = pc[r]
  OBVIOUS
<1>1. Region(r) = RegionOfPoint(prog, pt)
  BY DEF Region, RegionOfPoint
<1>2. \A j \in OpsIn(prog, RegionOfPoint(prog, pt)[1], RegionOfPoint(prog, pt)[2]) : ~(j > pt[1])
  BY <1>1 DEF Ahead, AtEnd
<1> QED
  BY <1>1, <1>2, NoneIsBehind

(* What Go changes of the memrefs of the ranks. *)
LEMMA GoMoves ==
    ASSUME RunTyped, NEW r \in Ranks, NEW q, NEW vals, NEW ts, Go(r, q, vals, ts)
    PROVE  /\ DOMAIN pc' = Ranks /\ DOMAIN env' = Ranks
           /\ \A s \in Ranks : DOMAIN env'[s] = ValuesUpTo(Len(prog))
           /\ pc'[r] = q /\ \A s \in Ranks \ {r} : pc'[s] = pc[s] /\ env'[s] = env[s]
           /\ \A v \in ValuesUpTo(Len(prog)) : env'[r][v] = IF v \in DOMAIN vals THEN vals[v] ELSE env[r][v]
<1>1. pc' = [pc EXCEPT ![r] = q] /\ DOMAIN pc = Ranks
  BY DEF Go, RunTyped
<1> PICK f : f = [v \in DOMAIN env[r] |-> IF v \in DOMAIN vals THEN vals[v] ELSE env[r][v]]
  OBVIOUS
<1>2. env' = [env EXCEPT ![r] = f] /\ DOMAIN env = Ranks
  BY DEF Go, RunTyped
<1>3. DOMAIN f = ValuesUpTo(Len(prog)) /\ \A v \in ValuesUpTo(Len(prog)) : f[v] = IF v \in DOMAIN vals THEN vals[v] ELSE env[r][v]
  BY DEF RunTyped
<1>4. env'[r] = f /\ DOMAIN env' = Ranks /\ \A s \in Ranks \ {r} : env'[s] = env[s]
  BY <1>2
<1>5. \A s \in Ranks : DOMAIN env'[s] = ValuesUpTo(Len(prog))
  BY <1>3, <1>4 DEF RunTyped
<1> QED
  BY <1>1, <1>3, <1>4, <1>5

(* Memrefs are results, and neither induction variables nor iteration arguments. *)
LEMMA ResultsAre ==
    ASSUME WellFormedMemoryProgram(prog), NEW m \in DOMAIN prog
    PROVE  /\ ResultOf(m) \in ValuesUpTo(Len(prog))
           /\ \A o : ResultOf(m) \in Results(o) => m = o
           /\ \A o : ResultOf(m) # IvOf(o) /\ ResultOf(m) # IterOf(o)
<1>1. m \in 1 .. Len(prog)
  BY OperationTyped
<1>2. ResultOf(m) \in ValuesUpTo(Len(prog))
  BY <1>1 DEF ResultOf, ValuesUpTo
<1>3. \A o : ResultOf(m) \in Results(o) => m = o
  BY DEF Results, ResultOf
<1>4. \A o : ResultOf(m) # IvOf(o) /\ ResultOf(m) # IterOf(o)
  BY DEF ResultOf, IvOf, IterOf
<1> QED
  BY <1>2, <1>3, <1>4

(* A rank that stays where it is keeps what it has. *)
LEMMA OthersMeant ==
    ASSUME SolverDone, UNCHANGED solverVars, NEW s \in Ranks, RankMeant(s),
           pc'[s] = pc[s], env'[s] = env[s], cells'[s] = cells[s]
    PROVE  RankMeant(s)'
  BY DEF RankMeant, solverVars, IsLive

(* Control goes to a point where the analysis joins what comes from where the rank is. *)
LEMMA ControlStep ==
    ASSUME SolverDone, RunTyped, RanksMeant, UNCHANGED solverVars, cells' = cells, NEW r \in Ranks, NEW q,
           q \in VisitedPoints(prog), IsLive(q), IsJoin(q), q[2] = 0 => Entered(q[1]),
           pc[r] \in Predecessors(prog, q), GoesFrom(prog, pc[r], q), NEW vals, NEW ts, Go(r, q, vals, ts),
           \A m \in DOMAIN prog : prog[m].kind \in MemrefOps => ResultOf(m) \notin DOMAIN vals
    PROVE  RunTyped' /\ RanksMeant'
<1>1. prog' = prog /\ defs' = defs /\ live' = live
  BY DEF solverVars
<1>2. WellFormedMemoryProgram(prog) /\ PlainMemory(prog)
  BY DEF SolverDone, TypeOKUniformity
<1>3. RankMeant(r)
  BY DEF RanksMeant
<1>4. RunTyped'
  BY <1>1, GoMoves DEF RunTyped
<1>5. Meant(prog, q, env'[r])
  <2>1. \A m \in DOMAIN prog : prog[m].kind \in MemrefOps => env'[r][ResultOf(m)] = env[r][ResultOf(m)]
    BY <1>2, GoMoves, ResultsAre
  <2>2. Meant(prog, pc[r], env[r])
    BY <1>3 DEF RankMeant
  <2> QED
    BY <1>2, <2>1, <2>2, ControlMeant
<1>6. WritersFound(prog, defs, q, cells[r])
  <2>1. \A m \in DOMAIN prog : defs[pc[r]].mods[m] \subseteq defs[q].mods[m]
    BY SolvedJoin DEF SolverDone
  <2>2. WritersFound(prog, defs, pc[r], cells[r])
    BY <1>3 DEF RankMeant
  <2> QED
    BY <1>2, <2>1, <2>2, ControlWritten
<1>7. RankMeant(r)'
  <2>1. pc'[r] = q
    BY GoMoves
  <2>2. IsLive(q)'
    BY <1>1 DEF IsLive
  <2> QED
    BY <1>1, <1>5, <1>6, <2>1, <2>2 DEF RankMeant, IsLive
<1>8. ASSUME NEW s \in Ranks \ {r}
      PROVE  RankMeant(s)'
  BY GoMoves, OthersMeant DEF RanksMeant
<1> QED
  BY <1>4, <1>7, <1>8 DEF RanksMeant

-----------------------------------------------------------------------------
(* An operation with regions that is reached, and its points. *)
LEMMA OwnerReached ==
    ASSUME SolverDone, NEW o \in DOMAIN prog, prog[o].kind \in RegionOps, RegionAt(prog, o) \in live
    PROVE  /\ \A k \in Regions(prog, o) \union {0} :
                /\ <<o, k>> \in VisitedPoints(prog) /\ IsLive(<<o, k>>) /\ IsJoin(<<o, k>>)
           /\ Entered(o) /\ <<o, 1>> # MainStart /\ <<o, 0>> # MainStart /\ <<o, 2>> # MainStart /\ o # 0
<1>1. WellFormedMemoryProgram(prog) /\ queue = <<>> /\ LiveInv
  BY DEF SolverDone, Solved, TypeOKUniformity
<1>2. \A k \in Regions(prog, o) : <<o, k>> \in live
  BY <1>1, AllLive
<1>3. o # 0
  <2>1. o \in 1 .. Len(prog)
    BY <1>1, OperationTyped
  <2> QED
    BY <2>1
<1>4. Regions(prog, o) \subseteq {1, 2} /\ 1 \in Regions(prog, o)
  BY RegionsTyped
<1>5. prog[o].kind \notin Arguments
  BY DEF RegionOps, Arguments
<1>6. ASSUME NEW k \in Regions(prog, o) \union {0}
      PROVE  <<o, k>> \in VisitedPoints(prog) /\ IsLive(<<o, k>>) /\ IsJoin(<<o, k>>)
  <2>1. <<o, k>> \in VisitedPoints(prog)
    BY <1>5, PointsAre DEF VisitedPoints
  <2>2. IsLive(<<o, k>>) /\ IsJoin(<<o, k>>)
    BY <1>2, <1>4 DEF IsLive, IsJoin
  <2> QED
    BY <2>1, <2>2
<1> QED
  BY <1>2, <1>3, <1>4, <1>6 DEF Entered, MainStart

(* Where control comes from. *)
LEMMA ComesFrom ==
    ASSUME NEW p, NEW o, o # 0
    PROVE  /\ p[o].kind = "if" =>
                /\ Predecessors(p, <<o, 0>>) = {EndOf(p, o, 1), IF HasElse(p, o) THEN EndOf(p, o, 2) ELSE Before(p, o)}
                /\ Predecessors(p, <<o, 1>>) = {Before(p, o)} /\ Predecessors(p, <<o, 2>>) = {Before(p, o)}
           /\ p[o].kind = "for" =>
                /\ Predecessors(p, <<o, 0>>) = {EndOf(p, o, 1), Before(p, o)}
                /\ Predecessors(p, <<o, 1>>) = {EndOf(p, o, 1), Before(p, o)}
           /\ p[o].kind = "while" =>
                /\ Predecessors(p, <<o, 0>>) = {EndOf(p, o, 1)}
                /\ Predecessors(p, <<o, 1>>) = {EndOf(p, o, 2), Before(p, o)}
                /\ Predecessors(p, <<o, 2>>) = {EndOf(p, o, 1)}
<1> DEFINE a == <<o, 0>>
           b == <<o, 1>>
           c == <<o, 2>>
<1>1. /\ a # MainStart /\ a[1] = o /\ a[2] = 0
      /\ b # MainStart /\ b[1] = o /\ b[2] = 1
      /\ c # MainStart /\ c[1] = o /\ c[2] = 2
  BY DEF MainStart
<1> HIDE DEF a, b, c
<1>2. CASE p[o].kind = "if"
  BY <1>1, <1>2 DEF Predecessors, RegionOps, a, b, c
<1>3. CASE p[o].kind = "for"
  BY <1>1, <1>3 DEF Predecessors, RegionOps, a, b, c
<1>4. CASE p[o].kind = "while"
  BY <1>1, <1>4 DEF Predecessors, RegionOps, a, b, c
<1> QED
  BY <1>2, <1>3, <1>4

(* A rank enters an operation with regions, or passes it over. *)
LEMMA EnterMeant ==
    ASSUME SolverDone, RunTyped, RanksMeant, UNCHANGED solverVars, NEW r \in Ranks, Enter(r)
    PROVE  RunTyped' /\ RanksMeant'
<1> PICK o : o = NextOp(r)
  OBVIOUS
<1>1. WellFormedMemoryProgram(prog) /\ pc[r] \in VisitedPoints(prog) /\ IsLive(pc[r]) /\ ~AtEnd(r)
  BY DEF SolverDone, TypeOKUniformity, RanksMeant, RankMeant, Enter
<1>2. o \in DOMAIN prog /\ RegionAt(prog, o) = Region(r) /\ Before(prog, o) = pc[r]
  BY <1>1, NextOpIs
<1>3. RegionAt(prog, o) \in live
  BY <1>1, <1>2 DEF IsLive, Region
<1>4. prog[o].kind \in RegionOps
  BY DEF Enter, RegionOps
<1>5. /\ \A k \in Regions(prog, o) \union {0} :
           <<o, k>> \in VisitedPoints(prog) /\ IsLive(<<o, k>>) /\ IsJoin(<<o, k>>)
      /\ Entered(o) /\ o # 0
  BY <1>2, <1>3, <1>4, OwnerReached
<1>0. /\ prog[o].kind = "if" =>
           /\ Predecessors(prog, <<o, 0>>) = {EndOf(prog, o, 1), IF HasElse(prog, o) THEN EndOf(prog, o, 2) ELSE Before(prog, o)}
           /\ Predecessors(prog, <<o, 1>>) = {Before(prog, o)} /\ Predecessors(prog, <<o, 2>>) = {Before(prog, o)}
      /\ prog[o].kind = "for" =>
           /\ Predecessors(prog, <<o, 0>>) = {EndOf(prog, o, 1), Before(prog, o)}
           /\ Predecessors(prog, <<o, 1>>) = {EndOf(prog, o, 1), Before(prog, o)}
      /\ prog[o].kind = "while" =>
           /\ Predecessors(prog, <<o, 0>>) = {EndOf(prog, o, 1)}
           /\ Predecessors(prog, <<o, 1>>) = {EndOf(prog, o, 2), Before(prog, o)}
           /\ Predecessors(prog, <<o, 2>>) = {EndOf(prog, o, 1)}
  <2>1. o # 0
    BY <1>5
  <2> QED
    BY <2>1, ComesFrom
<1>6. cells' = cells
  BY DEF Enter
<1>7. ASSUME NEW k \in Regions(prog, o) \union {0}, Before(prog, o) \in Predecessors(prog, <<o, k>>),
             NEW vals, NEW ts, Go(r, <<o, k>>, vals, ts),
             \A m \in DOMAIN prog : prog[m].kind \in MemrefOps => ResultOf(m) \notin DOMAIN vals
      PROVE  RunTyped' /\ RanksMeant'
  <2> PICK q : q = <<o, k>>
    OBVIOUS
  <2>1. q \in VisitedPoints(prog) /\ IsLive(q) /\ IsJoin(q) /\ q[1] = o /\ Entered(q[1])
    BY <1>5
  <2>2. GoesFrom(prog, pc[r], q)
    BY <1>1, <1>2, <1>4, EnterKnown
  <2>3. pc[r] \in Predecessors(prog, q) /\ Go(r, q, vals, ts)
    BY <1>2, <1>7
  <2> QED
    BY <1>6, <1>7, <2>1, <2>2, <2>3, ControlStep
<1>8. \A m \in DOMAIN prog : prog[m].kind \in MemrefOps =>
        /\ ResultOf(m) \notin Results(o)
        /\ ResultOf(m) # IvOf(o) /\ ResultOf(m) # IterOf(o)
  <2>1. ASSUME NEW m \in DOMAIN prog, prog[m].kind \in MemrefOps
        PROVE  ResultOf(m) \notin Results(o) /\ ResultOf(m) # IvOf(o) /\ ResultOf(m) # IterOf(o)
    <3>1. m # o
      BY <1>4, <2>1 DEF MemrefOps, RegionOps
    <3> QED
      BY <1>1, <3>1, ResultsAre
  <2> QED
    BY <2>1
<1>9. CASE prog[o].kind = "if"
  <2> PICK k : k = IF Val(r, prog[o].uses[1]) # 0 THEN 1 ELSE 2
    OBVIOUS
  <2> PICK l : l = IF k \in Regions(prog, o) THEN k ELSE 0
    OBVIOUS
  <2>1. Go(r, <<o, l>>, <<>>, turns[r])
    BY <1>9 DEF Enter
  <2>2. l \in Regions(prog, o) \union {0}
    OBVIOUS
  <2>3. Before(prog, o) \in Predecessors(prog, <<o, l>>)
    <3>1. CASE l = 0
      <4>1. k = 2 /\ 2 \notin Regions(prog, o)
        BY <1>4, <3>1, RegionsTyped
      <4>2. ~HasElse(prog, o)
        BY <1>9, <4>1, RegionsTyped
      <4> QED
        BY <1>9, <3>1, <4>2, <1>0
    <3>2. CASE l # 0
      <4>1. l = 1 \/ l = 2
        BY <3>2
      <4> QED
        BY <1>9, <4>1, <1>0
    <3> QED
      BY <3>1, <3>2
  <2>4. \A v : v \notin DOMAIN <<>>
    OBVIOUS
  <2> QED
    BY <1>7, <2>1, <2>2, <2>3, <2>4
<1>10. CASE prog[o].kind = "for"
  <2> PICK init : init = IF Carries(o) THEN Val(r, prog[o].uses[3]) ELSE 0
    OBVIOUS
  <2>1. \/ Go(r, <<o, 1>>, ForArguments(r, o, Lower(r, o), init), [turns[r] EXCEPT ![o] = 0])
        \/ Go(r, <<o, 0>>, RegionResult(o, init), turns[r])
    BY <1>10 DEF Enter
  <2>2. 1 \in Regions(prog, o) /\ Before(prog, o) \in Predecessors(prog, <<o, 0>>) /\ Before(prog, o) \in Predecessors(prog, <<o, 1>>)
    BY <1>4, <1>10, RegionsTyped, <1>0
  <2>3. \A m \in DOMAIN prog : prog[m].kind \in MemrefOps =>
          ResultOf(m) \notin DOMAIN ForArguments(r, o, Lower(r, o), init) /\ ResultOf(m) \notin DOMAIN RegionResult(o, init)
    BY <1>8 DEF ForArguments, RegionResult
  <2> QED
    BY <1>7, <2>1, <2>2, <2>3
<1>11. CASE prog[o].kind = "while"
  <2>1. Go(r, <<o, 1>>, <<>>, [turns[r] EXCEPT ![o] = 0])
    BY <1>11 DEF Enter
  <2>2. 1 \in Regions(prog, o) /\ Before(prog, o) \in Predecessors(prog, <<o, 1>>)
    BY <1>4, <1>11, RegionsTyped, <1>0
  <2>3. \A v : v \notin DOMAIN <<>>
    OBVIOUS
  <2> QED
    BY <1>7, <2>1, <2>2, <2>3
<1> QED
  BY <1>4, <1>9, <1>10, <1>11 DEF RegionOps

(* A rank that leaves a region. *)
LEMMA LeaveMeant ==
    ASSUME SolverDone, RunTyped, RanksMeant, UNCHANGED solverVars, NEW r \in Ranks, Leave(r)
    PROVE  RunTyped' /\ RanksMeant'
<1> PICK pt : pt = pc[r]
  OBVIOUS
<1> PICK b : b = Region(r)[1]
  OBVIOUS
<1> PICK k : k = Region(r)[2]
  OBVIOUS
<1>1. WellFormedMemoryProgram(prog) /\ PlainMemory(prog) /\ pt \in VisitedPoints(prog) /\ IsLive(pt) /\ AtEnd(r) /\ LiveInv
  BY DEF SolverDone, TypeOKUniformity, RanksMeant, RankMeant, Leave
<1>2. Region(r) = RegionOfPoint(prog, pt) /\ Region(r) # MainStart
  BY DEF Region, RegionOfPoint, Leave
<1>3. Region(r) \in VisitedPoints(prog) /\ Region(r)[2] # 0
  BY <1>1, <1>2, RegionOfPointIs
<1>4. b \in DOMAIN prog /\ k \in Regions(prog, b) /\ Region(r) = <<b, k>>
  BY <1>2, <1>3, PointParts DEF VisitedPoints
<1>5. prog[b].kind \in RegionOps
  BY <1>4, RegionsTyped
<1>6. RegionAt(prog, b) \in live
  <2>1. <<b, k>> \in live
    BY <1>1, <1>4 DEF IsLive, Region
  <2> QED
    BY <1>1, <1>4, <1>5, <2>1 DEF LiveInv
<1>7. /\ \A l \in Regions(prog, b) \union {0} :
           <<b, l>> \in VisitedPoints(prog) /\ IsLive(<<b, l>>) /\ IsJoin(<<b, l>>)
      /\ Entered(b) /\ b # 0
  BY <1>4, <1>5, <1>6, OwnerReached
<1>0. /\ prog[b].kind = "if" =>
           /\ Predecessors(prog, <<b, 0>>) = {EndOf(prog, b, 1), IF HasElse(prog, b) THEN EndOf(prog, b, 2) ELSE Before(prog, b)}
           /\ Predecessors(prog, <<b, 1>>) = {Before(prog, b)} /\ Predecessors(prog, <<b, 2>>) = {Before(prog, b)}
      /\ prog[b].kind = "for" =>
           /\ Predecessors(prog, <<b, 0>>) = {EndOf(prog, b, 1), Before(prog, b)}
           /\ Predecessors(prog, <<b, 1>>) = {EndOf(prog, b, 1), Before(prog, b)}
      /\ prog[b].kind = "while" =>
           /\ Predecessors(prog, <<b, 0>>) = {EndOf(prog, b, 1)}
           /\ Predecessors(prog, <<b, 1>>) = {EndOf(prog, b, 2), Before(prog, b)}
           /\ Predecessors(prog, <<b, 2>>) = {EndOf(prog, b, 1)}
  <2>1. b # 0
    BY <1>7
  <2> QED
    BY <2>1, ComesFrom
<1>8. EndOf(prog, b, k) = pt
  BY <1>1, AtEndIs
<1>9. cells' = cells
  BY DEF Leave
<1>10. ASSUME NEW l \in Regions(prog, b) \union {0}, EndOf(prog, b, k) \in Predecessors(prog, <<b, l>>),
              NEW vals, NEW ts, Go(r, <<b, l>>, vals, ts),
              \A m \in DOMAIN prog : prog[m].kind \in MemrefOps => ResultOf(m) \notin DOMAIN vals
       PROVE  RunTyped' /\ RanksMeant'
  <2> PICK q : q = <<b, l>>
    OBVIOUS
  <2>1. q \in VisitedPoints(prog) /\ IsLive(q) /\ IsJoin(q) /\ q[1] = b /\ Entered(q[1])
    BY <1>7
  <2>2. GoesFrom(prog, pc[r], q)
    BY <1>1, <1>2, LeaveKnown
  <2>3. pc[r] \in Predecessors(prog, q) /\ Go(r, q, vals, ts)
    BY <1>8, <1>10
  <2> QED
    BY <1>9, <1>10, <2>1, <2>2, <2>3, ControlStep
<1>11. \A m \in DOMAIN prog : prog[m].kind \in MemrefOps =>
         /\ ResultOf(m) \notin Results(b)
         /\ ResultOf(m) # IvOf(b) /\ ResultOf(m) # IterOf(b)
  <2>1. ASSUME NEW m \in DOMAIN prog, prog[m].kind \in MemrefOps
        PROVE  ResultOf(m) \notin Results(b) /\ ResultOf(m) # IvOf(b) /\ ResultOf(m) # IterOf(b)
    <3>1. m # b
      BY <1>5, <2>1 DEF MemrefOps, RegionOps
    <3> QED
      BY <1>1, <3>1, ResultsAre
  <2> QED
    BY <2>1
<1> PICK carried : carried = IF prog[b].yields = <<>> THEN 0
                             ELSE Val(r, prog[b].yields[IF prog[b].kind = "if" THEN k ELSE 1])
  OBVIOUS
<1>12. \A n : \A m \in DOMAIN prog : prog[m].kind \in MemrefOps =>
          ResultOf(m) \notin DOMAIN ForArguments(r, b, n, carried) /\ ResultOf(m) \notin DOMAIN RegionResult(b, carried)
  BY <1>11 DEF ForArguments, RegionResult
<1>13. \A v : v \notin DOMAIN <<>>
  OBVIOUS
<1>14. Regions(prog, b) \subseteq {1, 2} /\ 1 \in Regions(prog, b) /\ k \in {1, 2}
  BY <1>4, <1>5, RegionsTyped
<1>15. CASE prog[b].kind = "if"
  <2>1. Go(r, <<b, 0>>, RegionResult(b, carried), turns[r])
    BY <1>15 DEF Leave
  <2>2. EndOf(prog, b, k) \in Predecessors(prog, <<b, 0>>)
    <3>1. k = 2 => HasElse(prog, b)
      BY <1>4, <1>15, RegionsTyped
    <3> QED
      BY <1>14, <1>15, <3>1, <1>0
  <2> QED
    BY <1>10, <1>12, <2>1, <2>2
<1>16. CASE prog[b].kind = "for"
  <2> PICK i : i = Val(r, IvOf(b)) + 1
    OBVIOUS
  <2>1. \/ Go(r, <<b, 1>>, ForArguments(r, b, i, carried), Again(r, b))
        \/ Go(r, <<b, 0>>, RegionResult(b, carried), turns[r])
    BY <1>16 DEF Leave
  <2>2. EndOf(prog, b, k) \in Predecessors(prog, <<b, 0>>) /\ EndOf(prog, b, k) \in Predecessors(prog, <<b, 1>>)
    <3>1. k = 1
      BY <1>4, <1>16, RegionsTyped
    <3> QED
      BY <1>16, <3>1, <1>0
  <2> QED
    BY <1>10, <1>12, <1>14, <2>1, <2>2
<1>17. CASE prog[b].kind = "while"
  <2>1. 2 \in Regions(prog, b)
    BY <1>17, RegionsTyped
  <2>2. CASE k = 1
    <3> PICK l : l = IF carried # 0 THEN 2 ELSE 0
      OBVIOUS
    <3>1. Go(r, <<b, l>>, <<>>, turns[r])
      BY <1>17, <2>2 DEF Leave
    <3>2. l \in Regions(prog, b) \union {0}
      BY <2>1
    <3>3. EndOf(prog, b, k) \in Predecessors(prog, <<b, l>>)
      <4>1. l = 0 \/ l = 2
        OBVIOUS
      <4> QED
        BY <1>17, <2>2, <4>1, <1>0
    <3> QED
      BY <1>10, <1>13, <3>1, <3>2, <3>3
  <2>3. CASE k = 2
    <3>1. Go(r, <<b, 1>>, <<>>, Again(r, b))
      BY <1>17, <2>3 DEF Leave
    <3>2. EndOf(prog, b, k) \in Predecessors(prog, <<b, 1>>)
      BY <1>17, <2>3, <1>0
    <3> QED
      BY <1>10, <1>13, <1>14, <3>1, <3>2
  <2> QED
    BY <1>14, <2>2, <2>3
<1> QED
  BY <1>5, <1>15, <1>16, <1>17 DEF RegionOps

-----------------------------------------------------------------------------
(* A rank has executed an operation without regions, which wrote what it is to write. *)
LEMMA MoveStep ==
    ASSUME SolverDone, UNCHANGED solverVars, NEW s \in Ranks, RankMeant(s), NEW o \in DOMAIN prog,
           prog[o].kind \notin RegionOps \union Arguments, Before(prog, o) = pc[s], RegionAt(prog, o) \in live,
           pc'[s] = <<o, 0>>,
           \A m \in DOMAIN prog : m # o => env'[s][ResultOf(m)] = env[s][ResultOf(m)],
           prog[o].kind \in MemrefOps => env'[s][ResultOf(o)] = SourceOf(prog, o),
           \A m \in DOMAIN prog : cells'[s][m][0].by = IF m = Target(prog, o) THEN o ELSE cells[s][m][0].by
    PROVE  RankMeant(s)'
<1>1. prog' = prog /\ defs' = defs /\ live' = live
  BY DEF solverVars
<1>2. WellFormedMemoryProgram(prog) /\ PlainMemory(prog)
  BY DEF SolverDone, TypeOKUniformity
<1>3. Meant(prog, Before(prog, o), env[s]) /\ WritersFound(prog, defs, Before(prog, o), cells[s])
  BY DEF RankMeant
<1> DEFINE q == <<o, 0>>
<1>4. q \in VisitedPoints(prog) /\ IsLive(q)
  BY PointsAre DEF VisitedPoints, IsLive
<1>5. Meant(prog, q, env'[s])
  BY <1>2, <1>3, MoveMeant
<1>6. \A m \in DOMAIN prog :
         /\ m \in Sets(prog, o, Acting(prog, o)) => o \in defs[<<o, 0>>].mods[m]
         /\ m \notin Sets(prog, o, Acting(prog, o)) /\ m \notin Clears(prog, o, Acting(prog, o)) =>
              defs[Before(prog, o)].mods[m] \subseteq defs[<<o, 0>>].mods[m]
  BY SolvedTransfer DEF SolverDone
<1>7. WritersFound(prog, defs, q, cells'[s])
  BY <1>2, <1>3, <1>6, MoveWritten
<1> HIDE DEF q
<1>8. pc'[s] = q /\ IsLive(q)'
  BY <1>1, <1>4 DEF IsLive, q
<1> QED
  BY <1>1, <1>4, <1>5, <1>7, <1>8 DEF RankMeant, IsLive

(* The memory that an operation's k-th operand is. *)
LEMMA MemOfIs ==
    ASSUME SolverDone, NEW s \in Ranks, RankMeant(s), NEW o \in DOMAIN prog, Before(prog, o) = pc[s],
           prog[o].kind \notin Arguments,
           NEW k, prog[o].mem[k] \in DOMAIN prog, Dominates(prog, prog[o].mem[k], o),
           prog[prog[o].mem[k]].kind \in MemrefOps
    PROVE  MemOf(s, o, k) = SourceOf(prog, prog[o].mem[k]) /\ MemOf(s, o, k) \in DOMAIN prog
<1>1. WellFormedMemoryProgram(prog) /\ PlainMemory(prog) /\ Meant(prog, Before(prog, o), env[s])
  BY DEF SolverDone, TypeOKUniformity, RankMeant
<1> PICK n \in DOMAIN prog : n = prog[o].mem[k]
  OBVIOUS
<1>2. env[s][ResultOf(n)] = SourceOf(prog, n) /\ SourceOf(prog, n) \in DOMAIN prog
  BY <1>1, OperandMeant
<1> QED
  BY <1>2 DEF MemOf

(* What an operation writes names it. *)
LEMMA WriterIs == ASSUME NEW o, NEW n PROVE WrittenBy(o, n).by = o
  BY DEF WrittenBy

(* A rank executes an operation by itself. *)
LEMMA ExecuteMeant ==
    ASSUME SolverDone, RunTyped, RanksMeant, UNCHANGED solverVars, NEW r \in Ranks, Execute(r)
    PROVE  RunTyped' /\ RanksMeant'
<1> PICK o : o = NextOp(r)
  OBVIOUS
<1>1. WellFormedMemoryProgram(prog) /\ PlainMemory(prog) /\ RankMeant(r) /\ pc[r] \in VisitedPoints(prog)
      /\ IsLive(pc[r]) /\ ~AtEnd(r) /\ prog' = prog
  BY DEF SolverDone, TypeOKUniformity, RanksMeant, RankMeant, Execute, solverVars
<1>2. o \in DOMAIN prog /\ prog[o].kind \notin Arguments /\ RegionAt(prog, o) = Region(r) /\ Before(prog, o) = pc[r]
  BY <1>1, NextOpIs
<1>3. RegionAt(prog, o) \in live
  BY <1>1, <1>2 DEF IsLive, Region
<1>4. prog[o].kind \notin RegionOps \union Collectives /\ prog[o].kind \notin {"select", "merge", "recv"}
  BY <1>1, <1>2 DEF Execute, PlainMemory
<1> PICK vals : vals = [v \in Results(o) |-> ResultValue(r, o)]
  OBVIOUS
<1>5. Go(r, <<o, 0>>, vals, turns[r])
  BY DEF Execute
<1>6. /\ DOMAIN pc' = Ranks /\ DOMAIN env' = Ranks
      /\ \A s \in Ranks : DOMAIN env'[s] = ValuesUpTo(Len(prog))
      /\ pc'[r] = <<o, 0>> /\ \A s \in Ranks \ {r} : pc'[s] = pc[s] /\ env'[s] = env[s]
      /\ \A v \in ValuesUpTo(Len(prog)) : env'[r][v] = IF v \in DOMAIN vals THEN vals[v] ELSE env[r][v]
  BY <1>5, GoMoves
<1>7. \A m \in DOMAIN prog : m # o => env'[r][ResultOf(m)] = env[r][ResultOf(m)]
  BY <1>1, <1>6, ResultsAre
<1>8. ASSUME prog[o].kind \in {"load", "store", "view", "free"}
      PROVE  MemOf(r, o, 1) = SourceOf(prog, prog[o].mem[1]) /\ MemOf(r, o, 1) \in DOMAIN prog
  <2>1. /\ prog[o].mem[1] \in DOMAIN prog /\ Dominates(prog, prog[o].mem[1], o)
        /\ prog[prog[o].mem[1]].kind \in MemrefOps
    BY <1>1, <1>2, <1>8, FirstMemref
  <2> QED
    BY <1>1, <1>2, <2>1, MemOfIs
<1>9. ASSUME prog[o].kind \in MemrefOps
      PROVE  env'[r][ResultOf(o)] = SourceOf(prog, o)
  <2>1. prog[o].kind \in {"alloca", "malloc", "view"}
    BY <1>2, <1>4, <1>9 DEF MemrefOps, Arguments
  <2>2. ResultOf(o) \in DOMAIN vals /\ vals[ResultOf(o)] = ResultValue(r, o)
    BY <1>9 DEF Results, HasResult
  <2>3. ResultOf(o) \in ValuesUpTo(Len(prog))
    BY <1>1, <1>2, ResultsAre
  <2>4. ResultValue(r, o) = SourceOf(prog, o)
    <3>1. CASE prog[o].kind \in {"alloca", "malloc"}
      BY <3>1 DEF ResultValue, SourceOf
    <3>2. CASE prog[o].kind = "view"
      <4>1. ResultValue(r, o) = MemOf(r, o, 1) /\ SourceOf(prog, o) = prog[o].mem[1]
        BY <3>2 DEF ResultValue, SourceOf
      <4>2. prog[prog[o].mem[1]].kind \in {"alloca", "malloc"}
        BY <1>1, <1>2, <3>2 DEF PlainMemory
      <4>3. SourceOf(prog, prog[o].mem[1]) = prog[o].mem[1]
        BY <4>2 DEF SourceOf
      <4> QED
        BY <1>8, <3>2, <4>1, <4>3
    <3> QED
      BY <2>1, <3>1, <3>2
  <2> QED
    BY <1>6, <2>2, <2>3, <2>4
<1>10. /\ DOMAIN cells' = Ranks /\ DOMAIN cells'[r] = DOMAIN prog
       /\ \A m \in DOMAIN prog : DOMAIN cells'[r][m] = Numbers
       /\ \A s \in Ranks \ {r} : cells'[s] = cells[s]
       /\ \A m \in DOMAIN prog : cells'[r][m][0].by = IF m = Target(prog, o) THEN o ELSE cells[r][m][0].by
  <2>0. /\ DOMAIN cells = Ranks /\ DOMAIN cells[r] = DOMAIN prog
        /\ \A m \in DOMAIN prog : DOMAIN cells[r][m] = Numbers
    BY DEF RunTyped
  <2>1. CASE prog[o].kind = "store"
    <3> PICK M : M = MemOf(r, o, 1)
      OBVIOUS
    <3> PICK w : w = WrittenBy(o, Val(r, prog[o].uses[1]))
      OBVIOUS
    <3>1. M \in DOMAIN prog /\ M = Target(prog, o)
      BY <1>8, <2>1 DEF Target, Allocations
    <3>2. prog[o].elem = 0
      BY <1>1, <1>2 DEF PlainMemory
    <3>3. cells' = [cells EXCEPT ![r][M][0] = w]
      BY <2>1, <3>2 DEF Execute
    <3>4. 0 \in Numbers /\ w.by = o
      BY WriterIs DEF Numbers
    <3>5. /\ cells'[r] = [cells[r] EXCEPT ![M] = [cells[r][M] EXCEPT ![0] = w]]
          /\ DOMAIN cells' = Ranks /\ \A s \in Ranks \ {r} : cells'[s] = cells[s]
      BY <2>0, <3>3
    <3>6. DOMAIN cells'[r] = DOMAIN prog /\ \A m \in DOMAIN prog : m # M => cells'[r][m] = cells[r][m]
      BY <2>0, <3>1, <3>5
    <3>7. DOMAIN cells'[r][M] = Numbers /\ cells'[r][M][0] = w
      BY <2>0, <3>1, <3>4, <3>5
    <3> QED
      BY <2>0, <3>1, <3>4, <3>5, <3>6, <3>7
  <2>2. CASE prog[o].kind \in {"alloca", "malloc"}
    <3> PICK f : f = [e \in Numbers |-> WrittenBy(o, 0)]
      OBVIOUS
    <3>1. cells' = [cells EXCEPT ![r][o] = f]
      BY <2>2 DEF Execute
    <3>2. Target(prog, o) = o
      BY <2>2 DEF Target, Allocations
    <3>3. 0 \in Numbers /\ DOMAIN f = Numbers /\ f[0].by = o
      BY WriterIs DEF Numbers
    <3>4. /\ cells'[r] = [cells[r] EXCEPT ![o] = f]
          /\ DOMAIN cells' = Ranks /\ \A s \in Ranks \ {r} : cells'[s] = cells[s]
      BY <2>0, <3>1
    <3>5. DOMAIN cells'[r] = DOMAIN prog /\ cells'[r][o] = f /\ \A m \in DOMAIN prog : m # o => cells'[r][m] = cells[r][m]
      BY <1>2, <2>0, <3>4
    <3> QED
      BY <2>0, <3>2, <3>3, <3>4, <3>5
  <2>3. CASE prog[o].kind \notin {"store", "alloca", "malloc"}
    <3>1. cells' = cells
      BY <1>4, <2>3 DEF Execute
    <3>2. Target(prog, o) = 0
      BY <1>4, <2>3 DEF Target, Allocations, Collectives
    <3>3. 0 \notin DOMAIN prog
      BY <1>1, <1>2, OperationTyped
    <3> QED
      BY <2>0, <3>1, <3>2, <3>3
  <2> QED
    BY <2>1, <2>2, <2>3
<1>11. RunTyped'
  BY <1>1, <1>6, <1>10 DEF RunTyped
<1>12. RankMeant(r)'
  BY <1>1, <1>2, <1>3, <1>4, <1>6, <1>7, <1>9, <1>10, MoveStep
<1>13. ASSUME NEW s \in Ranks \ {r}
       PROVE  RankMeant(s)'
  BY <1>6, <1>10, OthersMeant DEF RanksMeant
<1> QED
  BY <1>11, <1>12, <1>13 DEF RanksMeant

(* All ranks execute a collective. *)
LEMMA MeetMeant ==
    ASSUME SolverDone, RunTyped, RanksMeant, UNCHANGED solverVars, NEW o \in DOMAIN prog, Meet(o)
    PROVE  RunTyped' /\ RanksMeant'
<1>1. WellFormedMemoryProgram(prog) /\ PlainMemory(prog) /\ prog' = prog /\ env' = env /\ DOMAIN pc' = Ranks
      /\ DOMAIN cells' = Ranks /\ \A r \in Ranks : pc'[r] = <<o, 0>>
  BY DEF SolverDone, TypeOKUniformity, Meet, solverVars
<1>2. prog[o].kind \in {"bcast", "scatter"}
  BY <1>1 DEF Meet, Collectives, PlainMemory
<1>3. ASSUME NEW r \in Ranks
      PROVE  /\ RankMeant(r)'
             /\ DOMAIN cells'[r] = DOMAIN prog /\ \A m \in DOMAIN prog : DOMAIN cells'[r][m] = Numbers
  <2>1. RankMeant(r) /\ pc[r] \in VisitedPoints(prog) /\ IsLive(pc[r]) /\ ~AtEnd(r) /\ o = NextOp(r)
    BY DEF RanksMeant, RankMeant, Meet
  <2>2. RegionAt(prog, o) = Region(r) /\ Before(prog, o) = pc[r] /\ prog[o].kind \notin Arguments
    BY <1>1, <2>1, NextOpIs
  <2>3. RegionAt(prog, o) \in live
    BY <2>1, <2>2 DEF IsLive, Region
  <2> PICK M : M = MemOf(r, o, 2)
    OBVIOUS
  <2>4. M \in DOMAIN prog /\ M = Target(prog, o)
    <3>1. /\ prog[o].mem[2] \in DOMAIN prog /\ Dominates(prog, prog[o].mem[2], o)
          /\ prog[prog[o].mem[2]].kind \in MemrefOps
      BY <1>1, <1>2, FirstMemref
    <3>2. M = SourceOf(prog, prog[o].mem[2]) /\ M \in DOMAIN prog
      BY <2>1, <2>2, <3>1, MemOfIs
    <3> QED
      BY <1>2, <3>2 DEF Target, Allocations
  <2>5. DOMAIN cells[r] = DOMAIN prog /\ \A m \in DOMAIN prog : DOMAIN cells[r][m] = Numbers
    BY DEF RunTyped
  <2>6. 0 \in Numbers
    BY DEF Numbers
  <2>7. \E f : cells'[r] = [cells[r] EXCEPT ![M] = f] /\ DOMAIN f = Numbers /\ f[0].by = o
    <3>1. CASE prog[o].kind = "bcast"
      <4> DEFINE f == [e \in Numbers |-> WrittenBy(o, cells[0][MemOf(0, o, 1)][e].val)]
      <4>1. cells'[r] = [cells[r] EXCEPT ![M] = f]
        BY <3>1 DEF Meet
      <4>2. DOMAIN f = Numbers /\ f[0].by = o
        BY <2>6, WriterIs
      <4> QED
        BY <4>1, <4>2
    <3>2. CASE prog[o].kind = "scatter"
      <4> PICK w : w = WrittenBy(o, cells[0][MemOf(0, o, 1)][r].val)
        OBVIOUS
      <4> DEFINE f == [cells[r][M] EXCEPT ![0] = w]
      <4>1. cells'[r] = [cells[r] EXCEPT ![M][0] = w]
        BY <3>2 DEF Meet
      <4>2. DOMAIN f = Numbers /\ f[0].by = o
        BY <2>4, <2>5, <2>6, WriterIs
      <4>3. cells'[r] = [cells[r] EXCEPT ![M] = f]
        BY <2>4, <2>5, <4>1
      <4> QED
        BY <4>2, <4>3
    <3> QED
      BY <1>2, <3>1, <3>2
  <2>8. PICK f : cells'[r] = [cells[r] EXCEPT ![M] = f] /\ DOMAIN f = Numbers /\ f[0].by = o
    BY <2>7
  <2>9. DOMAIN cells'[r] = DOMAIN prog /\ cells'[r][M] = f /\ \A m \in DOMAIN prog : m # M => cells'[r][m] = cells[r][m]
    BY <2>4, <2>5, <2>8
  <2>10. \A m \in DOMAIN prog : cells'[r][m][0].by = IF m = Target(prog, o) THEN o ELSE cells[r][m][0].by
    BY <2>4, <2>8, <2>9
  <2>11. \A m \in DOMAIN prog : DOMAIN cells'[r][m] = Numbers
    BY <2>5, <2>8, <2>9
  <2>12. prog[o].kind \notin RegionOps \union Arguments \union MemrefOps
    BY <1>2 DEF RegionOps, Arguments, MemrefOps
  <2>13. RankMeant(r)'
    BY <1>1, <2>1, <2>2, <2>3, <2>10, <2>12, MoveStep
  <2> QED
    BY <2>9, <2>11, <2>13
<1> QED
  BY <1>1, <1>3 DEF RunTyped, RanksMeant

-----------------------------------------------------------------------------
(* What is loaded has been written by a modifier of the load, or allocated. *)
FoundAt(o, d) ==
    /\ o \in DOMAIN prog /\ prog[o].kind = "load"
    /\ d \in ModifiersAt(o) \/ (prog[prog[o].mem[1]].kind = "view" /\ IsAllocation(prog, d))

LoadsFound == \A l \in loads : FoundAt(l[1], l[2])

(* A rank that executes a load records a writer that the analysis has found. *)
LEMMA LoadFinds ==
    ASSUME SolverDone, RanksMeant, LoadsFound, NEW r \in Ranks, Execute(r), UNCHANGED solverVars
    PROVE  LoadsFound'
<1> PICK o : o = NextOp(r)
  OBVIOUS
<1>1. WellFormedMemoryProgram(prog) /\ PlainMemory(prog) /\ RankMeant(r) /\ pc[r] \in VisitedPoints(prog)
      /\ IsLive(pc[r]) /\ ~AtEnd(r)
  BY DEF SolverDone, TypeOKUniformity, RanksMeant, RankMeant, Execute
<1>2. o \in DOMAIN prog /\ prog[o].kind \notin Arguments /\ RegionAt(prog, o) = Region(r) /\ Before(prog, o) = pc[r]
  BY <1>1, NextOpIs
<1>3. UNCHANGED <<prog, defs>> /\ \A l : ModifiersAt(l)' = ModifiersAt(l)
  BY DEF solverVars, ModifiersAt
<1>4. ASSUME prog[o].kind = "load"
      PROVE  FoundAt(o, Content(r, o).by)
  <2> PICK n : n = prog[o].mem[1]
    OBVIOUS
  <2> PICK d : d = cells[r][env[r][ResultOf(n)]][0].by
    OBVIOUS
  <2>1. d = Content(r, o).by
    <3>1. prog[o].elem = 0
      BY <1>1, <1>2 DEF PlainMemory
    <3> QED
      BY <3>1 DEF Content, MemOf
  <2>2. d \in defs[Before(prog, o)].mods[n] \/ (prog[n].kind = "view" /\ IsAllocation(prog, d))
    <3>1. Meant(prog, Before(prog, o), env[r]) /\ WritersFound(prog, defs, Before(prog, o), cells[r])
      BY <1>1, <1>2 DEF RankMeant
    <3> QED
      BY <1>1, <1>2, <1>4, <3>1, LoadMeant
  <2>3. n \in DOMAIN prog
    BY <1>1, <1>2, <1>4, FirstMemref
  <2>4. defs[Before(prog, o)].mods[n] \subseteq defs[<<o, 0>>].mods[n]
    <3>1. RegionAt(prog, o) \in live
      BY <1>1, <1>2 DEF IsLive, Region
    <3>2. Acting(prog, o) = <<"Read", 0>>
      BY <1>4 DEF Acting, Allocations
    <3>3. Sets(prog, o, Acting(prog, o)) = {} /\ Clears(prog, o, Acting(prog, o)) = {}
      BY <3>2 DEF Sets, Clears
    <3>4. prog[o].kind \notin RegionOps \union Arguments
      BY <1>4 DEF RegionOps, Arguments
    <3> QED
      BY <1>2, <2>3, <3>1, <3>3, <3>4, SolvedTransfer DEF SolverDone
  <2>5. n \in ReadBy(prog, o)
    <3>1. Effects(prog, o) = <<<<"Read", n>>>>
      BY <1>4 DEF Effects
    <3>2. 1 \in {j \in DOMAIN Effects(prog, o) : Effects(prog, o)[j][1] = "Read"} /\ Effects(prog, o)[1][2] = n
      BY <3>1
    <3> QED
      BY <3>2 DEF ReadBy
  <2>6. defs[<<o, 0>>].mods[n] \subseteq ModifiersAt(o)
    BY <2>5 DEF ModifiersAt, Modifiers
  <2> QED
    BY <1>2, <1>4, <2>1, <2>2, <2>4, <2>6 DEF FoundAt
<1>5. loads' = IF prog[o].kind = "load" THEN loads \union {<<o, Content(r, o).by>>} ELSE loads
  BY DEF Execute
<1>6. ASSUME NEW l \in loads'
      PROVE  FoundAt(l[1], l[2])
  <2>1. CASE l \in loads
    BY <2>1 DEF LoadsFound
  <2>2. CASE l \notin loads
    BY <1>4, <1>5, <1>6, <2>2
  <2> QED
    BY <2>1, <2>2
<1>7. \A x, d : FoundAt(x, d)' = FoundAt(x, d)
  BY <1>3 DEF FoundAt
<1> QED
  BY <1>6, <1>7 DEF LoadsFound

(* At the start of @main, a rank's memref arguments are what they were called with. *)
LEMMA StartMeant ==
    ASSUME TypeOKUniformity, PlainMemory(prog), EntryKept, LiveInv, InitExecution
    PROVE  RunTyped /\ RanksMeant /\ LoadsFound
<1>1. WellFormedMemoryProgram(prog)
  BY DEF TypeOKUniformity
<1>2. RunTyped /\ LoadsFound
  BY DEF InitExecution, RunTyped, LoadsFound
<1>3. \A m : Known(prog, MainStart, m) => prog[m].kind = "memarg"
  BY DEF Known, Available, MainStart
<1>4. ASSUME NEW r \in Ranks
      PROVE  RankMeant(r)
  <2>1. pc[r] = MainStart /\ MainStart \in VisitedPoints(prog) /\ IsLive(MainStart)
    BY DEF InitExecution, VisitedPoints, Points, IsLive, LiveInv, MainStart
  <2>2. Meant(prog, MainStart, env[r])
    <3>1. ASSUME NEW m \in DOMAIN prog, prog[m].kind = "memarg"
          PROVE  env[r][ResultOf(m)] = SourceOf(prog, m)
      <4>1. ResultOf(m) \in ValuesUpTo(Len(prog)) /\ ResultOf(m)[1] = "res" /\ ResultOf(m)[2] = m
        BY <1>1, ResultsAre DEF ResultOf
      <4>2. env[r][ResultOf(m)] = m
        BY <3>1, <4>1 DEF InitExecution
      <4> QED
        BY <3>1, <4>2 DEF SourceOf
    <3> QED
      BY <1>3, <3>1 DEF Meant
  <2>3. WritersFound(prog, defs, MainStart, cells[r])
    <3>1. ASSUME NEW m \in MemoryResources(prog), Known(prog, MainStart, SourceOf(prog, m))
          PROVE  cells[r][SourceOf(prog, m)][0].by \in defs[MainStart].mods[m]
      <4>1. m \in DOMAIN prog /\ prog[m].kind \in MemrefOps
        BY <1>1, ResourcesAre
      <4>2. SourceOf(prog, m) = m /\ prog[m].kind = "memarg"
        BY <1>1, <1>3, <3>1, <4>1, SourceIs DEF Allocations
      <4>3. cells[r][m][0].by = InitialDefinition
        BY <4>1 DEF InitExecution, Numbers
      <4> QED
        BY <4>1, <4>2, <4>3 DEF EntryKept
    <3> QED
      BY <3>1 DEF WritersFound
  <2> QED
    BY <2>1, <2>2, <2>3 DEF RankMeant
<1> QED
  BY <1>2, <1>4 DEF RanksMeant

(***************************************************************************)
(* The inductive invariant.  Until the analysis is done the ranks have not *)
(* started; from then on each is at a point that has been visited, where   *)
(* its memrefs are what they are meant to be and the writer of each memory *)
(* is among the definitions of every memref that names it.                 *)
(***************************************************************************)
ReachInv ==
    /\ TypeOKUniformity
    /\ PlainMemory(prog) =>
         /\ NeverGivesUp /\ DefsInv /\ EntryKept /\ LiveInv
         /\ ~Solved => InitExecution
         /\ RunTyped /\ RanksMeant /\ LoadsFound

(* The invariant holds at first. *)
LEMMA ReachInit ==
    ASSUME WellFormedMemoryProgram(prog), InitSolver, InitExecution
    PROVE  ReachInv
  BY TypeInit, DefsInvInit, LiveInit, EntryInit, PlainNeverGivesUp, StartMeant DEF ReachInv

(* Every step of the solver and of the ranks keeps it. *)
LEMMA ReachNext ==
    ASSUME ReachInv, [Next]_vars
    PROVE  ReachInv'
<1>1. [NextSolver]_solverVars
  BY DEF Next, vars, solverVars
<1>2. prog' = prog
  BY <1>1 DEF NextSolver, solverVars, VisitDefs, GoLive, VisitResult, VisitRead, ReadUnreachable,
         VisitRegionResult, VisitForBody, SetUniformity
<1>3. TypeOKUniformity /\ TypeOKUniformity'
  BY <1>1, TypeNext DEF ReachInv
<1>4. SUFFICES ASSUME PlainMemory(prog)
               PROVE  /\ NeverGivesUp' /\ DefsInv' /\ EntryKept' /\ LiveInv'
                      /\ ~Solved' => InitExecution'
                      /\ RunTyped' /\ RanksMeant' /\ LoadsFound'
  BY <1>2, <1>3 DEF ReachInv
<1>5. /\ NeverGivesUp /\ DefsInv /\ EntryKept /\ LiveInv
      /\ ~Solved => InitExecution
      /\ RunTyped /\ RanksMeant /\ LoadsFound
  BY <1>4 DEF ReachInv
<1>6. NeverGivesUp' /\ DefsInv' /\ EntryKept' /\ LiveInv'
  BY <1>1, <1>2, <1>3, <1>5, DefsInvNext, EntryNext, LiveNext DEF NeverGivesUp
<1>7. CASE UNCHANGED vars
  <2>1. UNCHANGED solverVars /\ UNCHANGED runVars
    BY <1>7 DEF vars
  <2>2. Solved' = Solved /\ InitExecution' = InitExecution /\ RunTyped' = RunTyped
    BY <2>1 DEF Solved, InitExecution, RunTyped, solverVars, runVars
  <2>3. RanksMeant' = RanksMeant
    BY <2>1 DEF RanksMeant, RankMeant, IsLive, solverVars, runVars
  <2>4. LoadsFound' = LoadsFound
    BY <2>1 DEF LoadsFound, FoundAt, ModifiersAt, solverVars, runVars
  <2> QED
    BY <1>5, <1>6, <2>2, <2>3, <2>4
<1>8. CASE NextSolver /\ UNCHANGED runVars
  <2>1. ~Solved
    BY <1>8 DEF NextSolver, Solved
  <2>2. InitExecution'
    BY <1>2, <1>5, <1>8, <2>1 DEF InitExecution, runVars
  <2>3. RunTyped' /\ RanksMeant' /\ LoadsFound'
    <3>1. (TypeOKUniformity /\ PlainMemory(prog) /\ EntryKept /\ LiveInv /\ InitExecution
             => RunTyped /\ RanksMeant /\ LoadsFound)'
      BY StartMeant, PTL
    <3>2. PlainMemory(prog)'
      BY <1>2, <1>4
    <3> QED
      BY <1>3, <1>6, <2>2, <3>1, <3>2
  <2> QED
    BY <1>6, <2>2, <2>3
<1>9. CASE Solved /\ NextExecution /\ UNCHANGED solverVars
  <2>1. SolverDone /\ Solved'
    BY <1>3, <1>4, <1>5, <1>9 DEF SolverDone, Solved, solverVars
  <2>2. ASSUME UNCHANGED loads
        PROVE  LoadsFound'
    BY <1>5, <1>9, <2>2 DEF LoadsFound, FoundAt, ModifiersAt, solverVars
  <2>3. ASSUME NEW r \in Ranks, Execute(r)
        PROVE  RunTyped' /\ RanksMeant' /\ LoadsFound'
    BY <1>5, <1>9, <2>1, <2>3, ExecuteMeant, LoadFinds
  <2>4. ASSUME NEW r \in Ranks, Enter(r)
        PROVE  RunTyped' /\ RanksMeant' /\ LoadsFound'
    <3>1. UNCHANGED loads
      BY <2>4 DEF Enter
    <3> QED
      BY <1>5, <1>9, <2>1, <2>2, <2>4, <3>1, EnterMeant
  <2>5. ASSUME NEW r \in Ranks, Leave(r)
        PROVE  RunTyped' /\ RanksMeant' /\ LoadsFound'
    <3>1. UNCHANGED loads
      BY <2>5 DEF Leave
    <3> QED
      BY <1>5, <1>9, <2>1, <2>2, <2>5, <3>1, LeaveMeant
  <2>6. ASSUME NEW o \in DOMAIN prog, Meet(o)
        PROVE  RunTyped' /\ RanksMeant' /\ LoadsFound'
    <3>1. UNCHANGED loads
      BY <2>6 DEF Meet
    <3> QED
      BY <1>5, <1>9, <2>1, <2>2, <2>6, <3>1, MeetMeant
  <2> QED
    BY <1>6, <1>9, <2>1, <2>3, <2>4, <2>5, <2>6 DEF NextExecution
<1> QED
  BY <1>7, <1>8, <1>9 DEF Next

(***************************************************************************)
(* visitOperation and processOperation of ReachingDefinitionAnalysis lose  *)
(* no definition: in a program with plain memory, however deep its regions *)
(* are and however often its loops go on, the operation that has written   *)
(* last what a rank loads is a modifier or potential modifier of the load, *)
(* or has only allocated the memory.                                       *)
(***************************************************************************)
THEOREM LastWriterReachesAlways == Spec => [](PlainMemory(prog) => LastWriterReaches)
<1>1. WellFormedMemoryProgram(prog) /\ InitSolver /\ InitExecution => ReachInv
  BY ReachInit
<1>2. ReachInv /\ [Next]_vars => ReachInv'
  BY ReachNext
<1>3. ReachInv => (PlainMemory(prog) => LastWriterReaches)
  <2> SUFFICES ASSUME ReachInv, PlainMemory(prog), NEW l \in loads
               PROVE  l[2] \in ModifiersAt(l[1]) \/ (l[2] # InitialDefinition /\ prog[l[2]].kind \in {"alloca", "malloc"})
    BY DEF LastWriterReaches
  <2>1. FoundAt(l[1], l[2])
    BY DEF ReachInv, LoadsFound
  <2> QED
    BY <2>1 DEF FoundAt, IsAllocation, Allocations
<1> QED
  BY <1>1, <1>2, <1>3, PTL DEF Spec

-----------------------------------------------------------------------------
(***************************************************************************)
(* Programs in which no memory has two names: without views, because an    *)
(* allocation is a modifier of its own result and not of the views of it,  *)
(* and with one memref argument at most, since two may be the same.        *)
(***************************************************************************)
OneNameEach(p) ==
    \A m, n \in DOMAIN p :
        p[m].kind \in MemrefOps /\ p[n].kind \in MemrefOps /\ m # n => ~AliasMust(p, m, n) /\ ~AliasMay(p, m, n)

(***************************************************************************)
(* Without branches, the definition that reaches a point is the last one   *)
(* in front of it: d is on entry or writes m, and nothing up to o that     *)
(* writes m is behind it.                                                  *)
(***************************************************************************)
LastToWrite(p, o, m, d) ==
    /\ d \in 0 .. o
    /\ d = 0 \/ m \in Sets(p, d, Acting(p, d))
    /\ \A j \in 1 .. o : m \in Sets(p, j, Acting(p, j)) => j <= d

OnlyLast(p, D, pt) ==
    \A m \in DOMAIN p : D[pt].pMods[m] = {} /\ \A d \in D[pt].mods[m] : LastToWrite(p, pt[1], m, d)

(* The inductive invariant, about every state of the solver. *)
OnlyLastInv == StraightLine /\ PlainMemory(prog) /\ OneNameEach(prog) =>
    \A pt \in VisitedPoints(prog) : OnlyLast(prog, defs, pt)

(* Two definitions that are the last one are the same. *)
LEMMA LastIsOne ==
    ASSUME NEW p, NEW o \in Nat, NEW m, NEW c, NEW d, LastToWrite(p, o, m, c), LastToWrite(p, o, m, d)
    PROVE  c = d
<1>1. c \in 0 .. o /\ d \in 0 .. o
  BY DEF LastToWrite
<1>2. c <= d
  <2>1. CASE c = 0
    BY <1>1, <2>1
  <2>2. CASE c # 0
    BY <1>1, <2>2 DEF LastToWrite
  <2> QED
    BY <2>1, <2>2
<1>3. d <= c
  <2>1. CASE d = 0
    BY <1>1, <2>1
  <2>2. CASE d # 0
    BY <1>1, <2>2 DEF LastToWrite
  <2> QED
    BY <2>1, <2>2
<1> QED
  BY <1>1, <1>2, <1>3

(* Operations that are not in a region. *)
LEMMA StraightPoints ==
    ASSUME WellFormedMemoryProgram(prog), StraightLine
    PROVE  /\ \A o \in DOMAIN prog : prog[o].path = <<>> /\ RegionAt(prog, o) = MainStart
           /\ \A pt \in VisitedPoints(prog) : pt = MainStart \/ (pt[1] \in DOMAIN prog /\ pt = <<pt[1], 0>> /\ pt[2] = 0
                                                                /\ prog[pt[1]].kind \notin RegionOps \union Arguments)
<1>1. ASSUME NEW o \in DOMAIN prog
      PROVE  prog[o].path = <<>> /\ RegionAt(prog, o) = MainStart
  <2>1. prog[o].path = <<>>
    <3>1. ASSUME prog[o].path # <<>>
          PROVE  FALSE
      <4>1. \E b \in DOMAIN prog : prog[b].kind \in RegionOps
        BY <3>1, RegionOf
      <4> QED
        BY <4>1 DEF StraightLine
    <3> QED
      BY <3>1
  <2> QED
    BY <2>1, RegionOf
<1>2. ASSUME NEW pt \in VisitedPoints(prog), pt # MainStart
      PROVE  pt[1] \in DOMAIN prog /\ pt = <<pt[1], 0>> /\ pt[2] = 0 /\ prog[pt[1]].kind \notin RegionOps \union Arguments
  <2>1. pt[1] \in DOMAIN prog /\ pt[2] \in {0} \union Regions(prog, pt[1]) /\ pt = <<pt[1], pt[2]>> /\ prog[pt[1]].kind \notin Arguments
    BY <1>2, PointParts DEF VisitedPoints
  <2>2. prog[pt[1]].kind \notin RegionOps
    BY <2>1 DEF StraightLine
  <2>3. Regions(prog, pt[1]) = {}
    BY <2>2, RegionsTyped
  <2> QED
    BY <2>1, <2>2, <2>3
<1> QED
  BY <1>1, <1>2

(* Nothing that writes lies between an operation and the point before it. *)
LEMMA NothingBetween ==
    ASSUME WellFormedMemoryProgram(prog), StraightLine, PlainMemory(prog), NEW o \in DOMAIN prog, NEW m,
           NEW j \in DOMAIN prog, m \in Sets(prog, j, Acting(prog, j)), j < o
    PROVE  j <= Before(prog, o)[1]
<1>1. RegionAt(prog, o) = MainStart /\ prog[j].path = <<>> /\ MainStart = <<0, 1>>
  BY StraightPoints DEF MainStart
<1>2. prog[j].kind \notin Arguments
  <2>1. prog[j].kind \in Arguments => Acting(prog, j) = <<"Read", 0>>
    BY DEF Acting, Arguments, Allocations
  <2>2. Sets(prog, j, <<"Read", 0>>) = {}
    BY DEF Sets
  <2> QED
    BY <2>1, <2>2
<1> DEFINE earlier == {i \in OpsIn(prog, 0, 1) : i < o}
<1>3. j \in earlier
  BY <1>1, <1>2, PathOfMain DEF OpsIn
<1>4. Before(prog, o) = <<Max(earlier), 0>>
  BY <1>1, <1>3 DEF Before
<1>5. earlier \subseteq 1 .. Len(prog) /\ Len(prog) \in Nat /\ earlier # {}
  BY <1>3, OpsNumbered
<1> HIDE DEF earlier
<1>6. j <= Max(earlier)
  BY <1>3, <1>5, GreatestOf
<1> QED
  BY <1>4, <1>6

(* A visit of an operation leaves only the last definition. *)
LEMMA TransferOnlyLast ==
    ASSUME TypeOKUniformity, StraightLine, PlainMemory(prog), OneNameEach(prog), NEW o \in DOMAIN prog,
           prog[o].kind \notin RegionOps \union Arguments, OnlyLast(prog, defs, Before(prog, o)),
           OnlyLast(prog, defs, <<o, 0>>), NEW t,
           t = Transfer(prog, o, defs[Before(prog, o)], defs[<<o, 0>>]), NEW m \in DOMAIN prog
    PROVE  t.pMods[m] = {} /\ \A d \in t.mods[m] : LastToWrite(prog, o, m, d)
<1> PICK a : a = defs[<<o, 0>>]
  OBVIOUS
<1> PICK b : b = defs[Before(prog, o)]
  OBVIOUS
<1> PICK e : e = Acting(prog, o)
  OBVIOUS
<1> PICK j : j = JoinStates(a, b)
  OBVIOUS
<1>1. WellFormedMemoryProgram(prog) /\ a \in ReachingStates(prog) /\ b \in ReachingStates(prog)
  <2>1. <<o, 0>> \in Points(prog) /\ Before(prog, o) \in Points(prog) /\ WellFormedMemoryProgram(prog)
    BY PointsAre, BeforePoint DEF VisitedPoints, TypeOKUniformity
  <2> QED
    BY <2>1 DEF TypeOKUniformity
<1>2. t = AfterEffect(prog, o, j, e)
  BY <1>1, PlainEffects, ActingIs DEF Transfer
<1>3. j \in ReachingStates(prog) /\ j.mods[m] = a.mods[m] \union b.mods[m] /\ j.pMods[m] = a.pMods[m] \union b.pMods[m]
  BY <1>1, JoinAt
<1>4. Acts(prog, t, j, o, Sets(prog, o, e), Clears(prog, o, e), ClearsPotential(prog, o, e), Adds(prog, o, e))
  BY <1>2, <1>3, EffectAt
<1>5. m \notin Adds(prog, o, e)
  <2>1. CASE prog[o].kind \in {"store", "bcast", "scatter"}
    <3> PICK n : n = IF prog[o].kind = "store" THEN prog[o].mem[1] ELSE prog[o].mem[2]
      OBVIOUS
    <3>1. e = <<"Write", n>>
      <4>1. CASE prog[o].kind = "store"
        BY <4>1 DEF Acting, Allocations
      <4>2. CASE prog[o].kind \in {"bcast", "scatter"}
        BY <4>2 DEF Acting, Allocations
      <4> QED
        BY <2>1, <4>1, <4>2
    <3>2. n \in DOMAIN prog /\ prog[n].kind \in MemrefOps
      BY <1>1, <2>1, FirstMemref
    <3>3. Adds(prog, o, e) = MayAlias(prog, n)
      BY <3>1 DEF Adds
    <3>4. m \notin MayAlias(prog, n)
      <4>1. ASSUME m \in MayAlias(prog, n)
            PROVE  FALSE
        <5>1. m \in MemoryResources(prog) /\ m # n /\ AliasMay(prog, n, m)
          BY <4>1 DEF MayAlias
        <5>2. m \in DOMAIN prog /\ prog[m].kind \in MemrefOps
          BY <1>1, <5>1, ResourcesAre
        <5> QED
          BY <3>2, <5>1, <5>2 DEF OneNameEach
      <4> QED
        BY <4>1
    <3> QED
      BY <3>3, <3>4
  <2>2. CASE prog[o].kind \notin {"store", "bcast", "scatter"}
    <3>1. e[1] # "Write"
      BY <2>2 DEF Acting, Allocations
    <3> QED
      BY <3>1 DEF Adds
  <2> QED
    BY <2>1, <2>2
<1>6. a.pMods[m] = {} /\ b.pMods[m] = {}
  BY DEF OnlyLast
<1>7. t.pMods[m] = {}
  BY <1>3, <1>4, <1>5, <1>6 DEF Acts
<1>8. o \in Nat /\ o # 0 /\ o \in 0 .. o /\ o \in 1 .. o
  <2>1. o \in 1 .. Len(prog)
    BY <1>1, OperationTyped
  <2> QED
    BY <2>1
<1>9. ASSUME NEW d \in t.mods[m]
      PROVE  LastToWrite(prog, o, m, d)
  <2>1. CASE m \in Sets(prog, o, e)
    <3>1. d = o
      BY <1>4, <1>9, <2>1 DEF Acts
    <3>2. \A i \in 1 .. o : i <= o
      BY <1>8
    <3> QED
      BY <1>8, <2>1, <3>1, <3>2 DEF LastToWrite
  <2>2. CASE m \notin Sets(prog, o, e)
    <3>1. d \in a.mods[m] \/ d \in b.mods[m]
      BY <1>3, <1>4, <1>9, <2>2 DEF Acts
    <3>2. CASE d \in a.mods[m]
      BY <3>2 DEF OnlyLast
    <3>3. CASE d \in b.mods[m]
      <4> PICK q : q = Before(prog, o)[1]
        OBVIOUS
      <4>1. LastToWrite(prog, q, m, d)
        BY <3>3 DEF OnlyLast
      <4>2. q \in 0 .. Len(prog) /\ q < o /\ Len(prog) \in Nat /\ DOMAIN prog = 1 .. Len(prog) /\ o \in 1 .. Len(prog)
        <5>1. Before(prog, o) \in Points(prog)
          BY <1>1, BeforePoint DEF VisitedPoints
        <5>2. q = 0 \/ q \in DOMAIN prog
          BY <5>1, PointParts DEF MainStart
        <5>3. Len(prog) \in Nat /\ DOMAIN prog = 1 .. Len(prog) /\ o \in 1 .. Len(prog)
          BY <1>1, OperationTyped
        <5>4. q < o
          BY <1>1, BeforeEarlier
        <5> QED
          BY <5>2, <5>3, <5>4
      <4>3. d \in 0 .. o
        BY <4>1, <4>2 DEF LastToWrite
      <4>4. ASSUME NEW i \in 1 .. o, m \in Sets(prog, i, Acting(prog, i))
            PROVE  i <= d
        <5>1. i # o /\ i < o /\ i \in DOMAIN prog
          BY <2>2, <4>2, <4>4
        <5>2. i <= q
          BY <1>1, <4>4, <5>1, NothingBetween
        <5>3. i \in 1 .. q
          BY <4>2, <5>1, <5>2
        <5> QED
          BY <4>1, <4>4, <5>3 DEF LastToWrite
      <4> QED
        BY <4>1, <4>3, <4>4 DEF LastToWrite
    <3> QED
      BY <3>1, <3>2, <3>3
  <2> QED
    BY <2>1, <2>2
<1> QED
  BY <1>7, <1>9

(* The invariant holds at first. *)
LEMMA OnlyLastInit ==
    ASSUME WellFormedMemoryProgram(prog), InitSolver
    PROVE  OnlyLastInv
<1>1. ASSUME StraightLine, NEW pt \in VisitedPoints(prog)
      PROVE  OnlyLast(prog, defs, pt)
  <2>1. pt \in Points(prog)
    BY DEF VisitedPoints
  <2>2. CASE pt = MainStart
    <3>1. defs[pt] = EntryState(prog) /\ pt[1] = 0
      BY <2>1, <2>2 DEF InitSolver, MainStart
    <3>2. \A m \in DOMAIN prog : LastToWrite(prog, 0, m, 0)
      BY DEF LastToWrite
    <3> QED
      BY <3>1, <3>2 DEF OnlyLast, EntryState, InitialDefinition
  <2>3. CASE pt # MainStart
    <3>1. defs[pt] = Nothing(prog)
      BY <2>1, <2>3 DEF InitSolver
    <3> QED
      BY <3>1, NothingAt DEF OnlyLast
  <2> QED
    BY <2>2, <2>3
<1> QED
  BY <1>1 DEF OnlyLastInv

(* Every step of the solver keeps it: a visit replaces what it finds by the operation, or adds what is in front. *)
LEMMA OnlyLastNext ==
    ASSUME TypeOKUniformity, OnlyLastInv, [NextSolver]_solverVars
    PROVE  OnlyLastInv'
<1>1. CASE UNCHANGED <<prog, defs>>
  BY <1>1 DEF OnlyLastInv, StraightLine
<1>2. CASE NextSolver /\ VisitDefs
  <2> PICK pt : pt = <<Head(queue)[2], Head(queue)[3]>>
    OBVIOUS
  <2>1. defs' = [defs EXCEPT ![pt] = StateAfter(pt)] /\ prog' = prog /\ queue # <<>>
    BY <1>2 DEF NextSolver, VisitDefs, StateAfter
  <2>2. pt \in VisitedPoints(prog) /\ pt \in Points(prog)
    BY <2>1, HeadIs
  <2>3. defs \in [Points(prog) -> ReachingStates(prog)] /\ WellFormedMemoryProgram(prog)
    BY DEF TypeOKUniformity
  <2>4. defs'[pt] = StateAfter(pt) /\ \A q \in Points(prog) : q # pt => defs'[q] = defs[q]
    BY <2>1, <2>2, <2>3
  <2>5. ASSUME StraightLine, PlainMemory(prog), OneNameEach(prog), NEW q \in VisitedPoints(prog)
        PROVE  OnlyLast(prog, defs', q)
    <3>1. \A x \in VisitedPoints(prog) : OnlyLast(prog, defs, x)
      BY <2>5 DEF OnlyLastInv
    <3>2. CASE q # pt
      <4>1. defs'[q] = defs[q]
        BY <2>4, <3>2 DEF VisitedPoints
      <4> QED
        BY <3>1, <4>1 DEF OnlyLast
    <3>3. CASE q = pt /\ pt = MainStart
      <4>1. Sources(pt) = {} /\ IsJoin(pt)
        BY <3>3 DEF Sources, IsJoin, Predecessors, MainStart
      <4>2. defs'[pt] = Joined(pt, {})
        BY <2>4, <4>1 DEF StateAfter
      <4>3. \A m \in DOMAIN prog : Joined(pt, {}).mods[m] = defs[pt].mods[m] /\ Joined(pt, {}).pMods[m] = defs[pt].pMods[m]
        BY DEF Joined
      <4> QED
        BY <3>1, <3>3, <4>2, <4>3 DEF OnlyLast
    <3>4. CASE q = pt /\ pt # MainStart
      <4> PICK o : o = pt[1]
        OBVIOUS
      <4>1. o \in DOMAIN prog /\ pt = <<o, 0>> /\ pt[2] = 0 /\ prog[o].kind \notin RegionOps \union Arguments
        BY <2>2, <2>3, <2>5, <3>4, StraightPoints
      <4>2. ~IsJoin(pt)
        BY <4>1 DEF IsJoin
      <4>3. StateOf(Sources(pt)) = defs[Before(prog, o)]
        BY <2>2, <4>2, SourcesAre
      <4>4. defs'[pt] = Transfer(prog, o, defs[Before(prog, o)], defs[<<o, 0>>])
        BY <2>4, <4>1, <4>2, <4>3 DEF StateAfter
      <4>5. Before(prog, o) \in VisitedPoints(prog)
        BY <2>3, <4>1, BeforePoint
      <4>6. OnlyLast(prog, defs, Before(prog, o)) /\ OnlyLast(prog, defs, <<o, 0>>)
        BY <2>2, <3>1, <4>1, <4>5
      <4>7. \A m \in DOMAIN prog : defs'[pt].pMods[m] = {} /\ \A d \in defs'[pt].mods[m] : LastToWrite(prog, o, m, d)
        BY <2>5, <4>1, <4>4, <4>6, TransferOnlyLast
      <4> QED
        BY <3>4, <4>7 DEF OnlyLast
    <3> QED
      BY <3>2, <3>3, <3>4
  <2> QED
    BY <2>1, <2>5 DEF OnlyLastInv, StraightLine
<1>3. NextSolver /\ ~VisitDefs => UNCHANGED <<prog, defs>>
  BY DEF NextSolver, GoLive, VisitResult, VisitRead, ReadUnreachable, VisitRegionResult, VisitForBody, SetUniformity
<1> QED
  BY <1>1, <1>2, <1>3 DEF solverVars

(* The two invariants together: the one definition that reaches a load is the one that has written. *)
LEMMA OnlyOneReaches ==
    ASSUME ReachInv, OnlyLastInv, PlainMemory(prog), OneNameEach(prog)
    PROVE  OnlyLastWriterReaches
<1> SUFFICES ASSUME StraightLine, NEW l \in loads
             PROVE  ModifiersAt(l[1]) = {l[2]}
  BY DEF OnlyLastWriterReaches
<1> PICK o : o = l[1]
  OBVIOUS
<1> PICK n : n = prog[o].mem[1]
  OBVIOUS
<1>1. WellFormedMemoryProgram(prog) /\ FoundAt(o, l[2])
  BY DEF ReachInv, TypeOKUniformity, LoadsFound
<1>2. o \in DOMAIN prog /\ prog[o].kind = "load"
  BY <1>1 DEF FoundAt
<1>3. n \in DOMAIN prog /\ prog[n].kind \in MemrefOps
  BY <1>1, <1>2, FirstMemref
<1>4. prog[n].kind # "view"
  <2>1. ASSUME prog[n].kind = "view"
        PROVE  FALSE
    <3> PICK R : R = SourceOf(prog, n)
      OBVIOUS
    <3>1. R \in DOMAIN prog /\ prog[R].kind \in {"memarg"} \union Allocations /\ SourceOf(prog, R) = R
      BY <1>1, <1>3, SourceIs
    <3>2. R # n
      BY <2>1, <3>1 DEF Allocations
    <3>3. AliasMust(prog, R, n) /\ prog[R].kind \in MemrefOps
      BY <3>1 DEF AliasMust, MemrefOps, Allocations
    <3> QED
      BY <1>3, <3>1, <3>2, <3>3 DEF OneNameEach
  <2> QED
    BY <2>1
<1>5. l[2] \in ModifiersAt(o)
  BY <1>1, <1>4 DEF FoundAt
<1>6. ReadBy(prog, o) = {n}
  <2>1. Effects(prog, o) = <<<<"Read", n>>>>
    BY <1>2 DEF Effects
  <2>2. \A i \in DOMAIN Effects(prog, o) : Effects(prog, o)[i][1] = "Read" /\ Effects(prog, o)[i][2] = n
    BY <2>1
  <2>3. 1 \in DOMAIN Effects(prog, o)
    BY <2>1
  <2> QED
    BY <2>2, <2>3 DEF ReadBy
<1>7. ModifiersAt(o) = defs[<<o, 0>>].mods[n]
  <2>1. <<o, 0>> \in VisitedPoints(prog)
    BY <1>2, PointsAre DEF VisitedPoints, Arguments
  <2>2. defs[<<o, 0>>].pMods[n] = {}
    BY <1>3, <2>1 DEF OnlyLastInv, OnlyLast
  <2> QED
    BY <1>6, <2>2 DEF ModifiersAt, Modifiers
<1>8. ASSUME NEW c \in defs[<<o, 0>>].mods[n], NEW d \in defs[<<o, 0>>].mods[n]
      PROVE  c = d
  <2>1. <<o, 0>> \in VisitedPoints(prog)
    BY <1>2, PointsAre DEF VisitedPoints, Arguments
  <2>2. LastToWrite(prog, o, n, c) /\ LastToWrite(prog, o, n, d)
    BY <1>3, <1>8, <2>1 DEF OnlyLastInv, OnlyLast
  <2>3. o \in Nat
    <3>1. o \in 1 .. Len(prog)
      BY <1>1, <1>2, OperationTyped
    <3> QED
      BY <3>1
  <2> QED
    BY <2>2, <2>3, LastIsOne
<1> QED
  BY <1>5, <1>7, <1>8

(***************************************************************************)
(* setModifier ends the life of the definitions before it, also when the   *)
(* solver visits an operation more than once and joins the state behind it *)
(* with the one in front: without branches, a load in a program with plain *)
(* memory, where no memory has two names, has one modifier, the operation  *)
(* that has written last what is loaded.                                   *)
(***************************************************************************)
THEOREM OnlyLastWriterReachesAlways == Spec => [](PlainMemory(prog) /\ OneNameEach(prog) => OnlyLastWriterReaches)
<1>1. WellFormedMemoryProgram(prog) /\ InitSolver /\ InitExecution => ReachInv /\ OnlyLastInv
  BY ReachInit, OnlyLastInit
<1>2. ReachInv /\ OnlyLastInv /\ [Next]_vars => ReachInv' /\ OnlyLastInv'
  <2> SUFFICES ASSUME ReachInv, OnlyLastInv, [Next]_vars
               PROVE  ReachInv' /\ OnlyLastInv'
    OBVIOUS
  <2>1. [NextSolver]_solverVars /\ TypeOKUniformity
    BY DEF Next, vars, solverVars, ReachInv
  <2> QED
    BY <2>1, ReachNext, OnlyLastNext
<1>3. ReachInv /\ OnlyLastInv => (PlainMemory(prog) /\ OneNameEach(prog) => OnlyLastWriterReaches)
  BY OnlyOneReaches
<1> QED
  BY <1>1, <1>2, <1>3, PTL DEF Spec

=============================================================================
