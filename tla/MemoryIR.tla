------------------------------ MODULE MemoryIR ------------------------------
(***************************************************************************)
(* The body of @main as the dataflow analyses see it: operations with      *)
(* results and operands, memrefs, and the effects on them that the         *)
(* operations declare.                                                     *)
(*                                                                         *)
(* Operations are numbered in pre-order and carry the list of regions      *)
(* around them, as in SpmdIR.  The terminator of a region, which has no    *)
(* effect, is part of the operation that owns the region: yields holds its *)
(* operands.  Arguments of @main are listed among the operations.          *)
(***************************************************************************)
EXTENDS Integers, Sequences, FiniteSets, Functions

LOCAL INSTANCE FiniteSetsExt

RegionOps == {"if", "for", "while"}
Arguments == {"arg", "memarg"}      \* of @main
ValueOps  == {"arg", "const", "rank", "pure", "load"}     \* with a number for a result
MemrefOps == {"memarg", "alloca", "malloc", "view", "select", "merge"}
CallOps   == {"bcast", "scatter", "recv", "barrier"}      \* with an error code for a result

(***************************************************************************)
(* One operation.                                                          *)
(*   path    the regions around it, outermost first, as <<op, region>>     *)
(*   uses    its operands that are numbers: the condition of an scf.if;    *)
(*           lower and upper bound and initial value of an scf.for         *)
(*   mem     its operands that are memrefs, by the operation they are of;  *)
(*           a bcast or scatter sends mem[1] and receives into mem[2]      *)
(*   elem    the element of the memref that a load or store is for         *)
(*   num     the number an arith.constant stands for                       *)
(*   yields  what the regions yield: one value for each region of an       *)
(*           scf.if with a result, the next value of an scf.for's          *)
(*           iteration argument, the condition of an scf.while             *)
(*                                                                         *)
(* "merge" is an scf.if that yields one memref or the other, "select" an   *)
(* arith.select of two, "view" a memref.cast or the like.                  *)
(***************************************************************************)
ResultOf(o) == <<"res", o>>
IvOf(o)     == <<"iv", o>>      \* induction variable of an scf.for
IterOf(o)   == <<"iter", o>>    \* its iteration argument

ValuesUpTo(n) == {"res", "iv", "iter"} \X (1 .. n)

MemoryOperation(n) ==       \* of a program of n operations
    [kind : RegionOps \union ValueOps \union MemrefOps \union CallOps \union {"store", "free"},
     path : Seq((1 .. n) \X {1, 2}), uses : Seq(ValuesUpTo(n)), mem : Seq(1 .. n),
     elem : {0, 1}, num : Nat, yields : Seq(ValuesUpTo(n))]

HasOperands(op) ==
    /\ op.kind \in {"load", "store", "view", "free", "recv"} => Len(op.mem) = 1
    /\ op.kind \in {"bcast", "scatter", "select", "merge"} => Len(op.mem) = 2
    /\ op.kind \in {"if", "store", "select", "merge"} => Len(op.uses) = 1
    /\ op.kind = "for" => Len(op.yields) <= 1 /\ Len(op.uses) = 2 + Len(op.yields)
    /\ op.kind = "if" => Len(op.yields) \in {0, 2}
    /\ op.kind = "while" => Len(op.yields) = 1

(***************************************************************************)
(* What MLIR guarantees of a program: regions are nested, the operations   *)
(* below one operation follow it and each other, and a memref is defined   *)
(* before its uses, in a region around them.                               *)
(***************************************************************************)
InsideOf(p, o, j) == \E k \in DOMAIN p[j].path : p[j].path[k][1] = o

Dominates(p, m, o) ==
    /\ m < o
    /\ Len(p[m].path) <= Len(p[o].path)
    /\ \A k \in DOMAIN p[m].path : p[o].path[k] = p[m].path[k]

NestedIn(p, o, k) ==        \* the k-th region around o
    LET b == p[o].path[k][1] IN
    /\ b < o
    /\ p[b].kind \in RegionOps
    /\ p[o].path[k][2] = 2 => p[b].kind # "for"
    /\ p[b].path = SubSeq(p[o].path, 1, k - 1)
    /\ \A j \in (b + 1) .. o : InsideOf(p, b, j)

WellFormedMemoryProgram(p) ==
    /\ p \in Seq(MemoryOperation(Len(p)))
    /\ \A o \in DOMAIN p :
        /\ HasOperands(p[o])
        /\ p[o].kind \in Arguments => p[o].path = <<>>
        /\ \A k \in DOMAIN p[o].path : NestedIn(p, o, k)
        /\ \A k \in DOMAIN p[o].mem : Dominates(p, p[o].mem[k], o) /\ p[p[o].mem[k]].kind \in MemrefOps

HasResult(p, o) ==
    \/ p[o].kind \in ValueOps \union MemrefOps \union CallOps
    \/ p[o].kind \in {"if", "for"} /\ p[o].yields # <<>>

Operands(p, o) == Range(p[o].uses) \union {ResultOf(m) : m \in Range(p[o].mem)}

(***************************************************************************)
(* Points of the program, where an analysis keeps a state: <<o, 0>> behind *)
(* the operation o, <<o, r>> at the start of its region r; <<0, 1>> is the *)
(* start of @main.                                                         *)
(***************************************************************************)
MainStart == <<0, 1>>

RegionPath(p, b, r) == IF b = 0 THEN <<>> ELSE Append(p[b].path, <<b, r>>)
RegionAt(p, o) == IF p[o].path = <<>> THEN MainStart ELSE p[o].path[Len(p[o].path)]

OpsIn(p, b, r) == {o \in DOMAIN p : p[o].path = RegionPath(p, b, r) /\ p[o].kind \notin Arguments}

HasElse(p, b) == p[b].yields # <<>> \/ OpsIn(p, b, 2) # {}

Regions(p, b) ==
    CASE p[b].kind = "while" -> {1, 2}
      [] p[b].kind = "for"   -> {1}
      [] p[b].kind = "if"    -> IF HasElse(p, b) THEN {1, 2} ELSE {1}
      [] OTHER               -> {}

Points(p) == {MainStart} \union UNION {{o} \X ({0} \union Regions(p, o)) : o \in DOMAIN p}

(***************************************************************************)
(* The point before o, and the one at the end of a region.                 *)
(***************************************************************************)
Before(p, o) ==
    LET b == RegionAt(p, o)
        earlier == {j \in OpsIn(p, b[1], b[2]) : j < o}
    IN  IF earlier = {} THEN b ELSE <<Max(earlier), 0>>

EndOf(p, b, r) == IF OpsIn(p, b, r) = {} THEN <<b, r>> ELSE <<Max(OpsIn(p, b, r)), 0>>

(***************************************************************************)
(* Control flow between regions (RegionBranchOpInterface): the points from *)
(* which control reaches a point.  An scf.if without else region and an    *)
(* scf.for can be passed over.                                             *)
(***************************************************************************)
Predecessors(p, pt) ==
    LET o == pt[1]
        r == pt[2]
    IN  IF pt = MainStart THEN {}
        ELSE
        CASE r = 0 /\ p[o].kind \notin RegionOps -> {Before(p, o)}
          [] r = 0 /\ p[o].kind = "if" ->
               {EndOf(p, o, 1), IF HasElse(p, o) THEN EndOf(p, o, 2) ELSE Before(p, o)}
          [] r = 0 /\ p[o].kind = "for" -> {EndOf(p, o, 1), Before(p, o)}
          [] r = 0 /\ p[o].kind = "while" -> {EndOf(p, o, 1)}
          [] r \in {1, 2} /\ p[o].kind = "if" -> {Before(p, o)}
          [] r = 1 /\ p[o].kind = "for" -> {EndOf(p, o, 1), Before(p, o)}
          [] r = 1 /\ p[o].kind = "while" -> {EndOf(p, o, 2), Before(p, o)}
          [] OTHER -> {EndOf(p, o, 1)}

(***************************************************************************)
(* The memory effects declared, in order: what is done to which memref, 0  *)
(* when the effect is on no value.  SPMD_BarrierOp and a call of a         *)
(* function do not implement MemoryEffectOpInterface at all.               *)
(***************************************************************************)
DeclaresEffects(p, o) == p[o].kind # "barrier"

Effects(p, o) ==
    CASE p[o].kind \in {"alloca", "malloc"}   -> <<<<"Allocate", o>>>>
      [] p[o].kind = "load"                   -> <<<<"Read", p[o].mem[1]>>>>
      [] p[o].kind = "store"                  -> <<<<"Write", p[o].mem[1]>>>>
      [] p[o].kind = "free"                   -> <<<<"Free", p[o].mem[1]>>>>
      [] p[o].kind \in {"bcast", "scatter"}   -> <<<<"Read", p[o].mem[1]>>, <<"Write", p[o].mem[2]>>>>
      [] p[o].kind = "recv"                   -> <<<<"Write", 0>>, <<"Read", p[o].mem[1]>>>>
      [] OTHER                                -> <<>>

ReadBy(p, o) == {Effects(p, o)[i][2] : i \in {j \in DOMAIN Effects(p, o) : Effects(p, o)[j][1] = "Read"}}

=============================================================================
