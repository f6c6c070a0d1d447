------------------------------- MODULE SpmdIR -------------------------------
(***************************************************************************)
(* The part of an MLIR module that the collectives verification reads: the *)
(* body of @main after the unification pass and the multi-value analysis.  *)
(*                                                                         *)
(* A program is a sequence of operations numbered in pre-order, which is   *)
(* the order Operation::walk<PreOrder> and a recursive descent over the    *)
(* regions visit them in.  An operation carries its position: path is the  *)
(* list, outermost first, of the pairs <<op, region>> that enclose it, so  *)
(* that the operations of one region are those with one path.  The regions *)
(* of an scf.if are 1 (then) and 2 (else).                                 *)
(***************************************************************************)
EXTENDS Integers, Sequences, FiniteSets

CONSTANTS
    TypeOrder   \* the dialect's collectives (bcast, reduce, ...), in a list

ASSUME TypeOrderAssumption ==
    /\ TypeOrder \in Seq({TypeOrder[t] : t \in DOMAIN TypeOrder})
    /\ \A s, t \in DOMAIN TypeOrder : TypeOrder[s] = TypeOrder[t] => s = t

CollTypes == {TypeOrder[t] : t \in DOMAIN TypeOrder}

BranchKinds == {"if", "for", "while"}    \* RegionBranchOpInterface
CommKinds   == {"world", "split"}        \* operations whose result is a communicator
Kinds       == BranchKinds \union CommKinds \union {"coll"}

(***************************************************************************)
(* One operation.                                                          *)
(*   type, blocking  of a collective: its class and attribute isBlocking   *)
(*   comm            of a collective: operand 0, named by the operation    *)
(*                   that defines it                                       *)
(*   bounds          of an scf.for: <<lower, upper, step>> when all three  *)
(*                   are arith.constant, else <<>>                         *)
(*   mv              attribute spmd.isMultiValued                          *)
(*   execKind, executedBy, executedNotBy  attributes spmd.executionKind,   *)
(*                   spmd.executedBy and spmd.executedNotBy                *)
(***************************************************************************)
Operation ==
    [kind       : Kinds,
     path       : Seq((Nat \ {0}) \X {1, 2}),
     type       : CollTypes,
     blocking   : BOOLEAN,
     comm       : Nat,
     bounds     : Seq(Int),
     mv         : BOOLEAN,
     execKind   : {"All", "AllBut", "Static", "Dynamic", "One"},
     executedBy    : SUBSET Int,
     executedNotBy : SUBSET Int]

OpsOf(prog) == DOMAIN prog

IsBranch(prog, o) == prog[o].kind \in BranchKinds

(***************************************************************************)
(* Region r lies on the way from the body of @main to region s (or is s).  *)
(***************************************************************************)
Encloses(r, s) ==
    /\ Len(r) <= Len(s)
    /\ \A k \in 1 .. Len(r) : r[k] = s[k]

Body(o, region, prog) == Append(prog[o].path, <<o, region>>)

(***************************************************************************)
(* What MLIR's structure guarantees of a program.                          *)
(*  - an operation follows the operations that enclose it, and its path    *)
(*    extends theirs;                                                      *)
(*  - the operations below one operation are consecutive, the then region  *)
(*    before the else region;                                              *)
(*  - only an scf.if has a second region.                                  *)
(***************************************************************************)
PathsNested(prog) ==
    \A o \in OpsOf(prog) : \A k \in 1 .. Len(prog[o].path) :
        LET p == prog[o].path[k][1] IN
            /\ p \in 1 .. (o - 1)
            /\ IsBranch(prog, p)
            /\ prog[o].path[k][2] = 2 => prog[p].kind = "if"
            /\ prog[p].path = SubSeq(prog[o].path, 1, k - 1)

SubtreesConsecutive(prog) ==
    \A o \in OpsOf(prog) : \A k \in 1 .. Len(prog[o].path) :
        \A j \in OpsOf(prog) :
            prog[o].path[k][1] < j /\ j < o =>
                /\ Len(prog[j].path) >= k
                /\ prog[j].path[k][1] = prog[o].path[k][1]
                /\ prog[j].path[k][2] <= prog[o].path[k][2]

(***************************************************************************)
(* A collective's communicator is the result of an earlier operation, and  *)
(* only loops have bounds.  A loop with constant bounds can still be       *)
(* multi-valued: its initial iteration arguments are operands, too.        *)
(***************************************************************************)
OperandsDefined(prog) ==
    \A o \in OpsOf(prog) :
        /\ prog[o].kind = "coll" =>
             /\ prog[o].comm \in 1 .. (o - 1)
             /\ prog[prog[o].comm].kind \in CommKinds
        /\ Len(prog[o].bounds) \in {0, 3}
        /\ Len(prog[o].bounds) = 3 => prog[o].kind = "for"

WellFormed(prog) ==
    /\ prog \in Seq(Operation)
    /\ PathsNested(prog)
    /\ SubtreesConsecutive(prog)
    /\ OperandsDefined(prog)

=============================================================================
