------------------------ MODULE SmallMemoryPrograms ------------------------
(***************************************************************************)
(* The programs the model checker explores.  A generated program starts    *)
(* with a few definitions and is then made of the statements named in the  *)
(* .cfg, in every order and nesting; those of Written are for operations   *)
(* and dependencies that the generated ones do not have.                   *)
(***************************************************************************)
EXTENDS MemoryIR

LOCAL INSTANCE FiniteSetsExt

CONSTANTS
    MaxStatements,  \* statements of a generated program before its last load
    Statements,     \* names of the statements to use, see Templates
    WrittenNames    \* names of the written programs to use, see Written

Op(kind, path, uses, mem) ==
    [kind |-> kind, path |-> path, uses |-> uses, mem |-> mem, elem |-> 0, num |-> 0, yields |-> <<>>]

Const(n) == [Op("const", <<>>, <<>>, <<>>) EXCEPT !.num = n]

(***************************************************************************)
(* What every program starts with.                                         *)
(***************************************************************************)
Zero == ResultOf(1)
Two  == ResultOf(2)
Rank == ResultOf(3)
Cell == 4
Prelude == <<Const(0), Const(2), Op("rank", <<>>, <<>>, <<>>), Op("alloca", <<>>, <<>>, <<>>)>>

-----------------------------------------------------------------------------
(***************************************************************************)
(* The number computed last in p that the regions path can use, and the    *)
(* induction variable of the innermost scf.for of path.                    *)
(***************************************************************************)
InScope(p, o, path) == Len(p[o].path) <= Len(path) /\ SubSeq(path, 1, Len(p[o].path)) = p[o].path

LastValue(p, path) ==
    ResultOf(Max({o \in DOMAIN p : p[o].kind \in {"rank", "load", "pure"} /\ InScope(p, o, path)}))

LoopsOf(p, path) == {path[k][1] : k \in {j \in DOMAIN path : p[path[j][1]].kind = "for"}}

(***************************************************************************)
(* One or two operations, the second inside the first.                     *)
(***************************************************************************)
Template(name, p, path) ==
    LET last == LastValue(p, path)
        n    == Len(p) + 1
    IN
    CASE name = "storeTwo"  -> <<Op("store", path, <<Two>>, <<Cell>>)>>
      [] name = "storeRank" -> <<Op("store", path, <<Rank>>, <<Cell>>)>>
      [] name = "storeLast" -> <<Op("store", path, <<last>>, <<Cell>>)>>
      [] name = "storeIv"   -> <<Op("store", path, <<IvOf(Max(LoopsOf(p, path)))>>, <<Cell>>)>>
      [] name = "load"      -> <<Op("load", path, <<>>, <<Cell>>)>>
      [] name = "add"       -> <<Op("pure", path, <<last, Two>>, <<>>)>>
      [] name = "ifRank"    -> <<Op("if", path, <<Rank>>, <<>>)>>
      [] name = "ifLast"    -> <<Op("if", path, <<last>>, <<>>)>>
      [] name = "for"       -> <<Op("for", path, <<Zero, Two>>, <<>>)>>
      [] name = "forRank"   -> <<Op("for", path, <<Zero, Rank>>, <<>>)>>
      [] name = "bcast"     -> <<Op("bcast", path, <<>>, <<Cell, Cell>>)>>
      [] name = "barrier"   -> <<Op("barrier", path, <<>>, <<>>)>>
      [] name = "recv"      -> <<Op("recv", path, <<>>, <<Cell>>)>>
      [] name = "while"     -> <<[Op("while", path, <<>>, <<>>) EXCEPT !.yields = <<ResultOf(n + 1)>>],
                                 Op("load", Append(path, <<n, 1>>), <<>>, <<Cell>>)>>

Usable(name, p, path) == name = "storeIv" => LoopsOf(p, path) # {}

(***************************************************************************)
(* The regions the next operation can be in: inside an operation that has  *)
(* regions, behind any other one and in the regions around it, and in the  *)
(* else region of an scf.if around it.                                     *)
(***************************************************************************)
OpenPaths(p) ==
    LET n    == Len(p)
        path == p[n].path
        around == {SubSeq(path, 1, k) : k \in 0 .. Len(path)}
        else == {Append(SubSeq(path, 1, k - 1), <<path[k][1], 2>>) :
                    k \in {j \in DOMAIN path : path[j][2] = 1 /\ p[path[j][1]].kind = "if"}}
        after == {Append(SubSeq(path, 1, k - 1), <<path[k][1], 2>>) :
                    k \in {j \in DOMAIN path : path[j][2] = 1 /\ p[path[j][1]].kind = "while"}}
    IN  IF p[n].kind \in RegionOps THEN {Append(path, <<n, r>>) : r \in {1, 2} \ (IF p[n].kind = "for" THEN {2} ELSE {})}
        ELSE {q \in around : q = <<>> \/ p[q[Len(q)][1]].kind # "while" \/ q[Len(q)][2] = 2} \union else \union after

Longer(p) ==
    {p \o Template(t[1], p, t[2]) : t \in {u \in Statements \X OpenPaths(p) : Usable(u[1], p, u[2])}}

Grown(S, n) ==      \* S and what at most n <= 4 statements make of it
    LET more(T, k) == IF k <= n THEN UNION {Longer(p) : p \in T} ELSE {}
        s1 == more(S, 1)
        s2 == more(s1, 2)
        s3 == more(s2, 3)
        s4 == more(s3, 4)
    IN  S \union s1 \union s2 \union s3 \union s4

(***************************************************************************)
(* A load at the end, of @main or of an open region.                       *)
(***************************************************************************)
Generated ==
    UNION {{p \o Template("load", p, path) : path \in OpenPaths(p)} : p \in Grown({Prelude}, MaxStatements)}

-----------------------------------------------------------------------------
Loop(yields, init)  == [Op("for", <<>>, <<Zero, Two>> \o init, <<>>) EXCEPT !.yields = yields]
Choice(cond, yields) == [Op("if", <<>>, <<cond>>, <<>>) EXCEPT !.yields = yields]
In(b) == <<<<b, 1>>>>

Element(op, e) == [op EXCEPT !.elem = e]
Store(path, v, m) == Op("store", path, <<v>>, <<m>>)
Load(path, m)     == Op("load", path, <<>>, <<m>>)
Alloca == Op("alloca", <<>>, <<>>, <<>>)

Written(name) ==
    CASE name = "ifResult" ->           \* x = if rank {0} else {2}; store x; load
           Prelude \o <<Choice(Rank, <<Zero, Two>>), Store(<<>>, ResultOf(5), Cell), Load(<<>>, Cell)>>
      [] name = "carried" ->            \* for x = 0 {x + iv}, stored behind the loop
           Prelude \o <<Loop(<<ResultOf(6)>>, <<Zero>>), Op("pure", In(5), <<IterOf(5), IvOf(5)>>, <<>>),
                        Store(<<>>, ResultOf(5), Cell), Load(<<>>, Cell)>>
      [] name = "carriedRank" ->        \* for x = 0 {x + rank}
           Prelude \o <<Loop(<<ResultOf(6)>>, <<Zero>>), Op("pure", In(5), <<IterOf(5), Rank>>, <<>>),
                        Store(<<>>, ResultOf(5), Cell), Load(<<>>, Cell)>>
      [] name = "sum" ->                \* for {load; store that + iv}; load
           Prelude \o <<Store(<<>>, Zero, Cell), Loop(<<>>, <<>>), Load(In(6), Cell),
                        Op("pure", In(6), <<ResultOf(7), IvOf(6)>>, <<>>), Store(In(6), ResultOf(8), Cell),
                        Load(<<>>, Cell)>>
      [] name = "views" ->              \* a store through a view
           Prelude \o <<Op("view", <<>>, <<>>, <<Cell>>), Store(<<>>, Rank, 5), Load(<<>>, Cell)>>
      [] name = "select" ->             \* a store through one of two memrefs
           Prelude \o <<Alloca, Op("select", <<>>, <<Two>>, <<4, 5>>), Store(<<>>, Rank, 6), Load(<<>>, 4), Load(<<>>, 5)>>
      [] name = "argument" ->           \* memref and number of @main's arguments
           Prelude \o <<Op("memarg", <<>>, <<>>, <<>>), Load(<<>>, 5), Op("bcast", <<>>, <<>>, <<Cell, Cell>>), Load(<<>>, Cell)>>
      [] name = "freed" ->
           Prelude \o <<Op("malloc", <<>>, <<>>, <<>>), Store(<<>>, Zero, 5), Load(<<>>, 5), Op("free", <<>>, <<>>, <<5>>)>>
      [] name = "malloc" ->             \* a load of what spmd.malloc gives
           Prelude \o <<Op("malloc", <<>>, <<>>, <<>>), Load(<<>>, 5)>>
      [] name = "mallocOrArgument" ->   \* the load finds a store of an argument, too
           Prelude \o <<Op("malloc", <<>>, <<>>, <<>>), Op("arg", <<>>, <<>>, <<>>), Op("select", <<>>, <<Two>>, <<4, 5>>),
                        Store(<<>>, ResultOf(6), 7), Load(<<>>, 5)>>
      [] name = "argumentView" ->       \* a load through a view of an argument
           Prelude \o <<Op("memarg", <<>>, <<>>, <<>>), Op("view", <<>>, <<>>, <<5>>), Load(<<>>, 6)>>
      [] name = "selectAgain" ->        \* for {s = iv ? a : b; load s; store a; store s}
           Prelude \o <<Alloca, Loop(<<>>, <<>>), Op("select", In(6), <<IvOf(6)>>, <<4, 5>>), Load(In(6), 7),
                        Store(In(6), Rank, Cell), Store(In(6), Zero, 7)>>
      [] name = "merged" ->             \* a store through a memref that an scf.if yields
           Prelude \o <<Alloca, Op("merge", <<>>, <<Two>>, <<4, 5>>), Store(<<>>, Rank, 6), Load(<<>>, 4)>>
      [] name = "elements" ->           \* a[1] = rank; a[0] = 0; load a[1]
           Prelude \o <<Element(Store(<<>>, Rank, Cell), 1), Store(<<>>, Zero, Cell), Element(Load(<<>>, Cell), 1)>>
      [] name = "scattered" ->          \* a[1] = 2; scatter a into b; load b
           Prelude \o <<Alloca, Element(Store(<<>>, Two, Cell), 1), Op("scatter", <<>>, <<>>, <<4, 5>>), Load(<<>>, 5)>>
      [] name = "copied" ->             \* if rank {store rank}; store what is loaded; load
           Prelude \o <<Choice(Rank, <<>>), Store(In(5), Rank, Cell), Load(<<>>, Cell),
                        Store(<<>>, ResultOf(7), Cell), Load(<<>>, Cell)>>
      [] name = "waiting" ->            \* store (if 2 {2} else {0}); for i < load {i + 0}
           Prelude \o <<Choice(Two, <<Two, Zero>>), Store(<<>>, ResultOf(5), Cell), Load(<<>>, Cell),
                        Op("for", <<>>, <<Zero, ResultOf(7)>>, <<>>), Op("pure", In(8), <<IvOf(8), Zero>>, <<>>)>>

Programs == (IF MaxStatements = 0 THEN {} ELSE Generated) \union {Written(n) : n \in WrittenNames}

=============================================================================
