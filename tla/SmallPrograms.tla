--------------------------- MODULE SmallPrograms ---------------------------
(***************************************************************************)
(* The programs the model checker explores: every well-nested program over *)
(* the operations named in the .cfg, after one of a few lists of           *)
(* operations that define communicators.                                   *)
(***************************************************************************)
EXTENDS SpmdIR

CONSTANTS
    MaxOps,       \* operations of a program besides those defining communicators
    Branches,     \* names of the conditionals and loops to use, see Branch
    UsedClasses,  \* classes <<type, blocking>> of collectives to use
    CommPrefixes  \* the lists of communicator definitions to start from

Blank == [kind |-> "coll", path |-> <<>>, type |-> TypeOrder[1], blocking |-> TRUE,
          comm |-> 0, bounds |-> <<>>, mv |-> FALSE, execKind |-> "All",
          executedBy |-> {}, executedNotBy |-> {}]

Branch(name) ==
    CASE name = "ifMV"    -> [Blank EXCEPT !.kind = "if", !.mv = TRUE]
      [] name = "ifSV"    -> [Blank EXCEPT !.kind = "if"]
      [] name = "forMV"   -> [Blank EXCEPT !.kind = "for", !.mv = TRUE]
      [] name = "forSV"   -> [Blank EXCEPT !.kind = "for"]
      [] name = "for1"    -> [Blank EXCEPT !.kind = "for", !.bounds = <<0, 1, 1>>]
      [] name = "for2"    -> [Blank EXCEPT !.kind = "for", !.bounds = <<0, 4, 2>>]
      [] name = "for3"    -> [Blank EXCEPT !.kind = "for", !.bounds = <<1, 6, 2>>]
      [] name = "for0"    -> [Blank EXCEPT !.kind = "for", !.bounds = <<3, 3, 1>>]
      [] name = "for2MV"  -> [Blank EXCEPT !.kind = "for", !.bounds = <<0, 4, 2>>, !.mv = TRUE]
      [] name = "whileSV" -> [Blank EXCEPT !.kind = "while"]

CommDef(k) == [Blank EXCEPT !.kind = k]

Templates(prefix) ==
    {Branch(b) : b \in Branches} \union
    {[Blank EXCEPT !.type = k[1], !.blocking = k[2], !.comm = c] :
        k \in UsedClasses, c \in DOMAIN prefix}

(***************************************************************************)
(* The regions an operation appended to p can be in.  A conditional or a   *)
(* loop without a collective in it makes no difference to the pass, so the *)
(* operation after one is in one of its regions; after any other operation *)
(* it is in a region around that, or the else region of an scf.if around.  *)
(***************************************************************************)
OpenRegions(p) ==
    LET n    == Len(p)
        path == p[n].path
        cuts == {SubSeq(path, 1, k) : k \in 0 .. Len(path)}
        else == {Append(SubSeq(path, 1, k - 1), <<path[k][1], 2>>) :
                    k \in {j \in DOMAIN path : path[j][2] = 1 /\ p[path[j][1]].kind = "if"}}
    IN  IF p[n].kind = "if" THEN {Body(n, 1, p), Body(n, 2, p)}
        ELSE IF IsBranch(p, n) THEN {Body(n, 1, p)}
        ELSE cuts \union else

Longer(p, prefix) ==
    {Append(p, [t EXCEPT !.path = r]) : t \in Templates(prefix), r \in OpenRegions(p)}

(***************************************************************************)
(* prog is one of CommPrefixes followed by n <= MaxOps operations, the     *)
(* last one a collective.  At most six operations are chosen.              *)
(***************************************************************************)
Step(p, k, n, prefix) == IF k <= n THEN Longer(p, prefix) ELSE {p}

ChooseProgram(prog) ==
    \E names \in CommPrefixes : \E n \in 1 .. MaxOps :
        LET p0 == [i \in DOMAIN names |-> CommDef(names[i])] IN
        \E p1 \in Step(p0, 1, n, p0) : \E p2 \in Step(p1, 2, n, p0) :
        \E p3 \in Step(p2, 3, n, p0) : \E p4 \in Step(p3, 4, n, p0) :
        \E p5 \in Step(p4, 5, n, p0) : \E p6 \in Step(p5, 6, n, p0) :
            /\ p6[Len(p6)].kind = "coll"
            /\ prog = p6

(* Values for the .cfg files, which cannot write sequences.                *)
OneType  == <<"bcast">>
TwoTypes == <<"bcast", "reduce">>
BcastOnly     == {<<"bcast", TRUE>>}
BcastBoth     == {<<"bcast", TRUE>>, <<"bcast", FALSE>>}
BcastIreduce  == {<<"bcast", TRUE>>, <<"reduce", FALSE>>}
OneWorld      == {<<"world">>}
WorldAndSplit == {<<"world", "split">>}
SeveralComms  == {<<"world", "split", "world">>}

=============================================================================
