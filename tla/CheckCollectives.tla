-------------------------- MODULE CheckCollectives --------------------------
(***************************************************************************)
(* The pass check-collectives (lib/spmd/passes/CheckCollectives.cpp).      *)
(*                                                                         *)
(* For every communicator the pass walks the body of @main, gives each     *)
(* collective on that communicator an execution-order slot, and files it   *)
(* in the container of its class (type, blocking or not) and slot.  It     *)
(* then looks in every container for the conditionals that let the ranks   *)
(* disagree on how often they execute its members, the PDF+ of the         *)
(* container, and reports the container when there is one.                 *)
(*                                                                         *)
(* The recursion of iterateForCollectives is a stack of activations, each  *)
(* with its own copy of the slot counter, which C++ passes by value.       *)
(***************************************************************************)
EXTENDS MainProgram, FiniteSetsExt

CONSTANT
    NumRanks    \* option num-ranks of the pass; 0 when it is not given

ASSUME NumRanksAssumption == NumRanks \in Nat

VARIABLES
    hasMain,    \* the module has a symbol main
    numExec,    \* attribute numberOfExecution of the operations that have it
    pc,         \* where runOnOperation is
    comms,      \* result of getComms: the operations defining communicators
    comm,       \* the one of the current iteration, 0 before the first
    stack,      \* activations of iterateForCollectives, the running one last
    order,      \* collectivesOrder: order[slot][class], lists of operations
    cell,       \* checkErrors: the class and the slot to look at
    next,       \* getPDFP: the next member whose enclosing list is fused in
    fused,      \* getPDFP: fusedOpsLists not scanned yet
    pdfp,       \* getPDFP: PDFP
    checked,    \* getPDFP: checkedIfOprs
    errors      \* errorInfos: what runOnOperation reports

walkVars == <<stack, order>>
pdfVars  == <<next, fused, pdfp, checked>>
vars == <<hasMain, prog, numExec, pc, comms, comm, walkVars, cell, pdfVars, errors>>

-----------------------------------------------------------------------------
(* Communicators.                                                          *)

(***************************************************************************)
(* getComms: the results of commWorld and commSplit.  runOnOperation goes  *)
(* through them in the order of walk, which is that of their numbers.      *)
(***************************************************************************)
Comms(p) == {o \in DOMAIN p : p[o].kind \in CommKinds}

CommsLeft == {o \in comms : comm < o}

(***************************************************************************)
(* unifyCommWorlds: every use of a later commWorld becomes a use of the    *)
(* first one.                                                              *)
(***************************************************************************)
Worlds(p) == {o \in DOMAIN p : p[o].kind = "world"}

(* Variant: the position of the first commWorld, counted from 0.           *)
WorldFromZero(c, p) == IF c \in Worlds(p) THEN Min(Worlds(p)) - 1 ELSE c

UnifiedComm(c, p) == IF c \in Worlds(p) THEN Min(Worlds(p)) ELSE c

UnifyCommWorlds(p) ==
    [o \in DOMAIN p |->
        IF p[o].kind = "coll" THEN [p[o] EXCEPT !.comm = UnifiedComm(@, p)] ELSE p[o]]

-----------------------------------------------------------------------------
(* Collecting: iterateForCollectives.                                      *)

(***************************************************************************)
(* The 22 containers, as the classes <<type, blocking>> in the order in    *)
(* which checkErrors goes through them.                                    *)
(***************************************************************************)
Class(o, p) == <<p[o].type, p[o].blocking>>
Classes     == CollTypes \X BOOLEAN
NumClasses  == 2 * Len(TypeOrder)
ClassAt(q)  == <<TypeOrder[(q + 1) \div 2], q % 2 = 1>>

(***************************************************************************)
(* increaseContainerSizesIfNeeded: one more slot in all containers when    *)
(* the counter has reached their size.                                     *)
(***************************************************************************)
EmptySlot == [k \in Classes |-> <<>>]

(* Variant: grow only when the counter is past the size.                   *)
GrownLate(ord, counter) == IF counter > Len(ord) THEN Append(ord, EmptySlot) ELSE ord

Grown(ord, counter) == IF counter = Len(ord) THEN Append(ord, EmptySlot) ELSE ord

IsSearched(o, p, c) == p[o].kind = "coll" /\ p[o].comm = c

(***************************************************************************)
(* An activation iterates over the operations of its region; at is the     *)
(* last operation it has dealt with (the owner of the region at first).    *)
(***************************************************************************)
Activation(region, at, counter) == [region |-> region, at |-> at, counter |-> counter]

Top == stack[Len(stack)]
Callers == SubSeq(stack, 1, Len(stack) - 1)

Ahead(f, p) == {o \in DOMAIN p : p[o].path = f.region /\ f.at < o}
NextOp(f, p) == Min(Ahead(f, p))

AtOp(o) ==
    /\ pc = "collect"
    /\ stack # <<>>
    /\ Ahead(Top, prog) # {}
    /\ o = NextOp(Top, prog)

Past(o) == [Top EXCEPT !.at = o]

(***************************************************************************)
(* A collective on the searched communicator: file it and count it.        *)
(***************************************************************************)
Collect(o) ==
    /\ AtOp(o)
    /\ IsSearched(o, prog, comm)
    /\ order' = [Grown(order, Top.counter) EXCEPT
                    ![Top.counter + 1][Class(o, prog)] = Append(@, o)]
    /\ stack' = Append(Callers, [Past(o) EXCEPT !.counter = @ + 1])
    /\ UNCHANGED <<hasMain, prog, numExec, pc, comms, comm, cell, pdfVars, errors>>

(***************************************************************************)
(* An scf.if: the calls for its then and its else region, both with the    *)
(* caller's counter.  The call for then runs first: it is on top.          *)
(***************************************************************************)
EnterThen(o) ==         \* variant: no call for the else region
    /\ AtOp(o)
    /\ prog[o].kind = "if"
    /\ stack' = Callers \o << Past(o), Activation(Body(o, 1, prog), o, Top.counter) >>
    /\ UNCHANGED <<hasMain, prog, numExec, pc, comms, comm, order, cell, pdfVars, errors>>

EnterIf(o) ==
    /\ AtOp(o)
    /\ prog[o].kind = "if"
    /\ stack' = Callers \o << Past(o),
                              Activation(Body(o, 2, prog), o, Top.counter),
                              Activation(Body(o, 1, prog), o, Top.counter) >>
    /\ UNCHANGED <<hasMain, prog, numExec, pc, comms, comm, order, cell, pdfVars, errors>>

EnterFor(o) ==
    /\ AtOp(o)
    /\ prog[o].kind = "for"
    /\ stack' = Callers \o << Past(o), Activation(Body(o, 1, prog), o, Top.counter) >>
    /\ UNCHANGED <<hasMain, prog, numExec, pc, comms, comm, order, cell, pdfVars, errors>>

(***************************************************************************)
(* Any other operation, scf.while and collectives on other communicators   *)
(* included, is passed over.                                               *)
(***************************************************************************)
PassOver(o) ==
    /\ AtOp(o)
    /\ prog[o].kind \notin {"if", "for"}
    /\ ~IsSearched(o, prog, comm)
    /\ stack' = Append(Callers, Past(o))
    /\ UNCHANGED <<hasMain, prog, numExec, pc, comms, comm, order, cell, pdfVars, errors>>

(***************************************************************************)
(* The end of a region: its activation returns.  When the one for the body *)
(* of @main has returned, checkErrors begins.                              *)
(***************************************************************************)
ReturnCounter ==        \* variant: the counter is passed by reference
    /\ pc = "collect"
    /\ stack # <<>>
    /\ Ahead(Top, prog) = {}
    /\ IF Callers = <<>>
         THEN pc' = "check" /\ cell' = [class |-> 1, slot |-> 1] /\ stack' = <<>>
         ELSE /\ stack' = [Callers EXCEPT ![Len(Callers)].counter = Top.counter]
              /\ UNCHANGED <<pc, cell>>
    /\ UNCHANGED <<hasMain, prog, numExec, comms, comm, order, pdfVars, errors>>

Return ==
    /\ pc = "collect"
    /\ stack # <<>>
    /\ Ahead(Top, prog) = {}
    /\ stack' = Callers
    /\ IF Callers = <<>>
         THEN pc' = "check" /\ cell' = [class |-> 1, slot |-> 1]
         ELSE UNCHANGED <<pc, cell>>
    /\ UNCHANGED <<hasMain, prog, numExec, comms, comm, order, pdfVars, errors>>

-----------------------------------------------------------------------------
(* Checking one container: getPDFP.                                        *)

Members == order[cell.slot][ClassAt(cell.class)]

InList(x, s) == \E i \in DOMAIN s : s[i] = x

(***************************************************************************)
(* The exit for a given number of ranks: every rank is named as executor   *)
(* of a member whose executors are known statically.                       *)
(***************************************************************************)
ExecutedStatically(members, p) ==
    UNION {p[members[i]].executedBy :
             i \in {j \in DOMAIN members : p[members[j]].execKind = "Static"}}

CoversAllButLast(members, p) ==     \* variant: the last rank is not looked for
    NumRanks # 0 /\ 0 .. (NumRanks - 2) \subseteq ExecutedStatically(members, p)

CoversAllRanks(members, p) ==
    NumRanks # 0 /\ 0 .. (NumRanks - 1) \subseteq ExecutedStatically(members, p)

(***************************************************************************)
(* getEnclosingOps: the region-branch operations around o, outermost first.*)
(***************************************************************************)
EnclosingOps(o, p) == [k \in DOMAIN p[o].path |-> p[o].path[k][1]]

(***************************************************************************)
(* calculateNumIterations: the ceiling of (upper - lower) / step; C++      *)
(* division rounds towards zero.  Unknown for bounds that are not constant *)
(* and for step 0.                                                         *)
(***************************************************************************)
TruncDiv(a, b) == IF a >= 0 THEN a \div b ELSE -((-a) \div b)

NumIterationsKnown(f, p) ==
    p[f].kind = "for" /\ p[f].bounds # <<>> /\ p[f].bounds[3] # 0

NumIterations(bounds) ==
    TruncDiv(bounds[2] - bounds[1] + bounds[3] - 1, bounds[3])

(***************************************************************************)
(* The loop extension: the loops between o and the innermost enclosing     *)
(* scf.if whose iterations are known multiply the number of executions,    *)
(* and for each of them one operation is popped off the end of the list.   *)
(***************************************************************************)
CountedLoops(o, p) ==
    LET enclosing == EnclosingOps(o, p) IN
    {k \in DOMAIN enclosing :
        /\ NumIterationsKnown(enclosing[k], p)
        /\ \A j \in k .. Len(enclosing) : p[enclosing[j]].kind # "if"}

NumberOfExecution(o, p) ==
    FoldSet(LAMBDA k, n : n * NumIterations(p[EnclosingOps(o, p)[k]].bounds),
            1, CountedLoops(o, p))

Shortened(o, p) ==
    SubSeq(EnclosingOps(o, p), 1,
           Len(p[o].path) - Cardinality(CountedLoops(o, p)))

(***************************************************************************)
(* checkIfStartsSame, checkIfIncluded and the fusion of one list: a list   *)
(* that continues one kept before replaces it, one that is continued by it *)
(* is dropped.                                                             *)
(***************************************************************************)
StartsSame(l1, l2) == Encloses(l1, l2) \/ Encloses(l2, l1)

Fuse(lists, l) ==
    LET like == {i \in DOMAIN lists : StartsSame(l, lists[i])} IN
    IF l = <<>> THEN lists
    ELSE IF like = {} THEN Append(lists, l)
    ELSE IF Len(l) > Len(lists[Min(like)]) THEN [lists EXCEPT ![Min(like)] = l]
    ELSE lists

(***************************************************************************)
(* isPDFP: an scf.if whose two regions differ in the greatest number of    *)
(* executions of a member.                                                 *)
(***************************************************************************)
MembersIn(o, region, members, p) ==
    {members[i] : i \in {j \in DOMAIN members : Encloses(Body(o, region, p), p[members[j]].path)}}

Executions(o, region, members, p, counts) ==
    Max({0} \union {counts[m] : m \in MembersIn(o, region, members, p)})

CalledOnOneSide(o, members, p, counts) ==   \* variant: called or not, however often
    (MembersIn(o, 1, members, p) = {}) # (MembersIn(o, 2, members, p) = {})

IsPDFP(o, members, p, counts) ==
    Executions(o, 1, members, p, counts) # Executions(o, 2, members, p, counts)

(***************************************************************************)
(* The scan of one list, the leading single-valued operations skipped: the *)
(* first scf.if not yet checked that is a PDF+, or the first other         *)
(* operation not yet in PDF+, is a cause, and the scan stops there.        *)
(***************************************************************************)
AnyOp(l, p) == 1                    \* variant: single-valued operations not skipped

FirstMV(l, p) == Min({k \in DOMAIN l : p[l[k]].mv} \union {Len(l) + 1})

IsCause(o, members, p, counts) ==
    IF p[o].kind = "if" THEN o \notin checked /\ IsPDFP(o, members, p, counts)
                        ELSE ~InList(o, pdfp)

CausesIn(l, members, p, counts) ==
    {k \in FirstMV(l, p) .. Len(l) : IsCause(l[k], members, p, counts)}

StopAt(l, members, p, counts) ==
    Min(CausesIn(l, members, p, counts) \union {Len(l) + 1})

StartPDFPUnchecked ==               \* variant: checkedIfOprs outlives the container
    /\ pc = "check"
    /\ cell.class <= NumClasses
    /\ cell.slot <= Len(order)
    /\ Members # <<>>
    /\ ~CoversAllRanks(Members, prog)
    /\ pc' = "fuse"
    /\ next' = 1 /\ fused' = <<>> /\ pdfp' = <<>>
    /\ LET counted == {Members[i] : i \in {j \in DOMAIN Members : prog[Members[j]].path # <<>>}} IN
         numExec' = [o \in DOMAIN numExec \union counted |->
                        IF o \in counted THEN NumberOfExecution(o, prog) ELSE numExec[o]]
    /\ UNCHANGED <<hasMain, prog, comms, comm, walkVars, cell, checked, errors>>

StartPDFP ==
    /\ pc = "check"
    /\ cell.class <= NumClasses
    /\ cell.slot <= Len(order)
    /\ Members # <<>>
    /\ ~CoversAllRanks(Members, prog)
    /\ pc' = "fuse"
    /\ next' = 1 /\ fused' = <<>> /\ pdfp' = <<>> /\ checked' = {}
    /\ LET counted == {Members[i] : i \in {j \in DOMAIN Members : prog[Members[j]].path # <<>>}} IN
         numExec' = [o \in DOMAIN numExec \union counted |->
                        IF o \in counted THEN NumberOfExecution(o, prog) ELSE numExec[o]]
    /\ UNCHANGED <<hasMain, prog, comms, comm, walkVars, cell, errors>>

FuseMemberAgain ==                  \* variant: the iterator is not advanced
    /\ pc = "fuse"
    /\ next <= Len(Members)
    /\ fused' = Fuse(fused, Shortened(Members[next], prog))
    /\ UNCHANGED <<hasMain, prog, numExec, pc, comms, comm, walkVars, cell, next, pdfp, checked, errors>>

FuseMember ==
    /\ pc = "fuse"
    /\ next <= Len(Members)
    /\ fused' = Fuse(fused, Shortened(Members[next], prog))
    /\ next' = next + 1
    /\ UNCHANGED <<hasMain, prog, numExec, pc, comms, comm, walkVars, cell, pdfp, checked, errors>>

EndFuse ==
    /\ pc = "fuse"
    /\ next > Len(Members)
    /\ pc' = "scan"
    /\ UNCHANGED <<hasMain, prog, numExec, comms, comm, walkVars, cell, pdfVars, errors>>

ScanList ==
    /\ pc = "scan"
    /\ fused # <<>>
    /\ LET l    == Head(fused)
           stop == StopAt(l, Members, prog, numExec)
           from == FirstMV(l, prog)
       IN  /\ pdfp' = IF stop <= Len(l) THEN Append(pdfp, l[stop]) ELSE pdfp
           /\ checked' = checked \union
                {l[k] : k \in {j \in from .. Len(l) :
                    \/ j < stop /\ prog[l[j]].kind = "if"
                    \/ j = stop /\ prog[l[j]].kind # "if"}}
    /\ fused' = Tail(fused)
    /\ UNCHANGED <<hasMain, prog, numExec, pc, comms, comm, walkVars, cell, next, errors>>

-----------------------------------------------------------------------------
(* checkErrors and runOnOperation.                                         *)

NextCell == cell' = [cell EXCEPT !.slot = @ + 1]

EndPDFP ==
    /\ pc = "scan"
    /\ fused = <<>>
    /\ errors' = IF pdfp # <<>> THEN Append(errors, [conflict |-> Members, causing |-> pdfp])
                                ELSE errors
    /\ NextCell
    /\ pc' = "check"
    /\ UNCHANGED <<hasMain, prog, numExec, comms, comm, walkVars, pdfVars>>

(***************************************************************************)
(* An empty container, or one every rank executes: no error.               *)
(***************************************************************************)
SkipContainer ==
    /\ pc = "check"
    /\ cell.class <= NumClasses
    /\ cell.slot <= Len(order)
    /\ Members = <<>> \/ CoversAllRanks(Members, prog)
    /\ NextCell
    /\ UNCHANGED <<hasMain, prog, numExec, pc, comms, comm, walkVars, pdfVars, errors>>

NextClass ==
    /\ pc = "check"
    /\ cell.class <= NumClasses
    /\ cell.slot > Len(order)
    /\ cell' = [class |-> cell.class + 1, slot |-> 1]
    /\ UNCHANGED <<hasMain, prog, numExec, pc, comms, comm, walkVars, pdfVars, errors>>

EndCheck ==
    /\ pc = "check"
    /\ cell.class > NumClasses
    /\ pc' = "loop"
    /\ UNCHANGED <<hasMain, prog, numExec, comms, comm, walkVars, cell, pdfVars, errors>>

Start ==
    /\ pc = "start"
    /\ hasMain
    /\ comms' = Comms(prog)
    /\ prog' = UnifyCommWorlds(prog)
    /\ pc' = "loop"
    /\ UNCHANGED <<hasMain, numExec, comm, walkVars, cell, pdfVars, errors>>

NoMain ==
    /\ pc = "start"
    /\ ~hasMain
    /\ pc' = "failed"
    /\ UNCHANGED <<hasMain, prog, numExec, comms, comm, walkVars, cell, pdfVars, errors>>

NextCommKeepsOrder ==               \* variant: the containers outlive the iteration
    /\ pc = "loop"
    /\ CommsLeft # {}
    /\ comm' = Min(CommsLeft)
    /\ stack' = <<Activation(<<>>, 0, 0)>>
    /\ pc' = "collect"
    /\ UNCHANGED <<hasMain, prog, numExec, comms, order, cell, pdfVars, errors>>

NextComm ==
    /\ pc = "loop"
    /\ CommsLeft # {}
    /\ comm' = Min(CommsLeft)
    /\ order' = <<>>
    /\ stack' = <<Activation(<<>>, 0, 0)>>
    /\ pc' = "collect"
    /\ UNCHANGED <<hasMain, prog, numExec, comms, cell, pdfVars, errors>>

Report ==
    /\ pc = "loop"
    /\ CommsLeft = {}
    /\ pc' = "done"
    /\ UNCHANGED <<hasMain, prog, numExec, comms, comm, walkVars, cell, pdfVars, errors>>

InitPass ==
    /\ hasMain \in BOOLEAN
    /\ numExec = [o \in {} |-> 0]
    /\ pc = "start"
    /\ comms = {} /\ comm = 0
    /\ stack = <<>> /\ order = <<>>
    /\ cell = [class |-> 1, slot |-> 1]
    /\ next = 1 /\ fused = <<>> /\ pdfp = <<>> /\ checked = {}
    /\ errors = <<>>

(* The pass may be given any module that the MLIR verifier accepts.        *)
Init == WellFormed(prog) /\ InitPass

Walk == \E o \in DOMAIN prog : Collect(o) \/ EnterIf(o) \/ EnterFor(o) \/ PassOver(o)

Next ==
    \/ Start \/ NoMain \/ NextComm \/ Report
    \/ Walk \/ Return
    \/ SkipContainer \/ NextClass \/ EndCheck
    \/ StartPDFP \/ FuseMember \/ EndFuse \/ ScanList \/ EndPDFP

Spec == Init /\ [][Next]_vars

(* The pass is one sequential call: it keeps running until it returns.     *)
FairSpec == Spec /\ WF_vars(Next)

-----------------------------------------------------------------------------
(* What the pass guarantees.                                               *)

Phases == {"start", "failed", "loop", "collect", "check", "fuse", "scan", "done"}

ActivationType ==
    [region : Seq((Nat \ {0}) \X {1, 2}), at : Nat, counter : Nat]

(***************************************************************************)
(* Types of the variables; prog stays a well-formed program under          *)
(* unifyCommWorlds.                                                        *)
(***************************************************************************)
TypeOK ==
    /\ hasMain \in BOOLEAN
    /\ WellFormed(prog)
    /\ DOMAIN numExec \subseteq DOMAIN prog
    /\ pc \in Phases
    /\ comms \subseteq DOMAIN prog
    /\ comm \in comms \union {0}
    /\ stack \in Seq(ActivationType)
    /\ order \in Seq([Classes -> Seq(DOMAIN prog)])
    /\ cell \in [class : Nat \ {0}, slot : Nat \ {0}]
    /\ next \in Nat \ {0}
    /\ fused \in Seq(Seq(DOMAIN prog))
    /\ pdfp \in Seq(DOMAIN prog)
    /\ checked \subseteq DOMAIN prog
    /\ errors \in Seq([conflict : Seq(DOMAIN prog), causing : Seq(DOMAIN prog)])

(***************************************************************************)
(* No activation indexes the containers past their end.  They grow by one  *)
(* slot at a time and only when the counter equals their size, so this     *)
(* rests on every activation's counter staying within what its callers and *)
(* the activations that returned before it have made room for              *)
(* (increaseContainerSizesIfNeeded and the pushes of iterateForCollectives)*)
(***************************************************************************)
SlotsInBounds == \A i \in DOMAIN stack : stack[i].counter <= Len(order)

(***************************************************************************)
(* The execution-order slot of a collective, stated on the program alone:  *)
(* the number of collectives on its communicator that precede it in its    *)
(* own region or in a region around it.                                    *)
(***************************************************************************)
CallsBefore(o, p, c) ==
    {j \in 1 .. (o - 1) : IsSearched(j, p, c) /\ Encloses(p[j].path, p[o].path)}

(***************************************************************************)
(* Whatever the walk has filed, at any moment of it, is on the communicator*)
(* it searches, in the container of its own class, and in the slot the     *)
(* program alone determines: regions walked earlier leave no trace in the  *)
(* counter of the regions walked later.                                    *)
(***************************************************************************)
FiledInSlot ==
    \A s \in DOMAIN order : \A k \in Classes : \A i \in DOMAIN order[s][k] :
        LET o == order[s][k][i] IN
            /\ IsSearched(o, prog, comm)
            /\ Class(o, prog) = k
            /\ s = Cardinality(CallsBefore(o, prog, comm)) + 1

(***************************************************************************)
(* When checkErrors looks at the containers, each collective on the        *)
(* communicator that only scf.if and scf.for enclose is filed once.        *)
(***************************************************************************)
Filings(o) ==
    {f \in (DOMAIN order) \X Classes \X (1 .. Len(prog)) :
        f[3] \in DOMAIN order[f[1]][f[2]] /\ order[f[1]][f[2]][f[3]] = o}

FiledOnce ==
    pc \in {"check", "fuse", "scan"} =>
        \A o \in DOMAIN prog :
            /\ IsSearched(o, prog, comm)
            /\ \A k \in DOMAIN prog[o].path : prog[prog[o].path[k][1]].kind # "while"
            => Cardinality(Filings(o)) = 1

(***************************************************************************)
(* Each conditional a report blames encloses one of the collectives it is  *)
(* blamed for, and the ranks may really disagree on reaching or passing it:*)
(* it, or an operation around it, is multi-valued.                         *)
(***************************************************************************)
Blames(c, o, p) ==
    \E k \in DOMAIN p[o].path :
        /\ p[o].path[k][1] = c
        /\ \E j \in 1 .. k : p[p[o].path[j][1]].mv

CausesDivergent ==
    \A e \in DOMAIN errors : \A i \in DOMAIN errors[e].causing :
        \E m \in DOMAIN errors[e].conflict :
            Blames(errors[e].causing[i], errors[e].conflict[m], prog)

(***************************************************************************)
(* No collective is part of two reports, over all communicators: uses of   *)
(* several commWorlds are one communicator, and the containers of one      *)
(* communicator are gone when the next one is searched.                    *)
(***************************************************************************)
ReportedOnce ==
    \A d, e \in DOMAIN errors : \A o \in DOMAIN prog :
        InList(o, errors[d].conflict) /\ InList(o, errors[e].conflict) => d = e

(***************************************************************************)
(* What the verdict should be, stated on the program alone.  The fellows of*)
(* a collective are those that ranks may meet it with: on its communicator,*)
(* of its class, in its slot.  What encloses it, without the loops popped, *)
(* divides the ranks from the outermost multi-valued operation on, but for *)
(* an scf.if whose regions execute a fellow equally often; unless every    *)
(* rank is named as executor of some fellow.                               *)
(***************************************************************************)
Reached(o, p) ==
    p[o].kind = "coll" /\ \A k \in DOMAIN p[o].path : p[p[o].path[k][1]].kind # "while"

SlotOf(o, p) == Cardinality(CallsBefore(o, p, p[o].comm)) + 1

Fellows(o, p) ==
    {x \in DOMAIN p : /\ Reached(x, p) /\ p[x].comm = p[o].comm
                      /\ Class(x, p) = Class(o, p) /\ SlotOf(x, p) = SlotOf(o, p)}

MostExecutions(b, region, o, p) ==
    Max({0} \union {NumberOfExecution(x, p) :
            x \in {y \in Fellows(o, p) : Encloses(Body(b, region, p), p[y].path)}})

DividesAt(k, o, p) ==
    LET l == Shortened(o, p) IN
        /\ \E j \in 1 .. k : p[l[j]].mv
        /\ p[l[k]].kind = "if" => MostExecutions(l[k], 1, o, p) # MostExecutions(l[k], 2, o, p)

NamedForAll(o, p) ==
    /\ NumRanks # 0
    /\ \A r \in 0 .. (NumRanks - 1) :
        \E x \in Fellows(o, p) : p[x].execKind = "Static" /\ r \in p[x].executedBy

Divided(o, p) ==
    /\ ~ NamedForAll(o, p)
    /\ \E x \in Fellows(o, p) : \E k \in DOMAIN Shortened(x, p) : DividesAt(k, x, p)

(***************************************************************************)
(* The pass reports a collective exactly if one of its fellows divides the *)
(* ranks: whatever the order in which lists are fused and scanned, and what*)
(* earlier lists and containers have left behind.                          *)
(***************************************************************************)
IsReported(o) == \E e \in DOMAIN errors : InList(o, errors[e].conflict)

VerdictExact ==
    pc = "done" =>
        \A o \in DOMAIN prog : IsReported(o) <=> Reached(o, prog) /\ Divided(o, prog)

(***************************************************************************)
(* CheckCollectives.cpp:482, "conditionals like forOps or whileOps are     *)
(* regarded if a static analysis was not possible": a collective that only *)
(* loops enclose is reported when a multi-valued one of them has a number  *)
(* of iterations that is not known.                                        *)
(***************************************************************************)
OnlyInLoops(o, p) == \A k \in DOMAIN p[o].path : p[p[o].path[k][1]].kind = "for"

UnknownLoopsReported ==
    pc = "done" /\ NumRanks = 0 =>
        \A o \in DOMAIN prog :
            /\ prog[o].kind = "coll" /\ OnlyInLoops(o, prog)
            /\ \E k \in DOMAIN prog[o].path :
                 prog[prog[o].path[k][1]].mv /\ ~NumIterationsKnown(prog[o].path[k][1], prog)
            => \E e \in DOMAIN errors : InList(o, errors[e].conflict)

(***************************************************************************)
(* The pass comes to its report (or fails) on every program.               *)
(***************************************************************************)
Terminates == <>(pc \in {"done", "failed"})

=============================================================================
