------------------------ MODULE ReachingDefinitions ------------------------
(***************************************************************************)
(* ReachingDefinitionAnalysis.cpp, UnderlyingValueAnalysis and             *)
(* AliasOracle: which operations may have written a memref last.           *)
(*                                                                         *)
(* A state maps every memref to its modifiers, operations that have        *)
(* written it, and to its potential modifiers, that have written a memref  *)
(* it may be an alias of.  An absent entry and an empty one are the same   *)
(* to everything that reads the state.                                     *)
(***************************************************************************)
EXTENDS MemoryIR

LOCAL INSTANCE FiniteSetsExt

InitialDefinition == 0      \* what a memref argument holds on entry

Definitions(p) == {InitialDefinition} \union DOMAIN p

ReachingStates(p) ==
    [mods : [DOMAIN p -> SUBSET Definitions(p)], pMods : [DOMAIN p -> SUBSET Definitions(p)]]

Nothing(p) ==
    [mods |-> [m \in DOMAIN p |-> {}], pMods |-> [m \in DOMAIN p |-> {}]]

EntryState(p) ==
    [mods  |-> [m \in DOMAIN p |-> IF p[m].kind = "memarg" THEN {InitialDefinition} ELSE {}],
     pMods |-> [m \in DOMAIN p |-> {}]]

JoinStates(s, t) ==
    [mods  |-> [m \in DOMAIN s.mods |-> s.mods[m] \union t.mods[m]],
     pMods |-> [m \in DOMAIN s.pMods |-> s.pMods[m] \union t.pMods[m]]]

AddModifier(s, M, d) ==         \* variant: the modifiers so far stay
    [s EXCEPT !.mods = [m \in DOMAIN s.mods |-> IF m \in M THEN s.mods[m] \union {d} ELSE s.mods[m]]]

SetModifier(s, M, d) ==
    [mods  |-> [m \in DOMAIN s.mods |-> IF m \in M THEN {d} ELSE s.mods[m]],
     pMods |-> [m \in DOMAIN s.pMods |-> IF m \in M THEN {} ELSE s.pMods[m]]]

AddPotentialModifier(s, M, d) ==
    [mods  |-> s.mods,
     pMods |-> [m \in DOMAIN s.pMods |-> IF m \in M THEN s.pMods[m] \union {d} ELSE s.pMods[m]]]

RemoveModifiers(s, M) ==
    [mods |-> [m \in DOMAIN s.mods |-> IF m \in M THEN {} ELSE s.mods[m]], pMods |-> s.pMods]

RemovePotentialModifiers(s, M) ==
    [mods |-> s.mods, pMods |-> [m \in DOMAIN s.pMods |-> IF m \in M THEN {} ELSE s.pMods[m]]]

Modifiers(s, m) == s.mods[m] \union s.pMods[m]

(***************************************************************************)
(* MLIR's alias analysis on the memrefs of a program: a view is its        *)
(* source; a selected memref may be any, and so may a memref argument be   *)
(* another; a merged memref may be one of the two that are yielded.        *)
(***************************************************************************)
SourceOf(p, m) == IF p[m].kind = "view" THEN p[m].mem[1] ELSE m

AliasMust(p, m, n) == SourceOf(p, m) = SourceOf(p, n)

AliasMay(p, m, n) ==
    LET a == SourceOf(p, m)
        b == SourceOf(p, n)
    IN  /\ a # b
        /\ \/ "select" \in {p[a].kind, p[b].kind}
           \/ p[a].kind = "memarg" /\ p[b].kind = "memarg"
           \/ p[a].kind = "merge" /\ b \in Range(p[a].mem)
           \/ p[b].kind = "merge" /\ a \in Range(p[b].mem)

(***************************************************************************)
(* AliasOracle: the answers for the memrefs that some operation declares   *)
(* an effect on.                                                           *)
(***************************************************************************)
MemoryResources(p) ==
    (UNION {{Effects(p, o)[i][2] : i \in DOMAIN Effects(p, o)} : o \in DOMAIN p}) \ {0}

MustAlias(p, m) == {n \in MemoryResources(p) : n # m /\ AliasMust(p, m, n)}
MayAlias(p, m)  == {n \in MemoryResources(p) : n # m /\ AliasMay(p, m, n)}

(***************************************************************************)
(* UnderlyingValueAnalysis: the result of an operation is its own          *)
(* underlying value; for the result of an scf.if that yields two memrefs   *)
(* there is none.                                                          *)
(***************************************************************************)
HasUnderlyingValue(p, m) == p[m].kind # "merge"

-----------------------------------------------------------------------------
(***************************************************************************)
(* visitOperation: one effect.                                             *)
(***************************************************************************)
AfterEffect(p, o, s, e) ==
    LET m == e[2] IN
    CASE e[1] = "Allocate" -> SetModifier(s, {m}, o)
      [] e[1] = "Write" ->
           AddPotentialModifier(SetModifier(s, {m} \union MustAlias(p, m), o), MayAlias(p, m), o)
      [] e[1] = "Free" ->
           RemovePotentialModifiers(RemoveModifiers(s, {m} \union MustAlias(p, m)), {m} \union MayAlias(p, m))
      [] OTHER -> s

Resets(p, o) == \E i \in DOMAIN Effects(p, o) : Effects(p, o)[i][2] = 0

(***************************************************************************)
(* An effect on a memref without underlying value ends the visit.          *)
(***************************************************************************)
GivesUp(p, o) ==
    /\ ~Resets(p, o)
    /\ \E i \in DOMAIN Effects(p, o) : ~HasUnderlyingValue(p, Effects(p, o)[i][2])

EffectsHandled(p, o) ==
    LET e == Effects(p, o)
        stops == {i \in DOMAIN e : ~HasUnderlyingValue(p, e[i][2])}
    IN  IF stops = {} THEN e ELSE SubSeq(e, 1, Min(stops) - 1)

AfterEffects(p, o, s, e) ==     \* no operation declares more than two
    CASE Len(e) = 0 -> s
      [] Len(e) = 1 -> AfterEffect(p, o, s, e[1])
      [] Len(e) = 2 -> AfterEffect(p, o, AfterEffect(p, o, s, e[1]), e[2])

(***************************************************************************)
(* The state behind o after a visit that found before in front of it and   *)
(* after behind it; and whether the visit reports a change.  setModifier   *)
(* always reports one, and a visit that gives up none.                     *)
(***************************************************************************)
Transfer(p, o, before, after) ==
    IF ~DeclaresEffects(p, o) THEN after
    ELSE IF Resets(p, o) THEN Nothing(p)
    ELSE AfterEffects(p, o, JoinStates(after, before), EffectsHandled(p, o))

ReportsChange(p, o, before, after) ==
    LET joined == JoinStates(after, before) IN
    /\ DeclaresEffects(p, o)
    /\ ~GivesUp(p, o)
    /\ \/ Resets(p, o) /\ joined # Nothing(p)
       \/ ~Resets(p, o) /\ joined # after
       \/ ~Resets(p, o) /\ Transfer(p, o, before, after) # joined
       \/ \E i \in DOMAIN Effects(p, o) : Effects(p, o)[i][1] \in {"Allocate", "Write"} /\ ~Resets(p, o)

=============================================================================
