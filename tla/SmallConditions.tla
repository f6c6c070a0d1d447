-------------------------- MODULE SmallConditions --------------------------
(***************************************************************************)
(* The conditions that the programs of SmallPrograms are given: what the   *)
(* uniformity analysis says of one, and the comparisons it is made of.     *)
(***************************************************************************)
EXTENDS SmallPrograms

CONSTANT CondNames

RankCmp(pred, other, value) == [ofRank |-> TRUE, pred |-> pred, other |-> other, value |-> value]
Const(pred, value) == RankCmp(pred, "const", value)
EqU    == RankCmp("eq", "uniform", 0)
EqV    == RankCmp("eq", "varying", 0)
Parity == [ofRank |-> FALSE, pred |-> "eq", other |-> "const", value |-> 0]

Cond(uni, shape, cmps) == [uni |-> uni, shape |-> shape, cmps |-> cmps]
OnRank(shape, cmps) == Cond("NonUniform", shape, cmps)

ConditionNamed(name) ==
    CASE name = "uniform" -> Cond("Uniform", "opaque", <<>>)
      [] name = "unknown" -> Cond("Unknown", "opaque", <<>>)
      [] name = "opaque"  -> Cond("NonUniform", "opaque", <<>>)
      [] name = "parity"  -> OnRank("cmp", <<Parity>>)
      [] name = "eq0"     -> OnRank("cmp", <<Const("eq", 0)>>)
      [] name = "eq1"     -> OnRank("cmp", <<Const("eq", 1)>>)
      [] name = "eq2"     -> OnRank("cmp", <<Const("eq", 2)>>)
      [] name = "gt0"     -> OnRank("cmp", <<Const("gt", 0)>>)
      [] name = "gt1"     -> OnRank("cmp", <<Const("gt", 1)>>)
      [] name = "eqU"     -> OnRank("cmp", <<EqU>>)
      [] name = "eqV"     -> OnRank("cmp", <<EqV>>)
      [] name = "or01"    -> OnRank("or", <<Const("eq", 0), Const("eq", 1)>>)
      [] name = "or0U"    -> OnRank("or", <<Const("eq", 0), EqU>>)
      [] name = "or0P"    -> OnRank("orElse", <<Const("eq", 0), Parity>>)
      [] name = "orNE"    -> OnRank("orAnd", <<Const("ne", 0), Const("eq", 1), Const("eq", 0)>>)
      [] name = "orLT"    -> OnRank("orAnd", <<Const("lt", 2), Const("gt", 0), Const("eq", 0)>>)
      [] name = "and"     -> OnRank("and", <<Const("gt", 0), Const("lt", 2)>>)
      [] name = "andThen" -> OnRank("andThen", <<Const("gt", 0), Const("lt", 2)>>)

StaleValues == {-1, 0, 3}

Conditioned(cond, program) ==
    /\ cond \in [{o \in OpsOf(program) : IsBranch(program, o)} ->
                    {ConditionNamed(n) : n \in CondNames}]
    /\ \A o \in DOMAIN cond : program[o].kind # "if" => cond[o].shape = "opaque"

=============================================================================
