------------------------------ MODULE MC_Table ------------------------------
(* Instantiation of Table for TLC: two columns, the second NULLABLE, two   *)
(* values and two slots, conditions of every shape the filter knows.      *)
EXTENDS Table

CONSTANTS a, b   \* the two user columns (model values)

\* attr op 1 for the comparisons a full scan and an index scan both serve.
AttrConds(ops) ==
    {[lhsAttr |-> TRUE, field |-> f, op |-> o, val |-> 1] : f \in {a, b}, o \in ops}

\* b IS NULL, b IS NOT NULL, and a = NULL (a NULL literal compared).
NullConds ==
    {[lhsAttr |-> TRUE, field |-> b, op |-> o, val |-> NULL] : o \in NullOps}
    \cup {[lhsAttr |-> TRUE, field |-> a, op |-> "EQ", val |-> NULL]}

\* 1 op attr: the value on the left of the comparison.
SwappedConds(ops) ==
    {[lhsAttr |-> FALSE, field |-> a, op |-> o, val |-> 1] : o \in ops}

MCConds        == AttrConds({"EQ", "LT", "GE"}) \cup NullConds
MCSwappedConds == AttrConds({"LT"}) \cup SwappedConds({"LT"})
MCUniqueConds  == AttrConds({"EQ", "GE"})
=============================================================================
