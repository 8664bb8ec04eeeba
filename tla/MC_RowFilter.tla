----------------------------- MODULE MC_RowFilter -----------------------------
(* Instantiation of RowFilter for TLC on the INT column: records holding   *)
(* ints at both ends of the 32-bit range and at zero, against small        *)
(* constants of either sign, the column on either side.                    *)
EXTENDS RowFilter

IntLimit == 2147483000

\* A record stores only its INT column's value; its DATE and CHARS
\* columns are empty strings that no condition here reads.
MCIntRows ==
  {[rec |-> [d |-> <<>>, s |-> <<>>, n |-> v], date |-> <<1970, 1, 1>>] :
     v \in {-IntLimit, 0, IntLimit}}

AttrN     == [is_attr |-> TRUE, field |-> "n", type |-> "UNDEFINED", data |-> <<>>,
              num |-> 0, in |-> NoIn]
IntVal(v) == [is_attr |-> FALSE, field |-> "", type |-> "INTS", data |-> <<>>,
              num |-> v, in |-> NoIn]

MCIntConds ==
  {[left |-> AttrN, right |-> IntVal(v), op |-> o] :
     v \in {-1000, 1000}, o \in {"EQ", "NE", "LT", "LE", "GT", "GE"}}
  \cup {[left |-> IntVal(v), right |-> AttrN, op |-> o] :
          v \in {-1000, 1000}, o \in {"LT", "GE"}}
====
