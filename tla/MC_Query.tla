------------------------------ MODULE MC_Query ------------------------------
(* Instantiation of Query for TLC: three tables, the FROM list and JOIN     *)
(* clauses the bounds allow, and conditions of every shape from_condition  *)
(* tells apart.                                                            *)
EXTENDS Query

CONSTANTS t1, t2, t3

CONSTANTS
  MaxRelations,  \* tables of the FROM list
  MaxJoins,      \* INNER JOIN clauses
  MaxConds,      \* WHERE conditions
  MaxSubConds    \* conditions with a sub-query, WHERE and ON together

\* attr op attr between two tables, attr op value either way round, an
\* attribute without its table, and two constants (one true, one false).
MCConds ==
  {[l |-> Attr(xy[1]), comp |-> o, r |-> Attr(xy[2])] :
      xy \in {xy \in Tables \X Tables : xy[1] # xy[2]}, o \in {"EQUAL_TO", "LESS_THAN"}}
  \cup {[l |-> Attr(x), comp |-> "EQUAL_TO", r |-> Lit(1)] : x \in Tables \cup {NoRel}}
  \cup {[l |-> Lit(0), comp |-> "LESS_THAN", r |-> Attr(x)] : x \in Tables}
  \cup {[l |-> Lit(0), comp |-> "EQUAL_TO", r |-> Lit(1)],
        [l |-> Lit(1), comp |-> "GREAT_EQUAL", r |-> Lit(0)]}

SeqsUpTo(S, n) == UNION {[1..k -> S] : k \in 0..n}

Distinct(s) == \A i, j \in DOMAIN s : i # j => s[i] # s[j]

\* The tables a condition names.
Named(c) == {o.rel : o \in {x \in {c.l, c.r} : x.attr}}

\* The tables the conditions of a sub-query name.
SubNamed(q) == UNION {Named(q.conds[i]) : i \in DOMAIN q.conds}

SubOf(c) == IF IsSel(c.l) THEN c.l.sel ELSE c.r.sel

\* Sub-queries SELECT u.a FROM u [WHERE ...]: every row, the row holding 1
\* (one row at most: a table's values are distinct), and the rows below the
\* value of an outer table t.
SubWhere(u) ==
  {<<>>, <<[l |-> Attr(u), comp |-> "EQUAL_TO", r |-> Lit(1)]>>}
  \cup {<<[l |-> Attr(u), comp |-> "LESS_THAN", r |-> Attr(t)]>> : t \in Tables \ {u}}

SubQueries ==
  UNION {{[relations |-> <<u>>, joins |-> <<>>, conds |-> cs] : cs \in SubWhere(u)} :
           u \in Tables}

\* attr [NOT] IN (sub-query), (sub-query) < attr, and 1 = (sub-query).
MCSubConds ==
  {[l |-> Attr(x), comp |-> o, r |-> Sub(q)] :
      x \in Tables \cup {NoRel}, o \in {"IN_OP", "NOT_IN_OP"}, q \in SubQueries}
  \cup {[l |-> Sub(q), comp |-> "LESS_THAN", r |-> Attr(x)] : x \in Tables, q \in SubQueries}
  \cup {[l |-> Lit(1), comp |-> "EQUAL_TO", r |-> Sub(q)] :
          q \in {q \in SubQueries : SubNamed(q) \subseteq {q.relations[1]}}}

\* What the resolve stage lets through: tables distinct, conditions name
\* tables of the query, and an attribute without its table only when the
\* query has one table.  A sub-query reads a table outside the query.
\* The rest keeps to what the code plans as spec.md says (see the hazards
\* of PROJECT.json): at most MaxSubConds sub-query conditions; a
\* correlated sub-query names only relations[0] outside itself; a WHERE
\* sub-query stands against a FROM table; and a sub-query folded as a
\* constant is uncorrelated and yields one row at most.
WellFormed(s) ==
  LET ts    == QueryTables(s)
      conds == AllConditions(s)
      subs  == {c \in conds : IsSel(c.l) \/ IsSel(c.r)}
      from  == {s.relations[i] : i \in DOMAIN s.relations}
      single == IF Cardinality(ts) = 1 THEN {NoRel} ELSE {}
  IN  /\ Distinct(s.relations \o [j \in DOMAIN s.joins |-> s.joins[j].table])
      /\ \A c \in conds : Named(c) \subseteq ts \cup single
      /\ Cardinality(subs) <= MaxSubConds
      /\ \A c \in subs :
           LET q == SubOf(c)
           IN  /\ q.relations[1] \notin ts
               /\ SubNamed(q) \subseteq {q.relations[1], s.relations[1]}
               /\ c.l.attr \/ c.r.attr \/ SubNamed(q) = {q.relations[1]}
      /\ \A i \in DOMAIN s.conds :
           IsSel(s.conds[i].l) \/ IsSel(s.conds[i].r) =>
             Named(s.conds[i]) \subseteq from \cup single

\* Statements with conditions of MCConds only.
Plain ==
  [relations : SeqsUpTo(Tables, MaxRelations) \ {<<>>},
   joins : SeqsUpTo([table : Tables, conds : SeqsUpTo(MCConds, 1)], MaxJoins),
   conds : SeqsUpTo(MCConds, MaxConds)]

\* Statements with one sub-query condition: up to MaxRelations FROM tables
\* and MaxJoins JOINs, the sub-query condition first or last in WHERE
\* beside at most one other condition, or as an ON condition.
SubBaseConds ==
  {[l |-> Attr(xy[1]), comp |-> "EQUAL_TO", r |-> Attr(xy[2])] :
      xy \in {xy \in Tables \X Tables : xy[1] # xy[2]}}
  \cup {[l |-> Attr(x), comp |-> "EQUAL_TO", r |-> Lit(1)] : x \in Tables}
  \cup {[l |-> Lit(0), comp |-> "EQUAL_TO", r |-> Lit(1)]}

Placed(s, c, k) ==
  CASE k = 1 -> [s EXCEPT !.conds = <<c>> \o @]
    [] k = 2 -> [s EXCEPT !.conds = Append(@, c)]
    [] k = 3 /\ s.joins # <<>> -> [s EXCEPT !.joins[1].conds = <<c>>]
    [] OTHER -> s

WithSub ==
  {Placed(s, c, k) :
     s \in [relations : {r \in SeqsUpTo(Tables, MaxRelations) : r # <<>> /\ Distinct(r)},
            joins : SeqsUpTo([table : Tables, conds : {<<>>}], MaxJoins),
            conds : SeqsUpTo(SubBaseConds, 1)],
     c \in MCSubConds, k \in 1..3}

MCSelections ==
  {s \in Plain \cup (IF MaxSubConds > 0 THEN WithSub ELSE {}) : WellFormed(s)}

\* Every table holding every value, or one table holding 0 only (so that
\* a sub-query may come back empty).
MCDBs == {[t \in Tables |-> Vals]}
         \cup {[t \in Tables |-> IF t = u THEN {0} ELSE Vals] : u \in Tables}

MCSymmetry == Permutations({t1, t2, t3})
=============================================================================
