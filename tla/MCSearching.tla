--------------------------- MODULE MCSearching ---------------------------
EXTENDS Searching

T(l) == [type |-> "term", leaf |-> l]
K(l) == [type |-> "const", leaf |-> l]
F(q, l) == [type |-> "filtered", query |-> q, leaf |-> l]
Empty == [type |-> "empty"]
Occurs == {"must", "should", "must_not"}
Two(p, q) == {Bool(<<Clause(p, x), Clause(q, y)>>) : x, y \in Occurs}
Three(p, q, r) ==
  {Bool(<<Clause(p, x), Clause(q, y), Clause(r, z)>>) : x, y, z \in Occurs}

\* No clause, one, two and three, with each kind of leaf, and two levels
MCShapes ==
  {Bool(<<>>)} \cup {Bool(<<Clause(T(1), x)>>) : x \in {"must", "should"}}
    \cup Three(T(1), T(2), T(3)) \cup Two(Empty, T(2))
    \cup UNION {Two(q, T(3)) : q \in Two(T(1), T(2))}
    \cup Two(T(3), Bool(<<Clause(T(1), "must"), Clause(K(2), "must")>>))
    \cup Two(T(3), Bool(<<Clause(T(1), "should"), Clause(K(2), "should")>>))
    \cup Two(F(Bool(<<Clause(T(1), "must"), Clause(T(2), "must")>>), 2), T(3))

\* Few queries, for several calls
MCFew ==
  {K(1), Bool(<<Clause(T(1), "must_not")>>), Bool(<<Clause(K(1), "must"), Clause(K(1), "must")>>)}
    \cup Two(K(1), T(2))

MCQueries == MCShapes \cup MCFew
MCMaxCalls(q) == IF q \in MCShapes THEN 1 ELSE 2
MCCorpora(q) ==
  {f \in [Leaves -> SUBSET (0..(MaxDoc - 1))] : q \in MCShapes \/ f[3] = {}}

MCLayouts(q) == IF q \in MCShapes THEN {<<0, 3>>} ELSE {<<0, 3>>, <<0, 1, 1, 3>>}
MCSearches == {<<0, 2, 0>>, <<1, 1, 2>>}

\* The least that shows a run out conjunction
MCAnd == {Bool(<<Clause(T(1), "must"), Clause(T(2), "must")>>)}
==========================================================================
