--------------------------- MODULE MCMultiReader ----------------------------
EXTENDS MultiReader

\* A document with the tokens of its fields 0 and 1; <<>> is an absent field.
Doc(a, b) == [f \in {g \in 0..1 : (IF g = 0 THEN a ELSE b) # <<>>} |-> IF f = 0 THEN a ELSE b]

X == Doc(<<1>>, <<2>>)
Y == Doc(<<1, 2, 1>>, <<>>)
W == Doc(<<1>>, <<>>)
Z == Doc(<<3>>, <<1, 1>>)

OwnIndex(docsOf, fields, changes, seeks) ==
  [ext |-> FALSE, names |-> [i \in DOMAIN docsOf |-> fields], docs |-> docsOf,
   budget |-> [changes |-> changes, seeks |-> seeks]]

\* One segment: term 1 of field 0 has two skip entries. Changes and a second
\* seek are checked apart.
Long(changes, seeks) == OwnIndex(<< <<X, Z, Y, Y, X, X, Y>> >>, <<0, 1>>, changes, seeks)

\* A segment with skip data before a short one.
Mixed == OwnIndex(<< <<Y, X, Y, X>>, <<Z, Y>> >>, <<0, 1>>, 1, 1)

\* One document: room for a merge to a segment of no documents and more.
Short == OwnIndex(<< <<W>> >>, <<0>>, 4, 1)

\* Two indexes whose fields have different numbers.
External == [ext |-> TRUE, names |-> << <<0, 1>>, <<1>> >>, budget |-> [changes |-> 1, seeks |-> 2],
             docs |-> << <<X>>, <<Doc(<<>>, <<1>>), Doc(<<>>, <<2, 3>>)>> >>]

\* Longer documents, for phrases.
Text == OwnIndex(<< <<Doc(<<1, 2, 1, 1, 2>>, <<>>), Doc(<<3, 2, 1>>, <<>>)>>,
                    <<Doc(<<2, 1, 3, 1, 2, 3>>, <<>>), Doc(<<1, 1, 3, 2>>, <<>>)>> >>, <<0>>, 1, 0)

MCIndexes == {Text, Long(1, 1), Long(0, 2), Mixed, Short, External}
Phrase(terms, offsets, slop) == [terms |-> terms, offsets |-> offsets, slop |-> slop]

One(s) == [i \in DOMAIN s |-> <<s[i]>>]

\* Exact ones, with a gap, with a repeated term and with a choice of terms, and
\* sloppy ones.
MCPhrases == {Phrase(One(<<1, 2>>), <<0, 1>>, 0), Phrase(<< <<2, 3>>, <<1>> >>, <<0, 1>>, 0),
              Phrase(One(<<1, 1>>), <<0, 2>>, 0), Phrase(One(<<1, 2, 1>>), <<0, 1, 2>>, 0),
              Phrase(One(<<1, 2>>), <<0, 1>>, 1), Phrase(<< <<2, 3>>, <<1>> >>, <<0, 1>>, 2),
              Phrase(One(<<1, 2, 3>>), <<0, 1, 2>>, 1)}
MCAdded == {W}
=============================================================================
