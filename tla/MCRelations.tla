----------------------------- MODULE MCRelations -----------------------------
\* Small instances of Relations for TLC.
EXTENDS Relations

\* Only forests are explored: a parent has a smaller index than its child.
Forest ==
    \A c \in live : RelationTarget \in TypeOf(c) /\ Listed(c) =>
        Get(Store, c, RelationTarget).index < c.index

\* Bound: what follows a second destruction is not explored, nor more than four
\* entities in a behaviour, the destroyed one included.
SmallFamilies == Cardinality(dead) <= 1 /\ Cardinality(live \cup dead) <= 4
=============================================================================
