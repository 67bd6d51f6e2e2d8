----------------------------- MODULE MCArchetypes -----------------------------
\* A small instance of Archetypes for TLC.
EXTENDS Archetypes

MCEntityType == SUBSET Component

\* Queries with and without required components, one and several, with and
\* without excluded ones.
MCQueryTerms ==
    {[required |-> {}, excluded |-> {1}], [required |-> {0}, excluded |-> {1}],
     [required |-> {0, 1}, excluded |-> {}]}
=============================================================================
