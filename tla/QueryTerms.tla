------------------------------ MODULE QueryTerms ------------------------------
(***************************************************************************)
(* Query: two arrays of component ids built by with and without, by the    *)
(* terms With<..> and Without<..>, and for a system by its parameters.     *)
(* Module Archetypes takes a query to be two sets; this one shows that the *)
(* arrays, which are never sorted and skip repetitions, mean those sets.   *)
(***************************************************************************)
EXTENDS Naturals, SequencesExt

CONSTANTS
    TermId,      \* component ids, numbers
    BloomBits,   \* 64 in the code
    MaxTerms     \* MAX_QUERY_TERM, 16 in the code

QueryTermsAssumption ==
    /\ TermId \subseteq Nat
    /\ BloomBits \in Nat \ {0}
    /\ MaxTerms \in Nat

VARIABLES
    required, excluded,   \* the arrays up to their counts
    bloom,                \* the bits of Query::bloom that are set
    asked                 \* history: the ids asked for and ruled out

termVars == <<required, excluded, bloom, asked>>

Type == SUBSET TermId
Bits(cids) == {c % BloomBits : c \in cids}

-----------------------------------------------------------------------------
(* Building *)

TermsInit ==
    /\ required = << >> /\ excluded = << >>
    /\ bloom = {}
    /\ asked = [with |-> {}, without |-> {}]

\* Wrong: a full array drops its last term for the new one.
AppendedOver(terms, cid) ==
    IF cid \in Range(terms) THEN terms
    ELSE IF Len(terms) >= MaxTerms - 1 THEN Append(SubSeq(terms, 1, MaxTerms - 2), cid)
    ELSE Append(terms, cid)

\* append: an id that is there already is skipped, also when the array is full.
Appended(terms, cid) == IF cid \in Range(terms) THEN terms ELSE Append(terms, cid)

AppendedAll(terms, cids) == FoldLeft(Appended, terms, cids)

\* The assertion of append: the array never needs more than MaxTerms elements.
Fits(terms, cids) == Len(AppendedAll(terms, cids)) <= MaxTerms

\* with and without one after the other: applyTerm runs through the ids of a
\* term, buildSystemQuery through the parameters of a system.
Apply(with, without) ==
    /\ Fits(required, with) /\ Fits(excluded, without)
    /\ required' = AppendedAll(required, with)
    /\ bloom' = bloom \cup Bits(Range(with))
    /\ excluded' = AppendedAll(excluded, without)
    /\ asked' = [with |-> asked.with \cup Range(with),
                 without |-> asked.without \cup Range(without)]

With(cid) == Apply(<<cid>>, << >>)
Without(cid) == Apply(<< >>, <<cid>>)

\* A system with the components of two parameters and a Without term.
SystemQuery(first, second, cid) == Apply(<<first, second>>, <<cid>>)

TermsNext ==
    \/ \E c \in TermId : With(c) \/ Without(c)
    \/ \E c, d, e \in TermId : SystemQuery(c, d, e)

TermsSpec == TermsInit /\ [][TermsNext]_termVars

-----------------------------------------------------------------------------
(* Matching *)

\* matchTable, for a table of that type.
Matches(type) ==
    /\ bloom \subseteq Bits(type)
    /\ \A j \in DOMAIN required : required[j] \in type
    /\ \A j \in DOMAIN excluded : excluded[j] \notin type

\* A query matches the tables it was built for, however its terms were given,
\* repeated and mixed, up to full arrays, and whichever ids share Bloom bits.
QueryMeansTerms ==
    \A type \in Type :
        Matches(type) <=> asked.with \subseteq type /\ asked.without \cap type = {}
=============================================================================
