----------------------------- MODULE SparseArrays -----------------------------
(***************************************************************************)
(* SparseValues and SparseIndices: an array indexed by component id that   *)
(* grows to the largest id set in it.  The edges of a table are two of     *)
(* them.  The two classes differ in what they store and in how a reader is *)
(* told that an id was never set (T{} or no address, UINT16_MAX).          *)
(***************************************************************************)
EXTENDS Naturals, FiniteSetsExt, Functions

CONSTANTS
    Id,             \* the ids that are set
    Entry,          \* what is stored
    Unset,          \* T{}, or UINT16_MAX
    FirstCapacity   \* 4 in the code

SparseAssumption ==
    /\ Id \subseteq Nat
    /\ Unset \notin Entry
    /\ FirstCapacity \in Nat \ {0}

VARIABLES
    slots,   \* the allocated array, positions 0 .. capacity - 1
    count,   \* positions below are in use
    held     \* history: what was set since the last reset

sparseVars == <<slots, count, held>>

Capacity == Cardinality(DOMAIN slots)

Blank(n) == [i \in 0 .. n - 1 |-> Unset]

-----------------------------------------------------------------------------
(* Growth *)

\* A capacity doubled k times, from 1 after a move.
Doubled(old, most) ==
    LET size[k \in 0 .. most] == IF k = 0 THEN Max({1, old}) ELSE 2 * size[k - 1]
    IN  size

\* Wrong: an id equal to the capacity is taken to fit.
GrowsTooLate(id, old) == Min({n \in Range(Doubled(old, id)) : id <= n})

\* The capacity for an id that does not fit: doubled until it does.
NewCapacity(id, old) == Min({n \in Range(Doubled(old, id)) : id < n})

\* grow: the elements in use are copied, the rest is blank.
Grown(n) == [i \in 0 .. n - 1 |-> IF i < count THEN slots[i] ELSE Unset]

-----------------------------------------------------------------------------
(* Operations *)

SparseInit ==
    /\ slots = Blank(FirstCapacity)
    /\ count = 0
    /\ held = << >>

\* set: grow, blank what lies between the elements in use and the id, write.
Set(id, v) ==
    LET room == IF id >= Capacity THEN Grown(NewCapacity(id, Capacity)) ELSE slots
    IN  /\ slots' = [i \in DOMAIN room |->
                        IF i = id THEN v
                        ELSE IF i >= count /\ i < id THEN Unset ELSE room[i]]
        /\ count' = Max({count, id + 1})
        /\ held' = [i \in DOMAIN held \cup {id} |-> IF i = id THEN v ELSE held[i]]

\* reset: what was in use is blanked, the array is kept.
Reset ==
    /\ slots' = [i \in DOMAIN slots |-> IF i < count THEN Unset ELSE slots[i]]
    /\ count' = 0
    /\ held' = << >>

\* What is left of an array that was moved from.
MovedFrom ==
    /\ slots' = << >>
    /\ count' = 0
    /\ held' = << >>

\* tryGet where it yields an address; atOrInvalid and has.
Lookup(id) == IF id >= count THEN Unset ELSE slots[id]

SparseNext ==
    \/ \E id \in Id, v \in Entry : Set(id, v)
    \/ Reset \/ MovedFrom

SparseSpec == SparseInit /\ [][SparseNext]_sparseVars

-----------------------------------------------------------------------------
(* Safety *)

\* Nothing is read or written past the array, whichever ids were set, in
\* whatever order, before and after a move.
InsideArray ==
    /\ count <= Capacity
    /\ \A id \in DOMAIN held : id < count

\* A lookup finds what was last set for the id since the last reset, and
\* nothing for every other id: growing loses no edge, a reset leaves none.
LookupsExact ==
    /\ InsideArray
    /\ \A id \in Id : Lookup(id) = IF id \in DOMAIN held THEN held[id] ELSE Unset
=============================================================================
