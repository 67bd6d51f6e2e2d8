------------------------------ MODULE EntityTypes ------------------------------
(***************************************************************************)
(* EntityType: a set of component ids kept as a sorted array.  The other   *)
(* modules take a type to be a set; this one shows that the arrays built   *)
(* by withAdd and withRemove behave as the sets they stand for.  Array     *)
(* positions are 0-based, position p is element p + 1.                     *)
(***************************************************************************)
EXTENDS Naturals, SequencesExt

CONSTANTS
    ComponentId,       \* component ids, numbers
    LinearThreshold,   \* 12 in the code: longer arrays are searched by halving
    NotFound           \* UINT16_MAX, for a component that is not there; ids are smaller

EntityTypesAssumption ==
    /\ NotFound \in Nat /\ ComponentId \subseteq 0 .. NotFound - 1
    /\ LinearThreshold \in Nat

VARIABLES
    cids,      \* the array of one type
    members    \* history: the components added and not removed since

typeVars == <<cids, members>>

-----------------------------------------------------------------------------
(* The algorithms *)

ElementAt(s, pos) == s[pos + 1]

\* findInsertPos: the first position whose component is not smaller.
FindInsertPos(s, cid) ==
    Min({pos \in 0 .. Len(s) : pos = Len(s) \/ ElementAt(s, pos) >= cid})

Present(s, pos, cid) == pos < Len(s) /\ ElementAt(s, pos) = cid

LinearSearch(s, cid) ==
    LET hits == {pos \in 0 .. Len(s) - 1 : ElementAt(s, pos) = cid}
    IN  IF hits = {} THEN NotFound ELSE Min(hits)

\* Wrong: the middle is excluded although it may be the one.
HalveTooFar(s, cid) ==
    LET lower[part \in (0 .. Len(s)) \X (0 .. Len(s))] ==
            LET left == part[1]
                right == part[2]
                mid == left + (right - left) \div 2
            IN  IF left >= right THEN left
                ELSE IF ElementAt(s, mid) < cid THEN lower[<<mid + 1, right>>]
                ELSE lower[<<left, IF mid > left THEN mid - 1 ELSE mid>>]
        pos == lower[<<0, Len(s)>>]
    IN  IF Present(s, pos, cid) THEN pos ELSE NotFound

\* Where halving ends, for each part of the array.
LowerBounds(s, cid) ==
    LET lower[part \in (0 .. Len(s)) \X (0 .. Len(s))] ==
            LET left == part[1]
                right == part[2]
                mid == left + (right - left) \div 2
            IN  IF left >= right THEN left
                ELSE IF ElementAt(s, mid) < cid THEN lower[<<mid + 1, right>>]
                ELSE lower[<<left, mid>>]
    IN  lower

BinarySearch(s, cid) ==
    LET pos == LowerBounds(s, cid)[<<0, Len(s)>>]
    IN  IF Present(s, pos, cid) THEN pos ELSE NotFound

FindIndex(s, cid) ==
    IF Len(s) <= LinearThreshold THEN LinearSearch(s, cid) ELSE BinarySearch(s, cid)

WithAdd(s, cid) ==
    LET pos == FindInsertPos(s, cid)
    IN  IF Present(s, pos, cid) THEN s ELSE InsertAt(s, pos + 1, cid)

WithRemove(s, cid) ==
    LET pos == FindInsertPos(s, cid)
    IN  IF Present(s, pos, cid) THEN RemoveAt(s, pos + 1) ELSE s

-----------------------------------------------------------------------------
(* A type built by adds and removes in any order *)

TypesInit == cids = << >> /\ members = {}

Add(c) == cids' = WithAdd(cids, c) /\ members' = members \cup {c}

Drop(c) == cids' = WithRemove(cids, c) /\ members' = members \ {c}

TypesNext == \E c \in ComponentId : Add(c) \/ Drop(c)

TypesSpec == TypesInit /\ [][TypesNext]_typeVars

-----------------------------------------------------------------------------
(* Safety *)

\* The array is the strictly ascending one of its set.  As there is only one,
\* comparing arrays byte by byte (operator==, and hashing them) compares sets.
OneArrayPerSet ==
    /\ Range(cids) = members
    /\ \A i, j \in DOMAIN cids : i < j => cids[i] < cids[j]

\* findIndex finds what is there, where it is, by either search.
FindIndexFinds ==
    \A c \in ComponentId :
        LET pos == FindIndex(cids, c)
        IN  IF c \in members THEN pos # NotFound /\ Present(cids, pos, c)
            ELSE pos = NotFound

\* The arrays of types stand for sets.
ArraysAreSets == OneArrayPerSet /\ FindIndexFinds
=============================================================================
