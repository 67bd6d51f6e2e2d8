-------------------------- MODULE RequiredComponents --------------------------
(***************************************************************************)
(* ComponentRegistry: registering components, each with the components it  *)
(* requires directly.  A record stores the closure of its requirements as  *)
(* of the moment it was registered, and a debug build checks for cycles.   *)
(* A registry is a record; module Setup holds one for each world.          *)
(***************************************************************************)
EXTENDS Naturals, SequencesExt

CONSTANT ComponentType   \* component ids

RequiredAssumption == ComponentType \subseteq Nat /\ IsFiniteSet(ComponentType)

\* registered: the registered ids; required: ComponentRecord::required of every
\* slot; slots: TypedTable's dense vector has slots for the ids below this.
Registry ==
    [registered : SUBSET ComponentType,
     required : [ComponentType -> Seq(ComponentType)],
     slots : Nat]

NoRecords ==
    [registered |-> {}, required |-> [c \in ComponentType |-> << >>], slots |-> 0]

-----------------------------------------------------------------------------
(* resolveRequiredComponentIds *)

AddNewId(ids, id) == IF id \in Range(ids) THEN ids ELSE Append(ids, id)

AddNew(ids, more) == FoldLeft(AddNewId, ids, more)

\* Wrong: what the required components require is left to their own records.
CloseNot(reg, ids) == ids

\* The list grows while it is walked.
Expand(walk, i) ==
    IF i <= Len(walk.list)
    THEN [walk EXCEPT !.list = AddNew(@, walk.required[@[i]])]
    ELSE walk

\* It never has more elements than there are components.
Close(reg, ids) ==
    FoldLeft(Expand, [list |-> ids, required |-> reg.required],
             [i \in 1 .. Cardinality(ComponentType) |-> i]).list

\* What c requires by one or more requirements of lists: what no set can miss that
\* has what c requires directly and with every component what that does.
Needed(lists, c) ==
    {d \in ComponentType : \A s \in SUBSET ComponentType :
        Range(lists[c]) \subseteq s /\ (\A e \in s : Range(lists[e]) \subseteq s)
            => d \in s}

\* hasCycle from one of ids: a depth-first search meets an id on its stack.
CycleFrom(reg, ids) ==
    \E start \in Range(ids) : \E c \in Needed(reg.required, start) \cup {start} :
        c \in Needed(reg.required, c)

\* A record may be read up to the end of the vector; beyond is undefined.
HasRecord(reg, id) == id < reg.slots

\* registerComponent of c, which requires list, gets past its assertions.
Accepted(reg, c, list) ==
    c \in reg.registered \/
        /\ \A id \in Range(Close(reg, list)) : HasRecord(reg, id)
        /\ ~CycleFrom(reg, list)

\* The registry once c is registered; a second registration changes nothing.
WithComponent(reg, c, list) ==
    IF c \in reg.registered THEN reg
    ELSE [registered |-> reg.registered \cup {c},
          required |-> [reg.required EXCEPT ![c] = Close(reg, list)],
          slots |-> Max({reg.slots, c + 1})]
=============================================================================
