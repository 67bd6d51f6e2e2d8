----------------------------- MODULE EntityEvents -----------------------------
(***************************************************************************)
(* EntityEventRegistry: listeners of single entities.  An entity's record  *)
(* holds the number of a TypedTable with one entry for each event type.    *)
(* What compiles of the class is modelled: listening on an entity.  An     *)
(* emit on an entity and a listener for all entities are ill-formed when   *)
(* they are instantiated, and nothing ever takes a listener away.          *)
(*                                                                         *)
(* The entity registry is that of Storage; no entity needs a component.    *)
(***************************************************************************)
EXTENDS Storage, SequencesExt

CONSTANTS
    Event,      \* ids of event types
    Callback,
    NoCallback, \* an entry of a TypedTable that was not registered
    WordBits,   \* 64 in the code
    NoListeners \* UINT16_MAX, the listenersId of a record without a table

EntityEventsAssumption ==
    /\ Event \subseteq Nat
    /\ WordBits \in Nat \ {0}
    /\ NoListeners \in Nat \ {0}

VARIABLES
    entityListeners,   \* the TypedTables, in the order they were created
    listenersId,       \* EntityRecord::listenersId of each index
    wanted             \* history: who listens to what, <<handle, event>> -> callback

entityEventVars == <<vars, entityListeners, listenersId, wanted>>

-----------------------------------------------------------------------------
(* TypedTable *)

NewTable == [dense |-> << >>, bits |-> << >>]

\* vector::resize with a value for what is new.
Resized(s, n, x) == [j \in 1 .. Max({n, Len(s)}) |-> IF j <= Len(s) THEN s[j] ELSE x]

Word(id) == id \div WordBits + 1

IsRegistered(table, id) ==
    Word(id) <= Len(table.bits) /\ id % WordBits \in table.bits[Word(id)]

\* Wrong: the bit is set in the first word.
RegisteredInFirst(table, id, x) ==
    [dense |-> [Resized(table.dense, id + 1, NoCallback) EXCEPT ![id + 1] = x],
     bits |-> [Resized(table.bits, 1, {}) EXCEPT ![1] = @ \cup {id % WordBits}]]

\* registerElement: both arrays grow to the id; what was registered is replaced.
RegisterElement(table, id, x) ==
    [dense |-> [Resized(table.dense, id + 1, NoCallback) EXCEPT ![id + 1] = x],
     bits |-> [Resized(table.bits, Word(id), {}) EXCEPT
                  ![Word(id)] = @ \cup {id % WordBits}]]

-----------------------------------------------------------------------------
(* Operations *)

EntityEventsInit ==
    /\ Init
    /\ entityListeners = << >>
    /\ listenersId = [i \in Index |-> NoListeners]
    /\ wanted = << >>

\* createEntity gives a new index no table; a recycled one keeps its own.
Create ==
    /\ CreateEntity
    /\ UNCHANGED <<entityListeners, listenersId, wanted>>

Destroy(h) ==
    /\ DestroyEntity(h)
    /\ wanted' = [k \in {w \in DOMAIN wanted : w[1] # h} |-> wanted[k]]
    /\ UNCHANGED <<entityListeners, listenersId>>

\* listen; the number of a new table is cut to 16 bits.  It does not ask
\* whether h is alive.
ListenTo(h, e, f) ==
    LET known == listenersId[h.index]
        new == known = NoListeners
        tables == IF new THEN Append(entityListeners, NewTable) ELSE entityListeners
        id == IF new THEN (Len(tables) - 1) % (NoListeners + 1) ELSE known
        j == IF new THEN Len(tables) ELSE known + 1
    IN  /\ entityListeners' = [tables EXCEPT ![j] = RegisterElement(@, e, f)]
        /\ listenersId' = [listenersId EXCEPT ![h.index] = id]
        /\ wanted' = [k \in DOMAIN wanted \cup {<<h, e>>} |->
                         IF k = <<h, e>> THEN f ELSE wanted[k]]
        /\ UNCHANGED vars

-----------------------------------------------------------------------------
(* The discipline under which listeners belong to their entities *)

\* Live entities listen, at most NoListeners of them, and none that ever has is
\* destroyed: its index would keep its table.
EntityEventsNext ==
    \/ Create
    \/ \E h \in live :
        \/ listenersId[h.index] = NoListeners /\ h.generation < Generations - 1
           /\ Destroy(h)
        \/ /\ \/ listenersId[h.index] # NoListeners
              \/ Len(entityListeners) < NoListeners
           /\ \E e \in Event, f \in Callback : ListenTo(h, e, f)

EntityEventsSpec == EntityEventsInit /\ [][EntityEventsNext]_entityEventVars

-----------------------------------------------------------------------------
(* Safety *)

\* The callback the registry has for an event of h.
Registered(h, e) ==
    LET table == entityListeners[listenersId[h.index] + 1]
    IN  IF listenersId[h.index] # NoListeners /\ IsRegistered(table, e)
        THEN table.dense[e + 1] ELSE NoCallback

\* The registry has for every live entity the callbacks that were given for it
\* and no others, although indices are reused, tables are numbered in the order
\* of the first listeners and an entry is found by the bit of its event type.
ListenersBelong ==
    \A h \in live, e \in Event :
        Registered(h, e) = IF <<h, e>> \in DOMAIN wanted THEN wanted[<<h, e>>]
                           ELSE NoCallback
=============================================================================
