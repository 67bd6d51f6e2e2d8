-------------------------------- MODULE Events --------------------------------
(***************************************************************************)
(* EventRegistry, for one event type: listeners are called in the order    *)
(* they are stored, a listener's id is its index, and a callback may       *)
(* itself listen, unlisten or emit while the listeners are being called.   *)
(***************************************************************************)
EXTENDS Naturals, SequencesExt

CONSTANTS
    Owner,      \* parties that listen, each with at most one callback
    EventIds,   \* number of EventId values (2^16 in the code)
    MaxDepth    \* bound on emits inside emits

EventsAssumption == EventIds \in Nat \ {0} /\ MaxDepth \in Nat \ {0}

VARIABLES
    listeners,   \* EventBase::listeners, each callback named by its owner
    capacity,    \* of that vector
    id,          \* the EventId each owner was last given
    emits,       \* the running emits, innermost last
    undefined,   \* the code went on with an iterator that is not valid
    subscribed   \* history: who listened and has not unlistened, in order

eventVars == <<listeners, capacity, id, emits, undefined, subscribed>>

\* A running emit: the range-for holds the next and the end position.  heard is
\* history, the owners called so far; due too, those subscribed at its begin.
Emit == [next : Nat, end : Nat, valid : BOOLEAN, due : Seq(Owner), heard : Seq(Owner)]

EventsTypeOK ==
    /\ listeners \in Seq(Owner) /\ capacity \in Nat
    /\ Len(listeners) <= capacity
    /\ id \in [Owner -> 0 .. EventIds - 1]
    /\ emits \in Seq(Emit) /\ Len(emits) <= MaxDepth
    /\ undefined \in BOOLEAN
    /\ subscribed \in Seq(Owner) /\ IsInjective(subscribed)

Listening(o) == o \in Range(subscribed)

-----------------------------------------------------------------------------

EventsInit ==
    /\ listeners = << >> /\ capacity = 0
    /\ id = [o \in Owner |-> 0]
    /\ emits = << >>
    /\ undefined = FALSE
    /\ subscribed = << >>

\* Client code runs outside every emit, or as the callback an emit has called.
Running == ~undefined /\ \A k \in DOMAIN emits : emits[k].heard # << >>

\* The running emits once their iterators are invalid.
Invalidated == [k \in DOMAIN emits |-> [emits[k] EXCEPT !.valid = FALSE]]

\* Wrong: the id is the number of listeners.
IdPastEnd == (Len(listeners) + 1) % EventIds

\* The id listen returns: the index of the new callback, cut to an EventId.
NewId == Len(listeners) % EventIds

\* Wrong: the vector gets exactly the room it needs and an element more.
MoveAlways(o) ==
    /\ listeners' = Append(listeners, o)
    /\ capacity' = Len(listeners) + 2
    /\ emits' = Invalidated

\* push_back: a vector that is full is moved, which invalidates every iterator;
\* otherwise the running emits go on and end where they would have.
PushCallback(o) ==
    LET full == Len(listeners) = capacity
    IN  /\ listeners' = Append(listeners, o)
        /\ capacity' = IF full THEN Max({1, 2 * capacity}) ELSE capacity
        /\ emits' = IF full THEN Invalidated ELSE emits

Listen(o) ==
    /\ Running /\ ~Listening(o)
    /\ PushCallback(o)
    /\ id' = [id EXCEPT ![o] = NewId]
    /\ subscribed' = Append(subscribed, o)
    /\ UNCHANGED undefined

\* What is stored at index n goes and the rest moves up.
Erased(n) == RemoveAt(listeners, n + 1)

\* unlisten: the end iterator of a running emit is invalid in any case; an
\* index that is not in the vector is undefined behaviour.
Unlisten(o) ==
    /\ Running /\ Listening(o)
    /\ IF id[o] < Len(listeners)
       THEN listeners' = Erased(id[o]) /\ emits' = Invalidated /\ UNCHANGED undefined
       ELSE undefined' = TRUE /\ UNCHANGED <<listeners, emits>>
    /\ subscribed' = RemoveAt(subscribed, CHOOSE i \in DOMAIN subscribed : subscribed[i] = o)
    /\ id' = [id EXCEPT ![o] = 0]
    /\ UNCHANGED capacity

BeginEmit ==
    /\ Running /\ Len(emits) < MaxDepth
    /\ emits' = Append(emits, [next |-> 0, end |-> Len(listeners), valid |-> TRUE,
                               due |-> subscribed, heard |-> << >>])
    /\ UNCHANGED <<listeners, capacity, id, undefined, subscribed>>

Innermost == Last(emits)

\* Wrong: the last listener is not called.
AtEndEarly == Innermost.next + 1 >= Innermost.end

AtEnd == Innermost.next = Innermost.end

\* Emit e with its next listener called.
Called(e) ==
    [e EXCEPT !.next = @ + 1, !.heard = Append(@, listeners[e.next + 1])]

\* The innermost emit goes on: it calls its next listener, whose callback then
\* runs until this emit, or one it begins, goes on again, or it returns.  Going
\* on with iterators that are not valid is undefined behaviour.
GoOn ==
    /\ emits # << >> /\ ~undefined
    /\ IF ~Innermost.valid
       THEN undefined' = TRUE /\ UNCHANGED emits
       ELSE /\ UNCHANGED undefined
            /\ emits' =
                 IF AtEnd THEN Front(emits)
                 ELSE [emits EXCEPT ![Len(emits)] = Called(@)]
    /\ UNCHANGED <<listeners, capacity, id, subscribed>>

EventsNext ==
    \/ \E o \in Owner : Listen(o) \/ Unlisten(o)
    \/ BeginEmit \/ GoOn

EventsSpec == EventsInit /\ [][EventsNext]_eventVars

-----------------------------------------------------------------------------
(* The discipline under which ids and iterators stay good *)

\* There is an id for every listener; a callback listens only where the vector
\* has room.
MayListen == Len(listeners) < EventIds /\ (emits = << >> \/ Len(listeners) < capacity)

\* The newest listener is the first to go, and outside every emit.
StackNext ==
    \/ \E o \in Owner :
          \/ MayListen /\ Listen(o)
          \/ emits = << >> /\ Listening(o) /\ o = Last(subscribed) /\ Unlisten(o)
    \/ BeginEmit \/ GoOn

StackSpec == EventsInit /\ [][StackNext]_eventVars

-----------------------------------------------------------------------------
(* Safety *)

\* The id an owner holds is the index of its own callback, so that unlisten
\* takes away what the owner asked for.
IdsNameTheirOwners ==
    \A o \in Owner : Listening(o) =>
        id[o] + 1 \in DOMAIN listeners /\ listeners[id[o] + 1] = o

\* Nobody is called after it has unlistened.
CallsSubscribed ==
    \A o \in Owner : \A k \in DOMAIN emits \cap DOMAIN emits' :
        emits'[k].heard = Append(emits[k].heard, o) => Listening(o)

OnlySubscribedCalled == [][CallsSubscribed]_eventVars

\* An emit that returns has called everyone who was listening when it began,
\* once each and in the order they began to listen, whatever its callbacks did.
ReturnsLast == Len(emits') < Len(emits) => Innermost.heard = Innermost.due

\* Nobody is called after it has unlistened, and an emit that returns has called
\* everyone who was listening when it began.
EmitsCallListeners == [][CallsSubscribed /\ ReturnsLast]_eventVars

\* No erase or loop of the registry uses an invalid iterator.
IteratorsStayValid == EventsTypeOK /\ ~undefined
=============================================================================
