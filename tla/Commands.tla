------------------------------- MODULE Commands -------------------------------
(***************************************************************************)
(* Deferred commands: the four queues of class Commands, the TempAllocator *)
(* that holds the bytes of queued sets, and the flush at the end of a      *)
(* phase.  The world the commands act on is the abstract EntityStore,      *)
(* which module Storage implements for clients that destroy no entity that *)
(* table 0 lists; systems also act on it directly while commands are       *)
(* queued.  No hook issues commands during a flush.                        *)
(***************************************************************************)
EXTENDS Naturals, SequencesExt

CONSTANTS
    Handle, Component, Value,   \* as in EntityStore
    Unspecified,       \* what an added component holds until it is written
    Size,              \* bytes of each component
    InitialCapacity,   \* bytes the allocator starts with (16 in the code)
    MaxPending         \* bound on the commands queued in one phase

ASSUME CommandsAssumption ==
    /\ Unspecified \in Value
    /\ Size \in [Component -> Nat \ {0}]
    /\ InitialCapacity \in Nat

VARIABLES
    store, used,                  \* the world
    had,                          \* history: entities that have had a component
    adds, removes, sets, kills,   \* the queues
    buffer,                       \* the TempAllocator
    aborted                       \* an assertion failed during a flush

vars == <<store, used, had, adds, removes, sets, kills, buffer, aborted>>

World == INSTANCE EntityStore

Address == [block : Nat, offset : Nat]
CommandOn == [entity : Handle, cid : Component]
\* given is history: the value the client passed.
CommandSet == [entity : Handle, cid : Component, value : Address, given : Value]

Allocator == [block : Nat, capacity : Nat, data : Seq(Value)]

TypeOK ==
    /\ World!TypeOK
    /\ had \subseteq Handle
    /\ adds \in Seq(CommandOn) /\ removes \in Seq(CommandOn)
    /\ sets \in Seq(CommandSet) /\ kills \in Seq(Handle)
    /\ buffer \in Allocator /\ Len(buffer.data) <= buffer.capacity
    /\ aborted \in BOOLEAN

-----------------------------------------------------------------------------
(* TempAllocator.  A byte is represented by the value it is part of; data    *)
(* holds the bytes between `data` and `current`.  block tells apart the      *)
(* memory blocks realloc has returned.                                       *)

AvailableSize == buffer.capacity - Len(buffer.data)

Bytes(c, v) == [i \in 1 .. Size[c] |-> v]

\* realloc to a larger capacity may leave the block where it is or move it.
Grown(size) ==
    {[buffer EXCEPT !.block = b,
                    !.capacity = Max({2 * @, Len(buffer.data) + size})] :
        b \in {buffer.block, buffer.block + 1}}

\* Wrong: the buffer grows only when it is full.
RoomyWhenFull(size) == IF AvailableSize = 0 THEN Grown(size) ELSE {buffer}

\* The allocator once there is room for size more bytes.
Roomy(size) == IF AvailableSize < size THEN Grown(size) ELSE {buffer}

\* release forgets the bytes and keeps the block.
Released == [buffer EXCEPT !.data = << >>]

\* What the flush may read through the pointer of a queued set: a block that
\* was moved holds anything.
Pointed(cmd) ==
    LET at == cmd.value
    IN  IF at.block = buffer.block /\ at.offset + Size[cmd.cid] <= Len(buffer.data)
        THEN {buffer.data[at.offset + i] : i \in 1 .. Size[cmd.cid]}
        ELSE Value

-----------------------------------------------------------------------------
(* Issuing commands *)

Pending == Len(adds) + Len(removes) + Len(sets) + Len(kills)

Issue == ~aborted /\ Pending < MaxPending

Init ==
    /\ World!Init
    /\ had = {}
    /\ adds = << >> /\ removes = << >> /\ sets = << >> /\ kills = << >>
    /\ buffer = [block |-> 0, capacity |-> InitialCapacity, data |-> << >>]
    /\ aborted = FALSE

QueueAdd(h, c) ==
    /\ Issue
    /\ adds' = Append(adds, [entity |-> h, cid |-> c])
    /\ UNCHANGED <<store, used, had, removes, sets, kills, buffer, aborted>>

QueueRemove(h, c) ==
    /\ Issue
    /\ removes' = Append(removes, [entity |-> h, cid |-> c])
    /\ UNCHANGED <<store, used, had, adds, sets, kills, buffer, aborted>>

\* Wrong: the pointer is taken after `current` has been advanced.
SetPointingPast(h, c, v) ==
    /\ Issue
    /\ \E b \in Roomy(Size[c]) :
          /\ buffer' = [b EXCEPT !.data = @ \o Bytes(c, v)]
          /\ sets' = Append(sets,
                [entity |-> h, cid |-> c, given |-> v,
                 value |-> [block |-> b.block, offset |-> Len(b.data) + Size[c]]])
    /\ UNCHANGED <<store, used, had, adds, removes, kills, aborted>>

\* The value is copied into the buffer at once.
QueueSet(h, c, v) ==
    /\ Issue
    /\ \E b \in Roomy(Size[c]) :
          /\ buffer' = [b EXCEPT !.data = @ \o Bytes(c, v)]
          /\ sets' = Append(sets,
                [entity |-> h, cid |-> c, given |-> v,
                 value |-> [block |-> b.block, offset |-> Len(b.data)]])
    /\ UNCHANGED <<store, used, had, adds, removes, kills, aborted>>

QueueKill(h) ==
    /\ Issue
    /\ kills' = Append(kills, h)
    /\ UNCHANGED <<store, used, had, adds, removes, sets, buffer, aborted>>

-----------------------------------------------------------------------------
(* Flushing.  The world operations fail their assertion on a dead entity.    *)

WorldState == [store |-> store, ok |-> TRUE]

Guarded(w, h, after) ==
    IF w.ok /\ h \in DOMAIN w.store THEN [store |-> after, ok |-> TRUE]
    ELSE [store |-> w.store, ok |-> FALSE]

Bind(s, h, c, v) ==
    [s EXCEPT ![h] = [d \in DOMAIN @ \cup {c} |-> IF d = c THEN v ELSE @[d]]]

Restricted(f, S) == [x \in S |-> f[x]]

\* Wrong: an add resets a component that is there.
AddResetting(w, cmd) ==
    Guarded(w, cmd.entity, Bind(w.store, cmd.entity, cmd.cid, Unspecified))

\* addComponent and removeComponent return early when there is nothing to do.
ApplyAdd(w, cmd) ==
    LET h == cmd.entity s == w.store
    IN  Guarded(w, h, IF cmd.cid \in DOMAIN s[h] THEN s
                      ELSE Bind(s, h, cmd.cid, Unspecified))

ApplyRemove(w, cmd) ==
    LET h == cmd.entity s == w.store
    IN  Guarded(w, h, [s EXCEPT ![h] = Restricted(@, DOMAIN @ \ {cmd.cid})])

ApplySet(w, cmd) ==
    Guarded(w, cmd.entity, Bind(w.store, cmd.entity, cmd.cid, cmd.read))

\* destroyEntity, for an entity that table 0 does not list (see Emptied).
ApplyKill(w, h) ==
    Guarded(w, h, Restricted(w.store, DOMAIN w.store \ {h}))

\* The queued sets with the bytes the flush finds behind their pointers.
SetsRead ==
    {[j \in DOMAIN sets |->
        [entity |-> sets[j].entity, cid |-> sets[j].cid, read |-> found[j]]] :
        found \in {f \in [DOMAIN sets -> Value] :
                     \A j \in DOMAIN sets : f[j] \in Pointed(sets[j])}}

\* One loop of the flush each.
Added(w) == FoldLeft(ApplyAdd, w, adds)
Removed(w) == FoldLeft(ApplyRemove, w, removes)
Written(w, read) == FoldLeft(ApplySet, w, read)
Killed(w) == FoldLeft(ApplyKill, w, kills)

\* Wrong: the kills come first.
KillsFirst(read) == Written(Removed(Added(Killed(WorldState))), read)

\* Wrong: the removes come after the sets.
RemovesAfterSets(read) == Killed(Removed(Written(Added(WorldState), read)))

\* flush: the queues in this order, whatever order the commands were issued in.
Applied(read) == Killed(Written(Removed(Added(WorldState)), read))

\* The entities the flush gives a component.
Filled == {cmd.entity : cmd \in Range(adds) \cup Range(sets)}

Flush ==
    /\ ~aborted
    /\ \E read \in SetsRead :
          LET w == Applied(read)
          IN  IF w.ok
              THEN /\ store' = w.store
                   /\ adds' = << >> /\ removes' = << >>
                   /\ sets' = << >> /\ kills' = << >>
                   /\ buffer' = Released
                   /\ had' = had \cup Filled
                   /\ UNCHANGED aborted
              ELSE /\ aborted' = TRUE
                   /\ UNCHANGED <<store, had, adds, removes, sets, kills, buffer>>
    /\ UNCHANGED used

-----------------------------------------------------------------------------
(* What systems do to the world at once; Commands::spawn is such a Create.   *)

Direct(h) ==
    /\ ~aborted
    /\ \/ World!Create(h)
       \/ World!Destroy(h)
       \/ \E c \in Component :
             \/ World!Remove(h, c)
             \/ World!Add(h, c, Unspecified)
             \/ \E v \in Value : World!Set(h, c, v)
    /\ had' = had \cup {x \in World!Live' : DOMAIN store'[x] # {}}
    /\ UNCHANGED <<adds, removes, sets, kills, buffer, aborted>>

Command(h) ==
    \E c \in Component :
        \/ QueueAdd(h, c)
        \/ QueueRemove(h, c)
        \/ \E v \in Value : QueueSet(h, c, v)

\* Commands name entities that were created.
Next ==
    \/ Flush
    \/ \E h \in Handle : Direct(h)
    \/ \E h \in used : Command(h) \/ QueueKill(h)

Spec == Init /\ [][Next]_vars

-----------------------------------------------------------------------------
(* The discipline under which deferred commands are correct *)

Named(h) ==
    \/ \E cmd \in Range(adds) \cup Range(removes) \cup Range(sets) : cmd.entity = h
    \/ h \in Range(kills)

SetsOf(h, c) == {j \in DOMAIN sets : sets[j].entity = h /\ sets[j].cid = c}
In(queue, h, c) == [entity |-> h, cid |-> c] \in Range(queue)

\* An entity that has lost its last component is listed in table 0, where
\* destroyEntity would leave its row behind.
Emptied(h) == h \in World!Live \cap had /\ DOMAIN store[h] = {}

\* h is such an entity when the flush comes to the kills: no set gives it a
\* component, and each that it has or an add gives is removed.
EmptiedByFlush(h) ==
    /\ h \in had \cup Filled
    /\ \A c \in Component :
          /\ SetsOf(h, c) = {}
          /\ h \in World!Live /\ c \in DOMAIN store[h] => In(removes, h, c)
          /\ In(adds, h, c) => In(removes, h, c)

\* Commands name live entities, an entity is killed once in a phase, no entity
\* is destroyed at once while commands name it, and none that table 0 lists is
\* destroyed, at once or by a flush.
AliveNext ==
    \/ Flush /\ \A h \in Range(kills) : ~EmptiedByFlush(h)
    \/ \E h \in Handle : Direct(h) /\ (Named(h) \/ Emptied(h) => h \in World!Live')
    \/ \E h \in World!Live : Command(h) \/ (h \notin Range(kills) /\ QueueKill(h))

AliveSpec == Init /\ [][AliveNext]_vars

\* The allocator grows only while no queued set points into it.
ContractNext ==
    AliveNext /\ (buffer'.capacity # buffer.capacity => sets = << >>)

ContractSpec == Init /\ [][ContractNext]_vars

-----------------------------------------------------------------------------
(* Safety *)

\* Until the flush, every queued set points at the bytes it was given.
PendingValuesIntact ==
    \A j \in DOMAIN sets : Pointed(sets[j]) = {sets[j].given}

\* The flush finds every entity it is told to change.
FlushNeverAborts == ~aborted

\* A flush empties the queues and the buffer.
Flushed == Pending > 0 /\ Pending' = 0

\* An entity not killed has the value that the last set of the phase gave a
\* component.
DeferredSetCopies ==
    [][Flushed =>
        \A h \in World!Live \ Range(kills), c \in Component :
            SetsOf(h, c) # {} =>
                /\ c \in DOMAIN store'[h]
                /\ store'[h][c] = sets[Max(SetsOf(h, c))].given]_vars

\* What a phase's commands mean, in whatever order they were issued: kill
\* beats set, set beats remove, remove beats add, an add leaves a present
\* component alone, and what no command names is as it was.
FlushMeaning ==
    [][Flushed =>
        /\ World!Live' = World!Live \ Range(kills)
        /\ \A h \in World!Live', c \in Component :
              SetsOf(h, c) = {} =>
                 /\ c \in DOMAIN store'[h] <=>
                       /\ ~In(removes, h, c)
                       /\ In(adds, h, c) \/ c \in DOMAIN store[h]
                 /\ c \in DOMAIN store'[h] \cap DOMAIN store[h] =>
                       store'[h][c] = store[h][c]]_vars
=============================================================================
