-------------------------------- MODULE Hooks --------------------------------
(***************************************************************************)
(* Component hooks written by the client: EntityManager calls them in the  *)
(* middle of an operation, and they may create, change and destroy         *)
(* entities themselves.  One component, Hooked, has hooks; which ones is   *)
(* chosen at the start.                                                    *)
(***************************************************************************)
EXTENDS Operations, SequencesExt

CONSTANTS
    Hooked, Other,   \* a component with hooks and one without
    Capacities       \* those of the vector of entity records, 100000 at first in
                     \* the code and twice as much with every growth

HooksAssumption ==
    /\ Hooked \in Component /\ Other \in Component /\ Hooked # Other
    /\ Capacities \subseteq Nat

VARIABLE hooks   \* what ComponentRecord::onAdd, onSet and onRemove do

hookVars == <<opVars, hooks>>

\* A removal hook that removes or destroys again would not end.
OnRemove == {"none", "create", "addOther", "removeOther", "changeAnother"}
OnAddOrSet == OnRemove \cup {"removeSelf", "destroy"}

-----------------------------------------------------------------------------
(* What a hook does; an assertion it fails aborts *)

\* createEntity in a store.
CreateIn(st) ==
    LET new == st.free = << >>
        i == IF new THEN Len(st.rec) + 1 ELSE Last(st.free)
        entity == [index |-> i, generation |-> IF new THEN 0 ELSE st.rec[i].generation]
    IN  [st EXCEPT
            !.rec = IF new THEN Append(@, [type |-> RootType, row |-> 0, generation |-> 0])
                    ELSE Relocate(@, i, RootType, 0),
            !.free = IF new THEN @ ELSE Front(@),
            !.live = @ \cup {entity}]

RemoveOther(st, h) ==
    IF Other \in TypeIn(st, h) THEN MoveTo(st, h, TypeIn(st, h) \ {Other}) ELSE st

\* Some entity that is not h gets or loses Other.
ChangeAnother(st, h) ==
    LET others == st.live \ {h}
        p == CHOOSE q \in others : \A o \in others : q.index <= o.index
    IN  IF others = {} THEN st
        ELSE IF Other \in TypeIn(st, p) THEN RemoveOther(st, p) ELSE AddIn(st, p, Other)

\* The assertion of every operation passes; what follows a removal that went
\* wrong is not of interest.
Passes(st, h) == st.ok /\ st.steady /\ AliveIn(st, h)

\* What an onRemove hook may do with entity h.
Simple(st, h, action) ==
    IF ~Passes(st, h) THEN Abort(st)
    ELSE CASE action = "none" -> st
           [] action = "create" -> CreateIn(st)
           [] action = "addOther" -> AddIn(st, h, Other)
           [] action = "removeOther" -> RemoveOther(st, h)
           [] action = "changeAnother" -> ChangeAnother(st, h)

\* The entity records, the reserved one among them, are moved whenever they
\* outgrow a capacity, and what refers to one of them refers to memory that is
\* not in use.
Reallocated(st, after) ==
    \E n \in Capacities : Len(st.rec) < n /\ n <= Len(after.rec)

\* After a removal has run its hooks, its reference to the record of h is good
\* unless the records have moved; then what it writes to the record is lost.
Written(st, after, done, h) ==
    IF Reallocated(st, after)
    THEN [done EXCEPT !.rec[h.index].type = after.rec[h.index].type,
                      !.rec[h.index].row = after.rec[h.index].row,
                      !.steady = FALSE]
    ELSE done

\* removeComponent of Hooked.
RemoveHooked(st, h) ==
    LET after == Simple(st, h, hooks.onRemove)
    IN  IF ~Passes(st, h) THEN Abort(st)
        ELSE IF Hooked \notin TypeIn(st, h) THEN st
        ELSE Written(st, after, RemoveIn(st, after, h, Hooked), h)

\* destroyEntity.
DestroyHooked(st, h) ==
    LET after == IF Hooked \in TypeIn(st, h) THEN Simple(st, h, hooks.onRemove) ELSE st
    IN  IF ~Passes(st, h) THEN Abort(st)
        ELSE Written(st, after, RetireIn(st, after, h), h)

\* What an onAdd or onSet hook does with entity h.
Run(st, h, action) ==
    CASE action \in OnRemove -> Simple(st, h, action)
      [] action = "removeSelf" -> RemoveHooked(st, h)
      [] action = "destroy" -> DestroyHooked(st, h)

\* addComponent of Hooked: the hook is the last thing the migration does.
AddHooked(st, h) ==
    IF ~Passes(st, h) THEN Abort(st)
    ELSE IF Hooked \in TypeIn(st, h) THEN st
    ELSE Run(MoveTo(st, h, TypeIn(st, h) \cup {Hooked}), h, hooks.onAdd)

\* Wrong: the value is written where the entity was before its hooks ran.
SetFetched(st, h, v) ==
    LET set == IF Passes(st, h) THEN Run(st, h, hooks.onSet) ELSE Abort(st)
        added == AddHooked(set, h)
        row == RowIn(st, h) + 1
    IN  IF ~added.ok \/ Hooked \notin TypeIn(added, h) THEN Abort(added)
        ELSE [added EXCEPT !.rows[TypeIn(added, h)] = WriteCell(@, row, Hooked, v)]

\* setComponent: the value is written to the table and row the record gives
\* after all hooks.  A table without the component has no column to write to.
SetHooked(st, h, v) ==
    LET set == IF Passes(st, h) THEN Run(st, h, hooks.onSet) ELSE Abort(st)
        added == AddHooked(set, h)
    IN  IF ~added.ok \/ Hooked \notin TypeIn(added, h) THEN Abort(added)
        ELSE Put(added, h, Hooked, v)

-----------------------------------------------------------------------------
(* Operations of the client, under the discipline that makes hooks harmless *)

HooksInit ==
    /\ OpInit
    /\ hooks \in [onAdd : OnAddOrSet, onSet : OnAddOrSet, onRemove : OnRemove]

\* No hook that runs during a removal takes the entity elsewhere or makes the
\* entity records outgrow their room, no hook of a component that is being set
\* leaves the entity without it, and the limits of Storage are kept.
Disciplined(st) ==
    /\ st.ok /\ st.steady
    /\ Len(st.rec) <= MaxEntities
    /\ \A h \in st.dead : h.generation < Generations - 1
    /\ \A h \in live \cap st.dead : ~(TypeOf(h) = RootType /\ Listed(h))

\* An operation, the one client code calls with everything its hooks do.
ClientCall(st) == Disciplined(st) /\ Becomes(st)

AddCall(h) == ClientCall(AddHooked(Store, h))
SetCall(h, v) == ClientCall(SetHooked(Store, h, v))
RemoveCall(h) == ClientCall(RemoveHooked(Store, h))
DestroyCall(h) == ClientCall(DestroyHooked(Store, h))
ChangeOther(h) == ClientCall(AddIn(Store, h, Other)) \/ ClientCall(RemoveOther(Store, h))

HooksNext ==
    /\ \/ Create
       \/ \E h \in live :
            \/ AddCall(h) \/ RemoveCall(h) \/ DestroyCall(h) \/ ChangeOther(h)
            \/ \E v \in Value \ {Unspecified} : SetCall(h, v)
    /\ UNCHANGED hooks

HooksSpec == HooksInit /\ [][HooksNext]_hookVars

-----------------------------------------------------------------------------
(* Safety *)

ValueOf(h) == Contents(h)[Hooked]

\* An entity whose component was set has it, with the value it was given, and
\* what other entities have is as it was, whatever the hooks that ran on the way
\* have added, removed, created and moved.
SettingWins ==
    \A h \in live : \A v \in Value \ {Unspecified} : SetCall(h, v) =>
        /\ h \in live' /\ Hooked \in TypeOf(h)' /\ ValueOf(h)' = v
        /\ \A p \in live \ {h} : Hooked \in TypeOf(p) => ValueOf(p)' = ValueOf(p)

SetWins == [][SettingWins]_hookVars

\* After every operation the records, the rows, the free list and the handles
\* agree, although an operation and its hooks change them in turns.
StorageAgrees ==
    RecordsLocateRows /\ RowsLocateRecords /\ IndicesAccountedFor /\ DestroyedStayDead
=============================================================================
