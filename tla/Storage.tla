------------------------------- MODULE Storage -------------------------------
(***************************************************************************)
(* EntityRegistry, the archetype tables and the structural operations of   *)
(* EntityManager, for components without hooks (Relations adds hooks).     *)
(*                                                                         *)
(* An operation's debug assertion (ecs_assert_entity_alive) is its guard:  *)
(* with a failed assertion the program aborts.                             *)
(***************************************************************************)
EXTENDS Tables, FiniteSets

CONSTANTS
    MaxEntities,   \* entity indices are 1 .. MaxEntities (uint32_t in the code)
    Generations    \* number of generation values (2^16 in the code)

ASSUME StorageAssumption ==
    /\ MaxEntities \in Nat \ {0}
    /\ Generations \in Nat \ {0}
    /\ Value # {}

VARIABLES
    rec,     \* EntityRegistry::entities without the reserved element 0
    free,    \* EntityRegistry::availableEntities, a stack
    rows,    \* the rows of every table
    live,    \* history: handles returned by createEntity and not destroyed
    dead     \* history: handles that have been destroyed

vars == <<rec, free, rows, live, dead>>

Index == 1 .. MaxEntities
Handle == [index : Index, generation : 0 .. Generations - 1]
Record == [type : TableType, row : Nat, generation : 0 .. Generations - 1]
Row == [entity : Handle, value : UNION {[t -> Value] : t \in TableType}]

Allocated == 1 .. Len(rec)

TypeOK ==
    /\ rec \in Seq(Record) /\ Len(rec) <= MaxEntities
    /\ free \in Seq(Allocated)
    /\ rows \in [TableType -> Seq(Row)]
    /\ \A t \in TableType : \A j \in DOMAIN rows[t] :
          rows[t][j].value \in [t -> Value]
    /\ live \subseteq Handle
    /\ dead \subseteq Handle

-----------------------------------------------------------------------------
(* Reading an entity *)

HandleOf(i) == [index |-> i, generation |-> rec[i].generation]

\* EntityRegistry::isAlive
IsAlive(h) == h.index \in Allocated /\ rec[h.index].generation = h.generation

\* A client can only name a handle it was given; the assertion at the head of
\* every operation lets it through when the generations agree.
Usable(h) == h \in live \cup dead /\ IsAlive(h)

TypeOf(h) == rec[h.index].type
RowOfEntity(h) == rec[h.index].row

\* h is what its own record locates.
Listed(h) ==
    LET t == TypeOf(h) r == RowOfEntity(h)
    IN  r < Len(rows[t]) /\ rows[t][r + 1].entity = h

-----------------------------------------------------------------------------
(* Operations *)

Init ==
    /\ rec = << >>
    /\ free = << >>
    /\ rows = [t \in TableType |-> << >>]
    /\ live = {}
    /\ dead = {}

\* createEntity: the most recently freed index, else a new one.  The entity is
\* not put into table 0.
NewIndex ==
    /\ free = << >>
    /\ Len(rec) < MaxEntities
    /\ rec' = Append(rec, [type |-> RootType, row |-> 0, generation |-> 0])
    /\ live' = live \cup {[index |-> Len(rec) + 1, generation |-> 0]}
    /\ UNCHANGED <<free, rows, dead>>

\* Wrong: the recycled index stays on the stack.
RecycledWithoutPop ==
    /\ free # << >>
    /\ LET i == free[Len(free)]
       IN  /\ rec' = Relocate(rec, i, RootType, 0)
           /\ live' = live \cup {HandleOf(i)}
    /\ UNCHANGED <<free, rows, dead>>

RecycledIndex ==
    /\ free # << >>
    /\ LET i == free[Len(free)]
       IN  /\ rec' = Relocate(rec, i, RootType, 0)
           /\ live' = live \cup {HandleOf(i)}
    /\ free' = SubSeq(free, 1, Len(free) - 1)
    /\ UNCHANGED <<rows, dead>>

CreateEntity == NewIndex \/ RecycledIndex

\* Wrong: the generation is not incremented.
RetireKeepingGeneration(rc, i) == Relocate(rc, i, RootType, 0)

\* The record left behind by a destroyed entity: tid and row cleared, and
\* EntityRegistry::destroyEntity's generation increment.
Retire(rc, i) ==
    [rc EXCEPT ![i] = [type |-> RootType, row |-> 0,
                       generation |-> (@.generation + 1) % Generations]]

\* destroyEntity.  An entity of table 0 is not taken out of that table even
\* when it is listed there.
DestroyEntity(h) ==
    LET t == TypeOf(h)
        r == RowOfEntity(h)
        rec1 == IF t = RootType THEN rec ELSE FixSwapped(rec, rows, t, r)
    IN  /\ Usable(h)
        /\ rows' = IF t = RootType THEN rows ELSE RemoveRow(rows, t, r)
        /\ rec' = Retire(rec1, h.index)
        /\ free' = Append(free, h.index)
        /\ live' = live \ {h}
        /\ dead' = dead \cup {h}

\* A migration to table `to`; fresh is what the new column's row holds.
Migrate(h, to, fresh) ==
    LET from == TypeOf(h)
        r == RowOfEntity(h)
    IN  /\ \E old \in ValuesAt(rows, from, r) :
              rows' = MigrateRows(rows, h, from, to, r, Carried(old, from, to, fresh))
        /\ rec' = MigrateRec(rec, rows, h, from, to, r)
        /\ UNCHANGED <<free, live, dead>>

\* addComponent of a component the entity has returns early.
AddComponent(h, c, v) ==
    /\ Usable(h)
    /\ c \notin TypeOf(h)
    /\ Migrate(h, TypeOf(h) \cup {c}, [d \in {c} |-> v])

RemoveComponent(h, c) ==
    /\ Usable(h)
    /\ c \in TypeOf(h)
    /\ Migrate(h, TypeOf(h) \ {c}, << >>)

\* setComponent: addComponent, then memcpy at the row the record now gives.
WriteCell(s, j, c, v) ==
    [k \in 1 .. Len(s) |-> IF k = j THEN [s[k] EXCEPT !.value[c] = v] ELSE s[k]]

Overwrite(h, c, v) ==
    /\ c \in TypeOf(h)
    /\ rows' = [rows EXCEPT ![TypeOf(h)] = WriteCell(@, RowOfEntity(h) + 1, c, v)]
    /\ UNCHANGED <<rec, free, live, dead>>

SetComponent(h, c, v) ==
    /\ Usable(h)
    /\ \/ Overwrite(h, c, v)
       \/ c \notin TypeOf(h) /\ Migrate(h, TypeOf(h) \cup {c}, [d \in {c} |-> v])

Change(h) ==
    \E c \in Component :
        \/ RemoveComponent(h, c)
        \/ \E v \in Value : AddComponent(h, c, v) \/ SetComponent(h, c, v)

\* Every call the assertions let through.
Next ==
    \/ CreateEntity
    \/ \E h \in live \cup dead : DestroyEntity(h) \/ Change(h)

Spec == Init /\ [][Next]_vars

-----------------------------------------------------------------------------
(* The discipline under which the storage is correct *)

\* No entity that table 0 lists is destroyed, and no index is destroyed so
\* often that its generation wraps around.
ContractDestroy(h) ==
    /\ ~(TypeOf(h) = RootType /\ Listed(h))
    /\ h.generation < Generations - 1
    /\ DestroyEntity(h)

ContractNext ==
    \/ CreateEntity
    \/ \E h \in live \cup dead : ContractDestroy(h) \/ Change(h)

ContractSpec == Init /\ [][ContractNext]_vars

-----------------------------------------------------------------------------
(* Safety *)

\* An entity with components is listed where its record says.
RecordsLocateRows ==
    \A h \in live : TypeOf(h) # RootType => Listed(h)

\* A row belongs to a live entity whose record points back at it, so no entity
\* is listed twice.
RowsLocateRecords ==
    \A t \in TableType \ {RootType} : \A j \in DOMAIN rows[t] :
        LET h == rows[t][j].entity
        IN  h \in live /\ TypeOf(h) = t /\ RowOfEntity(h) = j - 1

\* Table 0 is only a partial list: what it lists is live and located there, an
\* entity it does not list has row 0, the row createEntity gave it.
RootRowsLocateRecords ==
    /\ \A j \in DOMAIN rows[RootType] :
          LET h == rows[RootType][j].entity
          IN  h \in live /\ TypeOf(h) = RootType /\ RowOfEntity(h) = j - 1
    /\ \A h \in live :
          TypeOf(h) = RootType /\ ~Listed(h) => RowOfEntity(h) = 0

\* Records and rows locate each other, in table 0 and in all others, whatever
\* adds, removals and destructions have moved rows about.
RecordsAgreeWithRows ==
    RecordsLocateRows /\ RowsLocateRecords /\ RootRowsLocateRecords

\* An index is either on the free stack, once, or held by exactly one live
\* handle, the one isAlive accepts.
IndicesAccountedFor ==
    /\ \A j, k \in DOMAIN free : free[j] = free[k] => j = k
    /\ \A i \in Allocated :
          (\E j \in DOMAIN free : free[j] = i) <=> HandleOf(i) \notin live
    /\ \A h \in live : IsAlive(h)

\* isAlive rejects every handle that was destroyed, however its index has been
\* reused since.
DestroyedStayDead == \A h \in dead : ~IsAlive(h)

-----------------------------------------------------------------------------
(* Refinement *)

\* The components of a live entity, as getComponent reads them.
Contents(h) == rows[TypeOf(h)][RowOfEntity(h) + 1].value

storeBar ==
    [h \in live |-> IF TypeOf(h) = RootType THEN << >> ELSE Contents(h)]

Abstract == INSTANCE EntityStore
                WITH store <- storeBar, used <- live \cup dead

\* The storage is a map from live handles to component values.
ImplementsStore == Abstract!Spec
=============================================================================
