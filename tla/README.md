# si-ecs: specification and verification

si-ecs is a single-threaded, archetype based entity component system in C++.
This directory models its core in TLA+, checks the models with TLC on small
instances and proves nearly every safety property the runs check for all
instances with TLAPS.
`PROJECT.json` lists, machine-readably, the components, the runs, the source
lines each definition stands for, the hazards and the theorems.

The repository has no written documentation. What the code is meant to do was
taken from its tests, its assertions and its comments; every definition is
translated from the code under `src/ecs`.

## 1. Inventory

A `World` owns an `EntityManager` (which is an `EntityRegistry`, a
`ComponentRegistry` and a `TableRegistry`), a `SystemRegistry`, a
`QueryRegistry`, two event registries, a `PluginRegistry` and a
`SingletonRegistry`. Everything runs in one thread; what makes the code hard is
re-entrancy (hooks, callbacks and nested builds that call back into structures
in use), cached derived state, and indices and pointers that outlive what they
pointed at.

| Part | State | Operations | Correct when |
|---|---|---|---|
| Entity registry (`core/entity/EntityRegistry.*`) | records (table id, row, generation, listeners id), stack of free indices | createEntity, destroyEntity, isAlive | an index has one owner; a destroyed handle never counts as alive again |
| Tables and migrations (`core/storage/Table.*`, `core/entity/EntityManager.*`) | per table: entity column, one column per component, count | add, set, remove component, destroy; each migrates a row and swap-removes another, through code compiled at run time | record and row locate each other; an operation on one entity never touches another one |
| Table map (`core/storage/TableMap.hpp`) | bucket array, tables | findOrCreate | one table per type, found again after every growth |
| Table registry, edges (`core/storage/TableRegistry.*`) | add and remove edge of every table per component, callbacks | findOrCreateTable, resolveAddEdge, resolveRemoveEdge | an edge leads to the right type for ever |
| Queries (`core/query/*`, `Query.hpp`) | table list of each cached query, table list of each component record | registerQuery, matchTable, runtime iteration | a query sees each matching table once, whichever came first |
| Relations (`core/relation/Relations.hpp`, hooks in `World.hpp`) | RelationTarget of a child, RelationSource (list) of a parent | relate, unrelate, destroy; hooks onSet and onRemove | target and list agree; hooks find what they look for |
| Commands (`command/Commands.cpp`, `core/memory/Allocator.*`) | four queues, one growing buffer of bytes | add, remove, set, kill, spawn, flush | a flush has one meaning whatever the order of issue; queued values stay intact |
| Systems and phases (`core/system/*`, `System.hpp`, `world/World.cpp`) | systems per phase, conditions | system, progress, run, start; commands are flushed after every phase | each system sees the world its phase promises; a loop over a query calls everyone who stays, once |
| Component registry (`core/component/*`) | record of each component, closure of its requirements, hooks | registerComponent; onAdd, onSet and onRemove | the closure is complete, circles are rejected; a hook may do what an operation does |
| Containers (`core/storage/EcsVec.hpp`, `SparseSet.hpp`, `TypedTable.hpp`) | blocks of plain data | push, erase, resize, copy, move, free; set, reset, lookup | a block has one owner; growth loses nothing |
| Entity types (`core/entity/EntityType.cpp`) | sorted array of component ids | withAdd, withRemove, findIndex | arrays behave as sets |
| Events (`core/event/EventRegistry.hpp`) | listeners of each event type | listen, unlisten, emit | who listens is called once, who unlistened is not |
| Entity events (`core/event/EntityEventRegistry.hpp`) | listeners per entity | listen | a recycled index has no listeners |
| Plugins (`core/plugin/PluginRegistry.hpp`) | last id built per world, process-wide id counter | registerPlugin, nested | each plugin is built once per world |
| Singletons, addons, scenes, JIT, reflection | see `PROJECT.json` | | |

How they interact: a structural operation asks the table registry for an edge,
which asks the table map for a table, which tells every cached query and every
component record of a table it creates; then a compiled migration moves the
row, and hooks run inside it. A hook may run further structural operations, on
the same entity, on others and on tables in use. So may the callback of a row in
a loop over a query. Systems run in
phases and issue commands; a flush turns them into structural operations.
Plugins register components, systems and other plugins from inside
`registerPlugin`; event callbacks may listen, unlisten and emit.

## 2. Modules

| Module | Models | Built on |
|---|---|---|
| `EntityStore` | the promise: live handles, each a map from its components to values | |
| `Tables` | pure row arithmetic: append, swap-remove, migration, record fix-up | |
| `Storage` | entity registry and structural operations; implements `EntityStore` | `Tables` |
| `StorageProofs` | theorems about `Storage`, refinement of `EntityStore` included | `Storage` |
| `Operations` | the operations of `Storage` as functions, for code that runs in their middle | `Storage` |
| `Relations` | relate, unrelate and destroy with their hooks | `Operations` |
| `RelationsProofs` | theorems about `Relations`, and lemmas about the operations | `Relations`, `StorageProofs` |
| `Hooks` | the hooks of a client's component | `Operations` |
| `Iteration` | loops over queries whose callbacks change the storage | `Relations` |
| `CallbacksProofs` | theorems about `Hooks` and `Iteration` | both, `RelationsProofs` |
| `TableMap` | open addressing with growth | |
| `Archetypes` | tables as a graph, component table lists, queries | `TableMap` |
| `ArchetypesProofs` | theorems about both | `Archetypes` |
| `QueryTerms` | the arrays of a query and what they match | |
| `EntityTypes` | sorted arrays and their two searches | |
| `Vectors` | `EcsVec` over a heap | |
| `SparseArrays` | `SparseValues` and `SparseIndices` | |
| `Commands` | queues, allocator, flush | instance of `EntityStore` |
| `CommandsProofs` | theorems about it | `Commands`, `SequenceFolds` |
| `Schedule` | systems, conditions, phases, the flush command by command | |
| `ScheduleProofs` | theorems about it | `Schedule` |
| `Events` | listeners, emits inside emits | |
| `SequenceFolds` | lemmas: induction over numbers, folds as chains of steps | |
| `EntityEvents` | listeners of single entities | `Storage` |
| `RequiredComponents` | closure and cycle check, on a registry record | |
| `Setup` | plugins and component registration of several worlds | `RequiredComponents` |
| `PartsProofs` | theorems about `EntityTypes`, `Vectors`, `SparseArrays`, `QueryTerms`, `Events`, `EntityEvents` and `Setup` | all of them, `StorageProofs`, `SequenceFolds` |

Each `MC...` module extends one of them for TLC, two of them several: `MCParts` and
`MCCallbacks` choose a *subject* at the start, one of the modules they extend. A
behaviour takes the steps of that module alone and leaves the variables of the others
as they were at first. Every subject is explored (in `MCCallbacks` within its
constraint `Few`), and the properties listed are those of the modules themselves, which
the theorems are about. An operator whose comment
begins with "Wrong:" is a plausible mistake in the code; `PROJECT.json` pairs it
with the definition it replaces and the property that catches it. No
specification uses one.

### Storage
`rec` is `EntityRegistry::entities` (element 0, which the code reserves, is left
out), `free` is `availableEntities`, `rows[t]` is the rows `0 .. count-1` of the
table of type `t`. A table is named by its type because the table map gives
each type one table (`Archetypes` checks this). `live` and `dead` are
history. The quirks of the code are kept: `createEntity` puts nobody into
table 0, removing the last component does, `destroyEntity` skips
`removeEntity` for table 0, generations are taken modulo `Generations` (65536 in
the code). A row read at or above `count` yields any value. Assertions guard
operations: a debug build aborts where a guard is false.

`ContractSpec` is the discipline under which the storage is correct: no entity
that table 0 lists is destroyed, and no index is destroyed so often that its
generation wraps. `Spec` is what the assertions let through.

### Operations
Hooks run in the middle of an operation, so `Relations`, `Hooks` and `Iteration` write
operations as functions from store to store, composed in program order from those of
this module. `RemoveIn(st, hooked, h, c)` shows the pattern: table and row of `h` are
read in `st`, the hook turns `st` into `hooked`, the rows then move with the numbers
that were read. `aborted` records a failed assertion or a read of a component that is
not there; `steady` tells that no hook moved the entity whose removal was under way;
`moves` lists who came to which table and who left it. The entity that leaves is the one in the
row that is taken away: a bare entity that table 0 does not list has row 0 in its record, and
takes the row of whoever is first there.

### Relations
`RelationSpec` lets parents die, `KeepParentsSpec` does not, and `CarefulSpec` moreover
removes a target only where the hook leaves the fetched row in place
(`UnrelateSteadily`). An entity may be made its own parent under `CarefulSpec`; then it
can neither leave itself (its row would move) nor be destroyed (it is a parent), but it
can be given another parent.

### Hooks
One component has hooks, chosen at the start: each does nothing, creates an entity, adds
or removes another component, changes another entity, and, where that ends, removes the
component or destroys the entity it was called for. `Written` is the case where a hook
makes the vector of records grow while a migration or a destruction holds a reference to one.
It grows at each of `Capacities`: the code reserves 100000 records, of which element 0 is one,
and the vector is reallocated again whenever it is full. `Disciplined` states what a client must
not do: let a removal hook move the entity or make the vector grow, let a hook of a component
that is being set take it away again.

### Iteration
A loop walks the tables that match, then the rows of each. A system is given the size of a
table when it comes to it, `eachRow` asks before every row. Its callback, and code outside,
change the storage with the operations of `Relations`; callbacks begin loops.
`Undisturbed` says which changes a loop survives: a system's table stays as it is; a runtime loop
finds rows added behind the present one, and does not mind losing entities it has not called;
nobody who was called goes where the loop will come to; the list of tables does not grow; and
the parent that `Related` gave to a callback stays. `due` is history: who was in a row of
a matching table when the loop began and was not touched since. A query without required
components is about every table that its excluded ones leave, and its loops walk the list of all
tables. Table 0 is one of them: entities that lost their last component are in its rows and
are called, entities that never had a component are in no row and are not.

### QueryTerms
The arrays of a query are sequences; the term limit guards. `Archetypes` and `Iteration` use a
query as two sets, which `QueryMeansTerms` justifies.

### Archetypes and TableMap
`hash` is an arbitrary function chosen at the start, so properties hold for every
hash; probing is the first position, cyclically, that stops it; `Searched` is
the bucket array after the growth that findOrCreate may begin with.
`FindOrCreateTable` includes its callbacks: component table lists and cached
queries (`Told`, `Visit`). Edges are resolved once and then cached. `Seeds` is a set because the
code takes the shortest list of a required component and ties may be broken
either way.

### Commands
The world is an instance of `EntityStore`, which `Storage` implements. A queued set
holds an address into the allocator; `realloc` may move the block, after which a
read yields any value. `AliveSpec`: commands name live entities, one kill per
entity and phase, nobody is destroyed at once while commands name it, and nobody is destroyed
that table 0 lists, which `Storage` would not do cleanly. A flush removes before it kills, so
that the last point is about both: `Emptied` is the entity that has lost its last component,
`EmptiedByFlush` the one that will have when the flush comes to the kills; `had` is history
for it, since table 0 does not list those that never had a component.
`ContractSpec`: moreover the allocator grows only while no queued set points into
it. Every flush applies adds, removes, sets and kills in this order: four folds over
the queues (`Added`, `Removed`, `Written`, `Killed`), beside which `FlushMeaning` says as a
statement about sets what the queues ask for.

### Schedule
`todo` holds the phases that `start` or `progress` has not finished, `turn` and
`loop` say where in the first of them the program is: at a system, or in one of
the four loops of the flush. `objects` holds every state object that
`initSingleton` has allocated; the last one is the singleton, and an `InState`
condition keeps the position it found when it was built. `issued` numbers the
commands since the last flush; what they do to entities is the subject of
`Commands`. A system's function assigns the singleton and issues at most one
command, so does a hook. The discipline: systems are registered and singletons
replaced only between frames, singletons only while no condition points at one, and a
hook issues only commands of the kinds flush has yet to come to (`StillToCome`).
`Interval` is left out: its check does not have the type a condition needs, so that
using it does not compile.

### Events
A running emit is a range-for with a next and an end position; listening in a full
vector and every unlisten make iterators invalid, and going on with them is
undefined (`undefined`, where the model stops). `StackSpec`: the newest listener
leaves first and outside every emit, callbacks listen only where there is room, and no more
listen than there are ids. An id has 16 bits in the code and is taken modulo `EventIds` here;
the listener after the last id would be given the first one's.

### Setup and RequiredComponents
A registry record holds what is registered, the closure stored in each record and
the size of the dense vector; reading a record beyond it is undefined and not
modelled further. Plugin ids come from the process, the mark of the last one
built is the world's. `InOrderSpec`: a world registers plugins in the order of
their ids and components after their requirements. What a component needs is defined apart
from the code's walk, as what every set has that has its direct requirements and is closed
(`Needed`). `SetupAssumption` supposes that no `required()` names a component twice: the
code would list it twice. (Records are all the engine does with requirements: no operation
adds the components they list.)

### EntityTypes
Arrays are sequences with 0-based positions; the halving search is a recursive
function with the loop's two bounds.

### EntityEvents
Extends `Storage`, whose records have no listenersId: it is a variable of its own, indexed
like `rec`, and survives destruction as in the code. A TypedTable is its dense array and its
words of bits. `EntityEventsNext` destroys no entity that ever listened and stays below the 16-bit
limit of table numbers; without the first, TLC finds a new entity with its predecessor's listeners.

### Vectors and SparseArrays
A heap of blocks that several vectors use; `realloc` may move a block or not. `kept` is how
often a vector was given each element and still has it. An element of the vector itself is pushed only
where there is room: otherwise its bytes are read from a freed block (`PushOwn`). A
SparseArray is its allocated array and the count of positions in use.

## 3. Runs

| Run | Result | Instance | What it shows |
|---|---|---|---|
| `storage` | passes, 60428 states | 3 entities, 2 components, 2 values, 3 generations | refinement of `EntityStore`; records and rows locate each other; indices; destroyed handles |
| `storage_bare_destroy` | violation | 4 entities, 1 component | destroying an entity that table 0 lists corrupts a later owner of its index |
| `relations_careful` | passes, 69749 states | 4 entities, target, source and a plain component, 1 destruction | links agree, hooks find their entities, records find rows |
| `relations_stale_row` | violation | 5 entities | the last child of a parent in the same table: a bystander's row is removed |
| `archetypes` | passes, 235648 states | 2 components (4 types), 2 hash values, 1 cached query of 3 | one table per type; edges; cached and runtime queries |
| `commands_contract` | passes, 455973 states | 2 handles, components of 8 and 24 bytes, 16 byte buffer, 3 commands a phase | values stay intact; meaning of a flush |
| `commands_moved_buffer` | violation | 1 handle | a set reads memory that realloc has moved |
| `schedule` | passes, 610971 states | 2 systems, 3 phases, 2 states, 2 singleton objects, 3 commands a phase | frames and flushes are complete; conditions; liveness |
| `callbacks` | passes, 593663 states | loops: 3 entities and 1 change, or 2 entities, 2 changes and nested loops; hooks: 3 entities, records that move with the first and the second | loops read rows that are there and call everyone who stays once; `Related`; the value set wins; records and rows agree after hooks |
| `parts` | passes, 107246 states | see below | containers, types, query terms, events, entity events, plugins and requirements |
| `events_shifted_ids` | violation | 3 listeners | unlisten removes somebody else's callback |
| `required_cycle` | violation | 3 components, 1 world | a component that requires itself is accepted |

Why the bounds are enough to be interesting:

* Storage: three rows in a table are needed for a swap-remove that moves an entity
  other than the one leaving and still leaves a bystander; each index is
  recycled twice; two components give migrations between tables that share a
  column, with a kept, a dropped and a fresh one. The four entities of
  `storage_bare_destroy` are what its counterexample needs.
* Relations: four entities allow two parents, a parent with two and three
  children, re-parenting, chains and cycles. `SmallFamilies` stops the search after a second
  destruction and a fifth entity: one index is recycled while two other entities are related in any way.
* Archetypes: all four types of two components collide or wrap around in an array of
  2, 4 and 8 buckets (hashes 0 and 7); one bit for all components makes the Bloom
  filter as weak as it can be.
* Commands: two small sets fill the initial buffer, a third makes it grow, a
  large one outgrows a doubled one. The allocator keeps its size over phases.
* Schedule: two systems in one phase show that one's condition leaves the other alone and
  sees what the other assigned; in two phases, that the order of phases holds; the third
  command leaves room for a hook beside two systems. `Startup`, `Update` and `Physics` are
  the phases in use, one of `start` and two of `progress`; the others are empty and run too.
* Loops: three entities put two in the table under way and one elsewhere, so that a swap, a row
  added behind the present one and a table still to come all occur; nested loops and a second
  change need two. One of the three queries has no required component. Any set of tables may exist before the first entity, except that `{target, pos}`
  is always new, so that lists grow.
* Hooks: three entities and capacities 1, 2 and 4 make the registry move its records with the
  first and again with the second entity, inside an operation; every choice of one hook of setting, and of a removal hook with what causes removals.
* Parts. Types: 8 components and threshold 3 put both searches on either side of it. Vectors: two
  vectors, two values, up to three elements, capacities to 6. Sparse arrays: ids 0, 1, 3, 4 and 9
  stand on both sides of capacities 4 and 8. Query terms: arrays of 3 terms over 4 ids, two of each
  sharing a Bloom bit. Events: four owners and three ids, of which the discipline lets every one be
  used, two nested emits, capacities 1, 2, 4. Entity events:
  three entities, two generations, event ids in two words of 2 bits, at most 2 tables. Setup: two
  worlds, three plugins of which two name each other, ids handed out in either world's order, every
  requirement list of three components with up to two entries.

`SYMMETRY` is used only in `parts`, for the owners of event listeners, who are compared with one
another and nothing else. `CONSTRAINT`s: `SmallFamilies` in `relations_careful`, `Few` in `callbacks`
(one destruction; three entities, the destroyed one included; no loop inside one over all tables; one of onSet and onAdd; onRemove beside another only where that one causes
removals), and in the violation runs `NoWrap` (no wrap-around) and `Forest` (no relation cycles), which
shorten the search. `CHECK_DEADLOCK FALSE`
stands where the system may really stop: all edges known and the query registered, all
plugins and components registered, arrays full, undefined behaviour reached.

Bounds named in the models: `MaxEntities`, `Generations`, `MaxQueries`, `MaxPending`,
`MaxDepth`, `MaxChanges`, `MaxSize`, `MaxSystems`, `MaxObjects`, `MaxCommands`, and `InvalidTableId`,
`MaxTerms`, `NoListeners`, `EventIds` and `Capacities`, which are constants of the code.

### What the violations say
The findings in `PROJECT.json` quote what each contradicts. More limits were met while
modelling and are recorded as hazards; each is what a discipline above excludes. Under
`RelationSpec` a parent may die before its child, whose hook then fails an assertion or reads
a recycled entity. Generations wrap after 65536 destructions of one index.
The 65537th listener of an event is given an id that is in use. A kill in the flush that
removes the last component leaves a row in table 0. The table id
assertion admits the id that marks an unused bucket. A recycled index inherits entity
listeners. `eachRow` misses the entity that is moved into a row already passed, calls
entities its callback adds, and does not end when every call adds one. `Related` keeps
a table and a row while the parent may leave them. A hook that removes the component
being set leaves setComponent nowhere to write.

So several hazards are covered in part only: the property says that nothing but the excluded
case goes wrong, and a change of the code in that case alone would not be noticed. The `note` of
a hazard in `PROJECT.json` names the discipline and the case.

### Fairness
`Schedule` states the one liveness property, `LastingStateRuns`, under the fairness that
`World::run` gives: it calls `progress` for ever (`SF_vars(Progress)`, strong because a
client may call `start` in between), and the program goes on from any point inside a frame
(`WF_vars(Step)`), which supposes that the functions of systems and hooks return. The other
specifications assume none: the program is single-threaded, every operation runs to its end
when called, and whether it is called is the client's choice. What must terminate inside an
operation is stated as safety there (`LookupsEnd`: a probe meets an unused bucket; `Close`
walks a list bounded by the components).

## 4. Proofs

Each theorem holds for every value of the constants that the module's named assumption
allows. The runs check the same formulas on their instances, and each of the invariants below
was checked there before it was proved. The theorems, with what each establishes:

| Module | Theorems |
|---|---|
| `StorageProofs` | `TypeCorrect` (of `Spec`); of `ContractSpec`: `RecordsAndRowsAgree`, `IndicesNeverShared`, `NoResurrection`, `StorageImplementsStore` |
| `RelationsProofs` | of `CarefulSpec`: `RelationsAgree`, `HooksAreSafe`, `HooksKeepRecords` |
| `ArchetypesProofs` | `ArchetypesInvariant` and, from it, `LookupsTerminate`, `LookupsAreExact`, `EdgesStaySound`, `CachesAreExact`, `RuntimeQueriesAreExact`, `ArchetypesTypeCorrect` |
| `CommandsProofs` | `CommandsTypeCorrect` (of `Spec`); of `ContractSpec`: `ContractInvariant`, `QueuedSetsIntact`, `FlushesSucceed`, `LastSetWins`, `FlushMeans` |
| `ScheduleProofs` | `ScheduleTypeCorrect`, `TurnsDecided`, `ScheduleInvariant`, `FlushesComplete`, `FramesAreComplete` |
| `CallbacksProofs` | of `LoopSpec`: `LoopsAreSafe`, `RelatedIsSafe`, `LoopsVisitEveryoneOnce`; of `HooksSpec`: `HooksLeaveStorageRight`, `SettingSurvivesHooks` |
| `PartsProofs` | of `StackSpec`: `EventsInvariant`, `IdsStayRight`, `IteratorsStayRight`, `EmitsCallRight`; `PluginsAreBuilt` and `RecordsAreClosures` of `InOrderSpec`, `LookupsAreRight` of `SparseSpec`, `QueriesMeanTerms` of `TermsSpec`, `ArraysAreRight` of `TypesSpec`, `BlocksHaveOwners` and `ContentsAreKept` of `VectorsSpec`, `ListenersAreTheirs` of `EntityEventsSpec` |

### Storage
The properties are not inductive one by one. That a swap-remove fixes the
right record needs that every row names a live entity whose record points back
(`RowsBacked`); that an operation's row exists needs that every live entity is placed
(`LivePlaced`); that records are per index while handles carry generations needs that an
index has one owner (`IndicesAccountedFor`); that the owner's handle is fresh after a
recycling needs that dead handles lie behind the record's generation (`DeadBehind`).
`IInv` is the conjunction of these with `TypeOK`. `MigrateEffect`, `DestroyEffect` and
`OverwriteEffect` state once what an operation does to rows and records;
`RowsAfterRemoval` and `OthersAfterRemoval` are the heart: after a swap-remove with its
record fix-up every remaining row and record still agree. `InvariantStep` has one case per
action.

The refinement rests on `IInv` before and after a step. `ValuesKept` says that an
entity whose row is found among the rows of its table, wherever it was moved, keeps its values;
`MigratedStore`, `OverwrittenStore`, `CreatedStore` and `DestroyedStore` give the step of
`EntityStore` for each kind of operation, and `StoreStep` collects them. That a created handle
was never used before comes from `DeadBehind`.

### Relations
The operations here are functions from store to store, so the lemmas speak of stores, and the
actions only at the end. `RelInv` has two halves. `Sound` is the storage's part: every row names a
live entity whose record points back, every live entity is placed, and the free stack holds the
indices nobody has. `Linked` is the relations' part, about the contents alone, where an entity
is a map from its components to values: every list names exactly the entity's children, none
twice, an entity without a list has no children, and every target is there. `LinksAgree` counts
the children, which `NamesCounted` derives.

`MoveYields`, `PutYields` and `RetireYields` say what a migration, a write and a
destruction do to rows, records and contents at once (`Yields`), in the form that lets the next operation of
the same hook start from it. In the middle of an operation `Linked` does not hold: the entity
is off its parent's list and still has its target. `Delisted` is that midpoint, which
`LeaveYields` establishes and the rest of the operation leaves by removing or overwriting the
target, or with the entity. Two things make the discipline matter in the proof.
`UnrelateSteadily` gives that the row number fetched before the hook is still the entity's
after it, which `UnrelateKeeps` needs for the migration that follows. That an entity which is
not a parent has no children (`Linked` again) is what `DestroyKeeps` needs: nobody is left with a
target that is gone.

### Archetypes
The hash function is any function and the number of buckets doubles as in the code, so a
lookup is right when the walk from the hash meets the table before an unused bucket.
`MapInv` says that some size `n` of the bucket array makes every table reachable in this way,
with at most half of the buckets in use, so that an unused one exists and every
walk ends (`Lookup`). A growth is a fold that inserts the tables again; by induction over it
(`Rehash!FoldLeftSteps`) each table inserted is reachable, and stays so. `GraphRight` says of
edges, component table lists and query lists what they mean in terms of the sequence of
types, as predicates over that sequence, so that a step which appends a type moves them from
the old sequence to the new.

Every theorem here has the hypothesis `TablesFit`: no more tables than `InvalidTableId`. The
assertion of `createAt` (`TableMap.hpp:162`) lets through one table more, whose id is the
mark of an unused bucket. `InitialBuckets > 1` is assumed because the only bucket of an array
of one would be full at once, and a lookup never end; the code starts with 16.

### Commands
`ContractInv` adds to `TypeOK` that commands name live entities, that no entity is killed twice,
and that each queued set is `Stored`: its bytes lie in the allocator's present block, where its
pointer points. Then a flush applies folds over queues of any length, and `FlushMeans` compares
the world after them with a statement about sets: by induction along each fold, an entity that
`k` commands have been applied to has the components those commands say, and the
values of the last set for each. The theorems need of the discipline that nobody dies twice; that
nobody dies whom table 0 lists is what makes `EntityStore` the right world for them
(`StorageImplementsStore` is under the same condition).

### Schedule
`ScheduleInv` says that the commands in the four queues are those issued since the last
flush, each once (`QueuedOnce`), and that what was executed is the queues' contents one after
the other up to where the flush is (`ExecutedInOrder`); hooks append only to queues still
to come (`StillToCome`), so nothing executed is missed and nothing missed executed.
`TurnsDecided` needs `PointersFresh`: no condition points at an object that was replaced.
`FramesAreComplete` speaks of the *places* of a frame, a phase called and a system of it.
`InOrder` says of every moment of a frame that who ran had its turn (`Past`), that whoever had
its turn and has no conditions ran, and that all ran once and in the order of places. It needs
that ids are given to one system each (`Numbered`) and that a flush begins when
its phase is through; when the last phase ends, every place is past.
The theorems are of `Spec` with its fairness, which they do not use.

### Loops
`LoopInv` adds to `RelInv` that every running loop is where it should be (`LoopAt`): it has
called whoever is in the rows it passed, nobody it called is in a row or table still to
come, and whoever is due was called or is to come. The loop sees the storage only as rows of
tables, so the proof does, too: an operation is a sequence of *moves* of entities between
tables (`MoveMade`), a table is joined at its end or left with the last row swapped in, and
one move that does not disturb a loop (`Undisturbed`) keeps `LoopAt`. Table 0 is a table
like any other here; who leaves it is the entity in the row, not the one the operation is about. That an operation,
the hooks of a relation included, does nothing but the moves it recorded is shown along
its program order. `Related` is a part of `LoopAt`: no move takes the parent away,
and none that is left swaps another into its row. `LoopsVisitEveryoneOnce` is an action
property, about a loop's call and its end, from the same invariant.

### Hooks
A hook runs an operation in the middle of another, so the lemmas are again about functions
from store to store: `Kept` (the storage's invariant), `Spares` (others keep what they
have of the component), `Serves` (both, and at most the entity itself is gone). The limits of
the discipline (`Bounded`: at most `MaxEntities` records, no wrap-around, no removal that went
wrong, which a growth of the records during one is, at whichever of `Capacities`) are
known only when a call is over, while lemmas need them at every point of it. As no call
shrinks what is counted, what is bounded after a call was so before it (`Grows`), and the
limits are carried backwards through the program before `Kept` is carried forwards.
`SetWins` needs no more: `Serves` for the hooks that run before the value is written, and
`Spares` for others.

### Parts
* Events. `EventsInv` says that the vector holds who is subscribed, that an id is the
  position of its owner's callback (which the limit on listeners keeps below `EventIds`, so
  that nothing is cut off: `SmallUncut`), and of each emit under way that it goes on over what the
  vector held when it began, up to where it has come (`Going`).
* Plugins. `Ordered`: a world has built the plugins whose ids are up to its count, and no
  others. A build only adds, and the ids that other worlds hand out meanwhile are larger.
* Required components. A record is right because those of the components it names are
  (`Recorded`). `CloseCloses` says of the walk alone that it yields the least list closed under
  the records: what is behind the walk's position has been followed (`Walked`), and as the list
  names nothing twice it ends before the positions do (`ListedLength`). That the
  records are closures in turn makes it the closure of what the components say themselves
  (`RecordIsRight`).
* Sparse arrays. `SparseInv` bounds the count by the capacity. The new capacity is the least of
  the doublings of the old one that has room; that there is one is an induction
  (`DoublingExists`, `DoubledGrows`).
* Terms. The arrays hold what was asked for and the filter its bits (`TermsInv`); a term list
  is a fold, for which `SequenceFolds` gives the chain of steps.
* Entity types. `TypeArray` is an ascending array of components. `withAdd` inserts where the
  first larger one is. The halving search is a recursive function, of which nothing is known
  until a function with that equation exists: `LowerExists` gives one, the first position in
  each part of the array (`FirstOf`), and `LowerIsFirst` shows by induction over the
  length of the part that any function with the equation is that one. An element of an
  ascending array is at least its position (`PositionBelow`), so no position is `NotFound`.
* Vectors. `Owned` is ownership as a predicate over fields and a heap, which moves it through
  the steps of one operation: a block is given back, a new one given, one taken over
  (`GivenBack`, `Given`, `TakenOver`). A new block exists by counting: there is one
  more than there are vectors, of which `VectorsAssumption` has finitely many (`BlockLeft`). Contents are compared by how often each element
  occurs; lemmas `Count...` say what appending, replacing, dropping and filling do to that.
* Listeners. `ListenersInv` adds to `IInv` of the storage that each table is that of one index
  and that a live entity has that index (`TablesHeld`). A recycled index is that of no
  live entity, so it has no table. An event type is found by word and bit: equal quotients
  and remainders are equal numbers (`BitIsEvent`).

### Induction
The library's induction theorems take a predicate as a parameter, which the provers cannot
instantiate. `SequenceFolds` proves `SetInduction` and `UpTo`, which take the set of numbers that
have the property, and `FoldLeftSteps`: the result of a fold is the end of a chain of
steps, one per element, from which what a fold does is proved by `UpTo`. The folds'
operator is a constant of the module, and the proofs instantiate it once per operator.

### What is only model-checked
* Liveness: `LastingStateRuns`.
* That the wider disciplines go wrong: the violation runs, such as `relations_stale_row` for
  `KeepParentsSpec`, show it on an instance each.

## 5. Not modelled, and why

* `emit` on an entity and `listen` for all entities do not compile when used, `unlisten` of an
  entity is empty; `Interval` does not have the type a condition needs.
* Scenes: `Engine` has a private constructor nobody calls.
* The JIT compiler itself (what its output does is in `Tables`), reflection, entity
  references, fromTable and fromWorld parameters: no state that could be wrong.
* Callbacks of systems that register systems or queries: the vectors they move are the ones
  under iteration, the behaviour is undefined from there on. Commands of a kind the flush
  has passed, issued by a hook: appended to a vector that is being iterated.
* `EcsVec(capacity, value)` fills its block but leaves size 0; nothing uses it. Vectors of empty
  types store nothing.
* Loops whose callbacks add matching entities for ever are cut off by `MaxChanges`.
* Examples, benchmarks, allocation failure, memory layout and formatting.

## 6. Plan

Done, in this order: storage with its proofs, as the part everything else relies on;
relations, archetypes, commands, the schedule and the registries; then what client code does in the
middle of operations (`Hooks`, `Iteration`), entity events, and the containers.

Next, modelling: deferred relates, whose hooks run in a flush; two relations at once.

Proved, in this order: `Storage`, with its refinement of `EntityStore`; `Commands`; `Events`;
`Schedule`; `Archetypes` with `TableMap`; `Relations`; `Iteration`; `Hooks`; the parts.

Of what the passing runs check, liveness alone is left without a proof.
