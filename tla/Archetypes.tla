------------------------------ MODULE Archetypes ------------------------------
(***************************************************************************)
(* The tables as a graph: TableRegistry's tables with their add and remove *)
(* edges, the list of tables each component record keeps, and the cached   *)
(* queries that are told of every new table.  TableMap finds the table of  *)
(* a type.  What rows the tables hold is the subject of Storage.           *)
(***************************************************************************)
EXTENDS TableMap

CONSTANTS
    Component,        \* registered component ids, numbers
    BloomBits,        \* 64 in the code
    QueryTerms,       \* the [required, excluded] term sets that may be queried
    MaxQueries        \* bound on cached queries

ASSUME ArchetypesAssumption ==
    /\ Component \subseteq Nat
    /\ EntityType = SUBSET Component
    /\ BloomBits \in Nat \ {0}
    /\ QueryTerms \subseteq [required : SUBSET Component, excluded : SUBSET Component]

VARIABLES
    edges,             \* of each table: [add, remove], component -> table id
    componentTables,   \* ComponentRecord::tables of each component
    queries            \* QueryRegistry::queries

vars == <<mapVars, edges, componentTables, queries>>

Tid == 0 .. Len(types) - 1

TypeOK ==
    /\ types \in Seq(EntityType)
    /\ Len(edges) = Len(types)
    /\ \A j \in DOMAIN edges :
          edges[j] \in [add : [Component -> TableId],
                        remove : [Component -> TableId]]
    /\ componentTables \in [Component -> Seq(Tid)]
    /\ \A j \in DOMAIN queries :
          queries[j].terms \in QueryTerms /\ queries[j].tables \in Seq(Tid)

-----------------------------------------------------------------------------
(* Queries *)

\* Components that agree modulo BloomBits share a bit.
Bloom(cids) == {c % BloomBits : c \in cids}

\* Wrong: the Bloom filter decides alone.
MatchBloomOnly(terms, type) ==
    /\ Bloom(terms.required) \subseteq Bloom(type)
    /\ Bloom(terms.excluded) \cap Bloom(type) = {}

\* Query::matchTable
MatchTable(terms, type) ==
    /\ Bloom(terms.required) \subseteq Bloom(type)
    /\ terms.required \subseteq type
    /\ terms.excluded \cap type = {}

\* querySeedTables: the shortest table list of a required component.
Seeds(terms) ==
    IF terms.required = {} THEN {[j \in DOMAIN types |-> j - 1]}
    ELSE {componentTables[c] : c \in
            {d \in terms.required : \A e \in terms.required :
                Len(componentTables[d]) <= Len(componentTables[e])}}

\* A query comes across a table.
Told(query, tid, type) ==
    IF MatchTable(query.terms, type)
    THEN [query EXCEPT !.tables = Append(@, tid)] ELSE query

Visit(query, tid) == Told(query, tid, TypeOf(tid))

\* forEachMatchingTable, the table ids in the order they are visited: for a
\* cached query once, for a runtime query on every call.
Matching(terms) ==
    {FoldLeft(Visit, [terms |-> terms, tables |-> << >>], seed).tables :
        seed \in Seeds(terms)}

-----------------------------------------------------------------------------
(* Creating a table *)

\* Wrong: the edges of a new table have room for its own components only.
OwnEdgesOnly(e, tid) ==
    [add |-> [c \in e |-> tid], remove |-> [c \in e |-> InvalidTableId]]

\* A table of type e: adding what it has leads to itself.
OwnEdges(e, tid) ==
    [add |-> [c \in Component |-> IF c \in e THEN tid ELSE InvalidTableId],
     remove |-> [c \in Component |-> InvalidTableId]]

\* Wrong: a query is told only of the tables that have a required component.
InformedOfRequired(e, tid) ==
    [j \in DOMAIN queries |->
        IF queries[j].terms.required # {} THEN Told(queries[j], tid, e) ELSE queries[j]]

\* The onTableCreated callbacks, one per cached query.
Informed(e, tid) == [j \in DOMAIN queries |-> Told(queries[j], tid, e)]

\* findOrCreateTable, where tid is the table it returns; edges' is left to its
\* callers, which go on to set one.
FindOrCreateTable(e, tid) ==
    /\ FindOrCreate(e)
    /\ IF tid = Len(types)
       THEN /\ componentTables' =
                  [c \in Component |->
                      IF c \in e THEN Append(componentTables[c], tid)
                      ELSE componentTables[c]]
            /\ queries' = Informed(e, tid)
       ELSE UNCHANGED <<componentTables, queries>>

\* The edges of every table once that table exists.
EdgesWith(e, tid) ==
    IF tid = Len(types) THEN Append(edges, OwnEdges(e, tid)) ELSE edges

-----------------------------------------------------------------------------
(* Operations *)

\* TableRegistry creates table 0 at once.
Init ==
    /\ hash \in [EntityType -> HashValue]
    /\ types = <<{}>>
    /\ buckets = [EmptyBuckets(InitialBuckets) EXCEPT
                     ![hash[{}] % InitialBuckets] =
                        [tableId |-> 0, hash |-> hash[{}]]]
    /\ count = 1
    /\ edges = <<OwnEdges({}, 0)>>
    /\ componentTables = [c \in Component |-> << >>]
    /\ queries = << >>

\* resolveAddEdge for an entity of table `from`, whose edge is not known yet.
\* A known edge is used without further ado.
ResolveAddEdge(from, c) ==
    LET e == TypeOf(from) \cup {c}
        tid == Found(e)
    IN  /\ edges[from + 1].add[c] = InvalidTableId
        /\ FindOrCreateTable(e, tid)
        /\ edges' = [EdgesWith(e, tid) EXCEPT ![from + 1].add[c] = tid]

\* Wrong: the edge is set on the table that was reached.
EdgeOnTarget(from, c) ==
    LET e == TypeOf(from) \ {c}
        tid == Found(e)
    IN  /\ edges[from + 1].remove[c] = InvalidTableId
        /\ FindOrCreateTable(e, tid)
        /\ edges' = [EdgesWith(e, tid) EXCEPT ![tid + 1].remove[c] = from]

\* resolveRemoveEdge.  Removing what is not there leads back to `from`.
ResolveRemoveEdge(from, c) ==
    LET e == TypeOf(from) \ {c}
        tid == Found(e)
    IN  /\ edges[from + 1].remove[c] = InvalidTableId
        /\ FindOrCreateTable(e, tid)
        /\ edges' = [EdgesWith(e, tid) EXCEPT ![from + 1].remove[c] = tid]

\* registerQuery, at any time.
RegisterQuery(terms) ==
    /\ Len(queries) < MaxQueries
    /\ \E tables \in Matching(terms) :
          queries' = Append(queries, [terms |-> terms, tables |-> tables])
    /\ UNCHANGED <<mapVars, edges, componentTables>>

Next ==
    \/ \E from \in Tid, c \in Component :
          ResolveAddEdge(from, c) \/ ResolveRemoveEdge(from, c)
    \/ \E terms \in QueryTerms : RegisterQuery(terms)

Spec == Init /\ [][Next]_vars

-----------------------------------------------------------------------------
(* Safety *)

\* An edge leads to the table of the type that the add or the remove yields.
\* Migrations are compiled once per edge, so a wrong edge would be taken for
\* ever.
EdgesSound ==
    \A from \in Tid, c \in Component :
        LET to == edges[from + 1]
        IN  /\ to.add[c] # InvalidTableId =>
                  TypeOf(to.add[c]) = TypeOf(from) \cup {c}
            /\ to.remove[c] # InvalidTableId =>
                  TypeOf(to.remove[c]) = TypeOf(from) \ {c}

\* The tables a query is about.
Meant(terms) ==
    {tid \in Tid : /\ terms.required \subseteq TypeOf(tid)
                   /\ terms.excluded \cap TypeOf(tid) = {}}

\* The sequence has each of these table ids once, in the order of creation.
Lists(seq, tids) ==
    /\ Range(seq) = tids
    /\ \A j, k \in DOMAIN seq : j < k => seq[j] < seq[k]

\* A cached query knows each table it is about once, whether the table or the
\* query came first.
QueryCachesExact ==
    \A j \in DOMAIN queries : Lists(queries[j].tables, Meant(queries[j].terms))

\* So does a runtime query, whichever table list it starts from.
RuntimeQueriesExact ==
    \A terms \in QueryTerms : \A seq \in Matching(terms) : Lists(seq, Meant(terms))
=============================================================================
