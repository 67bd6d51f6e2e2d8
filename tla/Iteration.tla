------------------------------ MODULE Iteration ------------------------------
(***************************************************************************)
(* Loops over the entities of a query: the callback of a system built with *)
(* each<..>, which goes through the table list of a cached query, and      *)
(* RuntimeQuery::eachRow.  The callback of a row may itself change the     *)
(* storage and begin loops; Related, a parameter of a system, takes the    *)
(* callback to the parent of the entity.                                   *)
(*                                                                         *)
(* Module Archetypes shows that either kind of loop gets the tables that   *)
(* match; their order is of no importance here.                            *)
(***************************************************************************)
EXTENDS Relations, SequencesExt

CONSTANTS
    Query,      \* the [with, without] terms that loops are run for
    Existing,   \* the types with a table at the start, left by entities long gone
    MaxDepth,   \* bound on loops inside loops
    MaxChanges, \* bound on changes to the storage during a loop
    None        \* the table before the first one, the parent without Related

IterationAssumption ==
    /\ Query \subseteq [with : SUBSET Component, without : SUBSET Component]
    /\ Existing \subseteq TableType /\ RootType \in Existing
    /\ MaxDepth \in Nat /\ MaxChanges \in Nat
    /\ \A t \in TableType : None # t

VARIABLES
    tables,   \* the types that have a table
    loops,    \* the running loops, innermost last
    changes   \* the changes since the outermost loop began

loopVars == <<opVars, tables, loops, changes>>

\* A loop has a kind, a query, the tables it has yet to come to (todo), the table
\* it is in, the size it was told that table has, how many of its rows it has
\* called (row) and the parent it gave to the last one.  Two fields are history:
\* visited, the entities called so far, and due, those that were in the rows at
\* the begin and have not been moved.

-----------------------------------------------------------------------------
(* Loops *)

LoopInit == OpInit /\ tables = Existing /\ loops = << >> /\ changes = 0

Matches(q, t) == q.with \subseteq t /\ q.without \cap t = {}

\* The tables a loop for q goes through.  A query without required components goes
\* through all of them, table 0 included, which lists the entities that have lost
\* their last component but not those that never had one.
ToVisit(q) == {t \in tables : Matches(q, t)}

\* Client code runs outside every loop, or as the callback of a row.
Running == \A k \in DOMAIN loops : loops[k].row > 0

BeginLoop(kind, q) ==
    /\ Running /\ Len(loops) < MaxDepth
    /\ loops' = Append(loops,
          [kind |-> kind, query |-> q, todo |-> ToVisit(q),
           table |-> None, size |-> 0, row |-> 0, parent |-> None,
           visited |-> {}, due |-> {h \in live : TypeOf(h) \in ToVisit(q) /\ Listed(h)}])
    /\ UNCHANGED <<opVars, tables, changes>>

Innermost == Last(loops)

\* Wrong: a runtime loop knows the size its table had when it came to it.
SizeThen(l) == l.size

\* runRows is given the size of its table, eachRow asks for it row by row.
Size(l) == IF l.kind = "system" \/ l.table = None THEN l.size ELSE Len(rows[l.table])

EndOfTable == Innermost.row >= Size(Innermost)

\* Wrong: the last row is left out.
SizeShort(t) == IF rows[t] = << >> THEN 0 ELSE Len(rows[t]) - 1

SizeFound(t) == Len(rows[t])

NextTable ==
    /\ loops # << >> /\ EndOfTable
    /\ \E t \in Innermost.todo :
          loops' = [loops EXCEPT ![Len(loops)] =
                       [Innermost EXCEPT !.todo = @ \ {t}, !.table = t, !.parent = None,
                                         !.size = SizeFound(t), !.row = 0]]
    /\ UNCHANGED <<opVars, tables, changes>>

\* Wrong: the row of the child is looked up in the table of the parent.
RelatedBeside(t, r) ==
    LET p == rows[t][r].value[RelationTarget]
    IN  [entity |-> p, table |-> rec[p.index].type, row |-> r - 1]

\* Related::fromRow: the table and the row of the target, which it does not ask
\* to be alive.
RelatedOf(t, r) ==
    LET p == rows[t][r].value[RelationTarget]
    IN  [entity |-> p, table |-> rec[p.index].type, row |-> rec[p.index].row]

\* The next row is read and its callback runs.
CallRow ==
    /\ loops # << >> /\ ~EndOfTable
    /\ LET l == Innermost
           r == l.row + 1
       IN  loops' = [loops EXCEPT ![Len(loops)] =
              [l EXCEPT !.row = r,
                        !.visited = @ \cup {rows[l.table][r].entity},
                        !.parent = IF RelationTarget \in l.query.with
                                   THEN RelatedOf(l.table, r) ELSE None]]
    /\ UNCHANGED <<opVars, tables, changes>>

EndLoop ==
    /\ loops # << >> /\ EndOfTable /\ Innermost.todo = {}
    /\ loops' = Front(loops)
    /\ changes' = IF Len(loops) = 1 THEN 0 ELSE changes
    /\ UNCHANGED <<opVars, tables>>

-----------------------------------------------------------------------------
(* The discipline under which loops go on undisturbed *)

\* The parent a callback has been given stays in its row.
ParentStays(l, m) == l.parent # None /\ ~m.joins => m.table # l.parent.table

\* A table that is new while l goes through a list of tables does not belong on
\* the list.
ListStays(l, t) ==
    IF l.kind = "system" \/ l.query.with = {} THEN ~Matches(l.query, t)
    ELSE l.query.with \cap t = {}

\* The rows of the table under way that were called stay, and only a loop that
\* asks for its size finds rows added or taken away behind them; nobody who was
\* called is put where the loop will come to; the list of tables stays as it is.
Undisturbed(l, m) ==
    /\ m.table = l.table => l.kind = "runtime" /\ m.entity \notin l.visited
    /\ m.joins /\ m.entity \in l.visited => m.table \notin l.todo
    /\ m.joins /\ m.table \notin tables => ListStays(l, m.table)
    /\ ParentStays(l, m)

Harmless(st) ==
    \A l \in Range(loops), m \in Range(st.moves) : Undisturbed(l, m)

Counted ==
    /\ loops # << >> => changes < MaxChanges
    /\ changes' = IF loops = << >> THEN 0 ELSE changes + 1

\* What the callbacks and the code outside loops do to the storage.
Operation(st) ==
    /\ Running /\ Counted
    /\ st.steady /\ Harmless(st)
    /\ Becomes(st)
    /\ tables' = tables \cup {m.table : m \in Range(st.moves)}
    /\ loops' = [k \in DOMAIN loops |->
                    [loops[k] EXCEPT !.due = @ \ {m.entity : m \in Range(st.moves)}]]

ChangePlain(h) ==
    \E c \in Component \ {RelationTarget, RelationSource} :
        Operation(IF c \in TypeOf(h) THEN MoveTo(Store, h, TypeOf(h) \ {c})
                  ELSE AddIn(Store, h, c))

ChangeRelation(h) ==
    \E p \in live :
        \/ p # h /\ Operation(RelateIn(Store, h, p))
        \/ HasTarget(h, p) /\ Operation(RemoveTargetIn(Store, h))

MayDestroy(h) ==
    /\ ~IsParent(h) /\ h.generation < Generations - 1
    /\ ~(TypeOf(h) = RootType /\ Listed(h))

LoopNext ==
    \/ Running /\ Counted /\ Create /\ UNCHANGED <<tables, loops>>
    \/ \E h \in live :
          \/ ChangePlain(h) \/ ChangeRelation(h)
          \/ MayDestroy(h) /\ Operation(DestroyIn(Store, h))
    \/ \E kind \in {"system", "runtime"}, q \in Query : BeginLoop(kind, q)
    \/ NextTable \/ CallRow \/ EndLoop

LoopSpec == LoopInit /\ [][LoopNext]_loopVars

-----------------------------------------------------------------------------
(* Safety *)

\* No loop goes on to a row that is not there, though callbacks take rows away,
\* and the rows it has behind it are those of the entities it called.
LoopsReadLiveRows ==
    \A l \in Range(loops) : l.table # None =>
        /\ Size(l) <= Len(rows[l.table]) /\ l.row <= Len(rows[l.table])
        /\ \A k \in 1 .. l.row : rows[l.table][k].entity \in l.visited

\* While a callback runs, its Related is the row of the live entity that was the
\* target of the entity it was called for.
RelatedIsParent ==
    \A l \in Range(loops) : l.parent # None =>
        /\ l.parent.entity \in live
        /\ l.parent.row < Len(rows[l.parent.table])
        /\ rows[l.parent.table][l.parent.row + 1].entity = l.parent.entity

\* A loop calls entities that match, none twice, and before it ends everyone who
\* was in a row of a table that matched when it began and was left there since,
\* whatever its callbacks did to the others.
VisitsOnce ==
    /\ \A k \in DOMAIN loops \cap DOMAIN loops' :
          loops'[k].table # None /\ loops'[k].row > loops[k].row =>
              LET h == rows[loops[k].table][loops'[k].row].entity
              IN  h \notin loops[k].visited /\ Matches(loops[k].query, TypeOf(h))
    /\ Len(loops') < Len(loops) => Innermost.due \subseteq Innermost.visited

EveryoneVisitedOnce == [][VisitsOnce]_loopVars
=============================================================================
