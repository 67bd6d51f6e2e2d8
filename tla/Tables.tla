------------------------------- MODULE Tables -------------------------------
(***************************************************************************)
(* The pure part of archetype storage: what Table::addEntity,              *)
(* Table::removeEntity and a compiled migration do to the tables and to    *)
(* the entity records.  Storage and Relations run these operators on their *)
(* own variables.                                                          *)
(*                                                                         *)
(* A table is named by its type, the set of components it stores (module   *)
(* Archetypes shows that a type has one table).  Its contents are the      *)
(* sequence of its rows 0 .. count-1; what lies in memory above count is   *)
(* not represented, nothing reads it.  A row holds the entity listed there *)
(* and the bytes of each column.  Row numbers are 0-based as in the code,  *)
(* so row r is element r + 1.                                              *)
(***************************************************************************)
EXTENDS Naturals, Sequences

CONSTANTS
    Component,   \* registered component ids
    Value        \* contents of one component

TableType == SUBSET Component

\* Table 0, the table of the entities without a component.
RootType == {}

\* Table::addEntity, and the column writes of a migration into the new row.
AddRow(rows, t, entity, value) ==
    [rows EXCEPT ![t] = Append(@, [entity |-> entity, value |-> value])]

\* Wrong: the last row's entity moves, its column bytes do not.
SwapEntityOnly(s, i) ==
    [j \in 1 .. Len(s) - 1 |->
        IF j = i THEN [s[j] EXCEPT !.entity = s[Len(s)].entity] ELSE s[j]]

\* A sequence without element i: the last element takes its place.
SwapRemove(s, i) ==
    [j \in 1 .. Len(s) - 1 |-> IF j = i THEN s[Len(s)] ELSE s[j]]

\* Table::removeEntity on an empty table changes nothing; SwapRemove(<<>>, i)
\* is <<>>.
RemoveRow(rows, t, row) ==
    [rows EXCEPT ![t] = SwapRemove(@, row + 1)]

\* The record update a caller of removeEntity makes: the entity that was in
\* the last row, whatever its generation, is now said to be at row.
Moves(rows, t, row) == rows[t] # << >> /\ row # Len(rows[t]) - 1

\* Wrong: the record of the moved entity is left as it was.
FixForgotten(rec, rows, t, row) == rec

FixSwapped(rec, rows, t, row) ==
    IF Moves(rows, t, row)
    THEN [rec EXCEPT ![rows[t][Len(rows[t])].entity.index].row = row]
    ELSE rec

\* What a read of column data at (t, row) may return: rows at or above count
\* hold unspecified bytes.
ValuesAt(rows, t, row) ==
    IF row < Len(rows[t]) THEN {rows[t][row + 1].value} ELSE [t -> Value]

\* Wrong: every column of the source row is copied, also a removed one.
CopyAll(old, from, to, fresh) ==
    [c \in from \cup to |-> IF c \in from THEN old[c] ELSE fresh[c]]

\* The columns of the destination row: common columns are copied; a new column
\* keeps the bytes that happen to be there, given by fresh.
Carried(old, from, to, fresh) ==
    [c \in to |-> IF c \in from THEN old[c] ELSE fresh[c]]

\* A compiled migration from table `from` to table `to`, srcRow having been
\* read from the record.
MigrateRows(rows, entity, from, to, srcRow, value) ==
    RemoveRow(AddRow(rows, to, entity, value), from, srcRow)

\* Entity index i is now at row of table t.
Relocate(rec, i, t, row) == [rec EXCEPT ![i].type = t, ![i].row = row]

MigrateRec(rec, rows, entity, from, to, srcRow) ==
    Relocate(FixSwapped(rec, rows, from, srcRow), entity.index, to, Len(rows[to]))
=============================================================================
