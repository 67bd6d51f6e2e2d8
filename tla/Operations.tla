------------------------------ MODULE Operations ------------------------------
(***************************************************************************)
(* Storage operations as functions from store to store.  Component hooks   *)
(* run in the middle of the operations of module Storage and run storage   *)
(* operations themselves, so Relations and Hooks build theirs in program   *)
(* order from the ones given here.                                         *)
(***************************************************************************)
EXTENDS Storage

CONSTANT Unspecified   \* what a column holds where nothing was written

VARIABLE aborted   \* an assertion failed, or a component was read that is not there

opVars == <<rec, free, rows, live, dead, aborted>>

-----------------------------------------------------------------------------
(* The store an operation works on.  ok turns FALSE where a debug build      *)
(* aborts; steady, where a hook has moved the entity whose removal is under  *)
(* way; moves lists who has come to (joins) and who has left which table.    *)

Store == [rec |-> rec, free |-> free, rows |-> rows, live |-> live, dead |-> dead,
          ok |-> ~aborted, steady |-> TRUE, moves |-> << >>]

AliveIn(st, h) ==
    h.index \in 1 .. Len(st.rec) /\ st.rec[h.index].generation = h.generation

TypeIn(st, h) == st.rec[h.index].type
RowIn(st, h) == st.rec[h.index].row

\* World::get<c>(h) yields a component of the table h is said to be in.
Readable(st, h, c) ==
    /\ st.ok
    /\ AliveIn(st, h)
    /\ c \in TypeIn(st, h)
    /\ RowIn(st, h) < Len(st.rows[TypeIn(st, h)])

Get(st, h, c) == st.rows[TypeIn(st, h)][RowIn(st, h) + 1].value[c]

Put(st, h, c, v) ==
    [st EXCEPT !.rows[TypeIn(st, h)] = WriteCell(@, RowIn(st, h) + 1, c, v)]

Abort(st) == [st EXCEPT !.ok = FALSE]

\* Whoever is in the row that is taken away has left.  A bare entity that table 0
\* does not list takes the row of another, if any.
RowLeft(moves, rw, t, r) ==
    IF r < Len(rw[t])
    THEN Append(moves, [entity |-> rw[t][r + 1].entity, table |-> t, joins |-> FALSE])
    ELSE moves

\* Wrong: the entity that takes over the freed row keeps its old row number.
MigrateUnfixed(st, h, from, to, srcRow, old) ==
    LET fresh == [c \in to \ from |-> Unspecified]
    IN  [st EXCEPT
            !.rec = Relocate(st.rec, h.index, to, Len(st.rows[to])),
            !.rows = MigrateRows(st.rows, h, from, to, srcRow,
                                 Carried(old, from, to, fresh)),
            !.moves = RowLeft(Append(@, [entity |-> h, table |-> to, joins |-> TRUE]),
                              st.rows, from, srcRow)]

\* A compiled migration with the table, the row and the bytes of the row it is
\* to leave.
MigrateIn(st, h, from, to, srcRow, old) ==
    LET fresh == [c \in to \ from |-> Unspecified]
    IN  [st EXCEPT
            !.rec = MigrateRec(st.rec, st.rows, h, from, to, srcRow),
            !.rows = MigrateRows(st.rows, h, from, to, srcRow,
                                 Carried(old, from, to, fresh)),
            !.moves = RowLeft(Append(@, [entity |-> h, table |-> to, joins |-> TRUE]),
                              st.rows, from, srcRow)]

\* A migration before which no hook has run; a bare entity has no bytes.
MoveTo(st, h, to) ==
    LET from == TypeIn(st, h)
        old == IF from = RootType THEN << >>
               ELSE st.rows[from][RowIn(st, h) + 1].value
    IN  MigrateIn(st, h, from, to, RowIn(st, h), old)

\* addComponent has no onAdd hook to run here.
AddIn(st, h, c) ==
    IF c \in TypeIn(st, h) THEN st ELSE MoveTo(st, h, TypeIn(st, h) \cup {c})

\* removeComponent of a c whose onRemove hook turns st into hooked.  The table
\* and the row of h are fetched, then the hook runs, then the rows move.  When
\* the hook has taken the fetched row out of the table, its bytes are still in
\* memory.
RemoveIn(st, hooked, h, c) ==
    LET from == TypeIn(st, h)
        r == RowIn(st, h)
        old == IF r < Len(hooked.rows[from]) THEN hooked.rows[from][r + 1].value
               ELSE st.rows[from][r + 1].value
        stays == TypeIn(hooked, h) = from /\ RowIn(hooked, h) = r
    IN  [MigrateIn(hooked, h, from, from \ {c}, r, old) EXCEPT !.steady = @ /\ stays]

\* h leaves row r of its table and retires; table 0 keeps its rows.
RetireFrom(st, h, t, r) ==
    [st EXCEPT
        !.rec = Retire(IF t = RootType THEN @ ELSE FixSwapped(@, st.rows, t, r), h.index),
        !.rows = IF t = RootType THEN @ ELSE RemoveRow(@, t, r),
        !.free = Append(@, h.index),
        !.live = @ \ {h},
        !.dead = @ \cup {h},
        !.steady = @ /\ TypeIn(st, h) = t,
        !.moves = IF t = RootType THEN @ ELSE RowLeft(@, st.rows, t, r)]

\* Wrong: the row is the one from before the hooks.
RetireFetched(st, hooked, h) == RetireFrom(hooked, h, TypeIn(st, h), RowIn(st, h))

\* destroyEntity, whose onRemove hooks turn st into hooked: h leaves the table
\* it was in before them, from the row its record has after them.
RetireIn(st, hooked, h) == RetireFrom(hooked, h, TypeIn(st, h), RowIn(hooked, h))

-----------------------------------------------------------------------------
(* What the operations become *)

OpInit == Init /\ aborted = FALSE

\* An operation that aborted leaves nothing to observe.
Becomes(st) ==
    IF st.ok
    THEN /\ rec' = st.rec /\ free' = st.free /\ rows' = st.rows
         /\ live' = st.live /\ dead' = st.dead
         /\ UNCHANGED aborted
    ELSE aborted' = TRUE /\ UNCHANGED vars

Create == CreateEntity /\ UNCHANGED aborted
=============================================================================
