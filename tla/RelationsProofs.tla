---------------------------- MODULE RelationsProofs ----------------------------
(***************************************************************************)
(* Theorems about Relations, for every set of components and every number  *)
(* of entities: careful clients find lists and targets in agreement, no    *)
(* hook aborts, and records locate rows although hooks migrate entities in *)
(* the middle of other operations.                                         *)
(*                                                                         *)
(* Operations are functions from store to store, so most lemmas are about  *)
(* constants.  Stores: an operation keeps records and rows in agreement,   *)
(* and what it does to the contents of entities.  Contents: taking a child *)
(* off its parent's list and putting it on another's keeps lists and       *)
(* targets in step.  Operations and hooks: each is one of these changes of *)
(* contents.  The invariant then only needs one step for each action.      *)
(***************************************************************************)
EXTENDS Relations, StorageProofs, FiniteSetTheorems, Integers

-----------------------------------------------------------------------------
(* Stores *)

\* What a component holds: a value, a target, a list of children, or nothing of interest.
Payload == Value \cup {Unspecified} \cup Handle \cup Seq(Handle)

RowsOf(t) == [entity : Handle, value : [t -> Payload]]

\* The record rc of g and the tables rw agree about where g is.
At(rc, rw, g) ==
    LET t == rc[g.index].type
        r == rc[g.index].row
    IN  r < Len(rw[t]) /\ rw[t][r + 1].entity = g

Typed(rc, rw, lv) ==
    /\ rc \in Seq(Record) /\ Len(rc) <= MaxEntities
    /\ rw = [t \in TableType |-> rw[t]]
    /\ \A t \in TableType : rw[t] \in Seq(RowsOf(t))
    /\ lv \subseteq Handle

RecordedAt(rc, lv, g, t, r) == g \in lv /\ rc[g.index].type = t /\ rc[g.index].row = r

\* Every row belongs to a live entity that is recorded there.
Backed(rc, rw, lv) ==
    \A t \in TableType : \A j \in 1 .. Len(rw[t]) :
        RecordedAt(rc, lv, rw[t][j].entity, t, j - 1)

\* Every live entity is where its record says, or bare and unlisted.
Placed(rc, rw, lv) ==
    \A g \in lv :
        /\ g.index \in 1 .. Len(rc) /\ rc[g.index].generation = g.generation
        /\ At(rc, rw, g) \/ (rc[g.index].type = RootType /\ rc[g.index].row = 0)

TablesRight(rc, rw, lv) == Typed(rc, rw, lv) /\ Backed(rc, rw, lv) /\ Placed(rc, rw, lv)

\* No index on the free stack is there twice, or that of a live entity.
FreeRight(rc, fr, lv) ==
    /\ fr \in Seq(1 .. Len(rc))
    /\ \A j, k \in 1 .. Len(fr) : fr[j] = fr[k] => j = k
    /\ \A g \in lv : \A j \in 1 .. Len(fr) : fr[j] # g.index

\* The components of every live entity, as World::get reads them.
ContentsOf(rc, rw, lv) ==
    [g \in lv |-> LET t == rc[g.index].type
                      r == rc[g.index].row
                  IN  IF t = RootType THEN << >> ELSE rw[t][r + 1].value]

\* What is known of one live entity, in row r of table t.
EntityAt(rc, rw, lv, g, t, r) ==
    /\ g \in Handle /\ g.index \in 1 .. Len(rc) /\ rc \in Seq(Record)
    /\ rc[g.index].generation = g.generation
    /\ t \in TableType /\ r \in Nat
    /\ rw[t] \in Seq(RowsOf(t)) /\ Len(rw[t]) \in Nat
    /\ DOMAIN rw[t] = 1 .. Len(rw[t])
    /\ t # RootType => r + 1 \in 1 .. Len(rw[t]) /\ rw[t][r + 1].entity = g
    /\ ContentsOf(rc, rw, lv)[g] = IF t = RootType THEN << >> ELSE rw[t][r + 1].value
    /\ ContentsOf(rc, rw, lv)[g] \in [t -> Payload]

\* Sound tables tell this of every live entity.
LEMMA LiveEntity ==
    ASSUME NEW rc, NEW rw, NEW lv, TablesRight(rc, rw, lv), NEW g \in lv,
           NEW t, NEW r, t = rc[g.index].type, r = rc[g.index].row
    PROVE  EntityAt(rc, rw, lv, g, t, r)
<1>1. /\ g \in Handle /\ g.index \in 1 .. Len(rc) /\ rc \in Seq(Record)
      /\ rc[g.index].generation = g.generation
  BY DEF TablesRight, Typed, Placed
<1>2. rc[g.index] \in Record
  BY <1>1
<1>3. t \in TableType /\ r \in Nat
  BY <1>2 DEF Record
<1>4. rw[t] \in Seq(RowsOf(t))
  BY <1>3 DEF TablesRight, Typed
<1>5. Len(rw[t]) \in Nat /\ DOMAIN rw[t] = 1 .. Len(rw[t])
  BY <1>4
<1>6. t # RootType => r + 1 \in 1 .. Len(rw[t]) /\ rw[t][r + 1].entity = g
  <2>1. t # RootType => r < Len(rw[t]) /\ rw[t][r + 1].entity = g
    BY DEF TablesRight, Placed, At
  <2> QED  BY <1>3, <1>5, <2>1
<1>7. ContentsOf(rc, rw, lv)[g] = IF t = RootType THEN << >> ELSE rw[t][r + 1].value
  BY DEF ContentsOf
<1>8. CASE t = RootType
  <2>1. << >> \in [t -> Payload]
    BY <1>8 DEF RootType
  <2> QED  BY ONLY <1>1, <1>3, <1>4, <1>5, <1>6, <1>7, <1>8, <2>1 DEF EntityAt
<1>9. CASE t # RootType
  <2>1. rw[t][r + 1] \in RowsOf(t)
    BY <1>4, <1>6, <1>9
  <2>2. rw[t][r + 1].value \in [t -> Payload]
    BY <2>1 DEF RowsOf
  <2> QED  BY Zenon, <1>1, <1>3, <1>4, <1>5, <1>6, <1>7, <1>9, <2>2 DEF EntityAt
<1> QED  BY <1>8, <1>9

\* An index has one owner.
LEMMA OneOwner ==
    ASSUME NEW rc, NEW rw, NEW lv, TablesRight(rc, rw, lv),
           NEW g \in lv, NEW h \in lv, g.index = h.index
    PROVE  g = h
<1>1. g \in Handle /\ h \in Handle /\ g.generation = h.generation
  BY DEF TablesRight, Typed, Placed
<1> QED  BY <1>1 DEF Handle

\* The entity in the last row.
LEMMA LastEntity ==
    ASSUME NEW rc, NEW rw, NEW lv, TablesRight(rc, rw, lv),
           NEW t \in TableType, Len(rw[t]) # 0
    PROVE  RecordedAt(rc, lv, rw[t][Len(rw[t])].entity, t, Len(rw[t]) - 1)
<1>1. rw[t] \in Seq(RowsOf(t))
  BY DEF TablesRight, Typed
<1>2. Len(rw[t]) \in 1 .. Len(rw[t])
  BY <1>1
<1> QED  BY <1>2 DEF TablesRight, Backed

\* Where index i is when row r of table t has been swap-removed.
NewRow(rc, rw, t, r, i) ==
    IF Moves(rw, t, r) /\ i = rw[t][Len(rw[t])].entity.index THEN r ELSE rc[i].row

\* left is what a swap-remove of row r leaves of the rows s.
IsLeft(left, s, r) ==
    /\ Len(left) \in Nat /\ DOMAIN left = 1 .. Len(left)
    /\ s # << >> => Len(left) = Len(s) - 1
    /\ s = << >> => left = << >>
    /\ \A j \in 1 .. Len(left) :
          /\ j \in 1 .. Len(s) - 1
          /\ left[j] = IF j = r + 1 THEN s[Len(s)] ELSE s[j]
    /\ \A j \in 1 .. Len(left) : \E k \in 1 .. Len(s) : left[j] = s[k]

\* SwapRemove leaves what IsLeft says.
LEMMA LeftRows ==
    ASSUME NEW T, NEW s \in Seq(T), NEW r \in Nat, NEW left, left = SwapRemove(s, r + 1)
    PROVE  left \in Seq(T) /\ IsLeft(left, s, r)
<1>1. r + 1 \in Nat
  OBVIOUS
<1>2. /\ left \in Seq(T)
      /\ s # << >> => Len(left) = Len(s) - 1
      /\ s = << >> => left = << >>
      /\ \A j \in 1 .. Len(left) :
            /\ j \in 1 .. Len(s) - 1
            /\ left[j] = IF j = r + 1 THEN s[Len(s)] ELSE s[j]
  BY <1>1, SwapRemoveProperties
<1>3. Len(left) \in Nat /\ DOMAIN left = 1 .. Len(left)
  BY <1>2
<1>4. ASSUME NEW j \in 1 .. Len(left)
      PROVE  \E k \in 1 .. Len(s) : left[j] = s[k]
  <2>1. j \in 1 .. Len(s) /\ Len(s) \in 1 .. Len(s)
    BY <1>2
  <2> QED  BY <1>2, <2>1
<1> QED  BY <1>2, <1>3, <1>4 DEF IsLeft

\* When h leaves row r of table t, another entity g of this table gets to row q.
StaysAt(rc, rw, lv, h, t, r, g, q) ==
    /\ g \in lv /\ g # h /\ rc[g.index].type = t
    /\ q = NewRow(rc, rw, t, r, g.index)

\* Rows left behind when h leaves its table: none is h's, and each belongs to
\* the entity whose row, after the record fix, is this one.
LEMMA RowsLeft ==
    ASSUME NEW rc, NEW rw, NEW lv, TablesRight(rc, rw, lv), NEW h \in lv,
           NEW t, NEW r, t = rc[h.index].type, r = rc[h.index].row,
           NEW left, left = SwapRemove(rw[t], r + 1),
           NEW j \in 1 .. Len(left), NEW g, g = left[j].entity
    PROVE  StaysAt(rc, rw, lv, h, t, r, g, j - 1)
<1>0. PICK s, n, last : s = rw[t] /\ n = Len(s) /\ last = s[n].entity
  OBVIOUS
<1>1. t \in TableType /\ r \in Nat /\ s \in Seq(RowsOf(t)) /\ n \in Nat
  BY <1>0, LiveEntity DEF EntityAt
<1>2. /\ j \in 1 .. n - 1
      /\ left[j] = IF j = r + 1 THEN s[n] ELSE s[j]
  <2>1. left = SwapRemove(s, r + 1)
    BY <1>0
  <2>2. IsLeft(left, s, r)
    BY ONLY <1>1, <2>1, LeftRows
  <2>3. s # << >>
    <3>1. Len(left) # 0 /\ Len(left) \in Nat
      BY ONLY <2>2, j \in 1 .. Len(left) DEF IsLeft
    <3> QED  BY ONLY <2>2, <3>1 DEF IsLeft
  <2> QED  BY ONLY <1>0, <2>2, <1>1, <2>3, j \in 1 .. Len(left) DEF IsLeft
<1>3. n # 0 /\ s # << >>
  <2>1. n # 0 /\ n = Len(s)
    BY ONLY <1>0, <1>1, <1>2
  <2> QED  BY ONLY <2>1
<1>4. last \in lv /\ rc[last.index].type = t /\ rc[last.index].row = n - 1
  <2>1. Len(rw[t]) # 0
    BY <1>0, <1>3
  <2>2. RecordedAt(rc, lv, rw[t][Len(rw[t])].entity, t, Len(rw[t]) - 1)
    BY <1>1, <2>1, LastEntity
  <2> QED  BY ONLY <1>0, <2>2 DEF RecordedAt
<1>5. CASE j = r + 1
  <2>1. r # n - 1 /\ j - 1 = r
    BY ONLY <1>1, <1>2, <1>5
  <2>2. g = last
    BY <1>0, <1>2, <1>5
  <2>3. Moves(rw, t, r)
    BY <1>0, <1>3, <2>1 DEF Moves
  <2>4. g # h
    BY <1>4, <2>1, <2>2
  <2>5. NewRow(rc, rw, t, r, g.index) = r
    BY ONLY <1>0, <2>2, <2>3 DEF NewRow
  <2> QED  BY Zenon, <1>4, <2>1, <2>2, <2>4, <2>5 DEF StaysAt
<1>6. CASE j # r + 1
  <2>1. j \in 1 .. n /\ j - 1 # n - 1 /\ j - 1 # r
    BY ONLY <1>1, <1>2, <1>6
  <2>2. g = s[j].entity
    BY <1>2, <1>6
  <2>3. g \in lv /\ rc[g.index].type = t /\ rc[g.index].row = j - 1
    <3>1. j \in 1 .. Len(rw[t]) /\ g = rw[t][j].entity
      BY <1>0, <2>1, <2>2
    <3>2. RecordedAt(rc, lv, g, t, j - 1)
      BY ONLY TablesRight(rc, rw, lv), <1>1, <3>1 DEF TablesRight, Backed
    <3> QED  BY ONLY <3>2 DEF RecordedAt
  <2>4. g # h /\ g # last
    BY ONLY <1>4, <2>1, <2>3, r = rc[h.index].row
  <2>5. g.index # last.index
    BY ONLY TablesRight(rc, rw, lv), <1>4, <2>3, <2>4, OneOwner
  <2> QED  BY Zenon, <1>0, <2>3, <2>4, <2>5 DEF NewRow, StaysAt
<1> QED  BY <1>5, <1>6

\* The other entities when h leaves its table: those of other tables keep
\* their rows, those of h's table are listed at their row after the record fix
\* (or are bare, unlisted and at row 0).
LEMMA OthersLeft ==
    ASSUME NEW rc, NEW rw, NEW lv, TablesRight(rc, rw, lv), NEW h \in lv,
           NEW t, NEW r, t = rc[h.index].type, r = rc[h.index].row,
           NEW left, left = SwapRemove(rw[t], r + 1),
           NEW g \in lv, g # h, NEW row, row = NewRow(rc, rw, t, r, g.index)
    PROVE  /\ row \in Nat
           /\ rc[g.index].type # t => row = rc[g.index].row
           /\ rc[g.index].type = t =>
                 \/ row < Len(left) /\ left[row + 1].entity = g
                 \/ t = RootType /\ row = 0
<1>0. PICK s, n, last, q : s = rw[t] /\ n = Len(s) /\ last = s[n].entity /\ q = rc[g.index].row
  OBVIOUS
<1>1. t \in TableType /\ r \in Nat /\ s \in Seq(RowsOf(t)) /\ n \in Nat
  BY <1>0, LiveEntity DEF EntityAt
<1>2. q \in Nat
  <2>1. EntityAt(rc, rw, lv, g, rc[g.index].type, q)
    BY ONLY <1>0, TablesRight(rc, rw, lv), g \in lv, LiveEntity
  <2> QED  BY ONLY <2>1 DEF EntityAt
<1>3. s # << >> <=> n # 0
  BY ONLY <1>0, <1>1
<1>4. n # 0 => last \in lv /\ rc[last.index].type = t /\ rc[last.index].row = n - 1
  <2> SUFFICES ASSUME n # 0
               PROVE  last \in lv /\ rc[last.index].type = t /\ rc[last.index].row = n - 1
    OBVIOUS
  <2>1. Len(rw[t]) # 0
    BY <1>0
  <2>2. RecordedAt(rc, lv, rw[t][Len(rw[t])].entity, t, Len(rw[t]) - 1)
    BY <1>1, <2>1, LastEntity
  <2> QED  BY ONLY <1>0, <2>2 DEF RecordedAt
<1>5. n # 0 /\ g.index = last.index => g = last
  BY <1>4, OneOwner
<1>6. row = IF n # 0 /\ r # n - 1 /\ g = last THEN r ELSE q
  <2>1. row = IF (s # << >> /\ r # n - 1) /\ g.index = last.index THEN r ELSE q
    BY <1>0 DEF NewRow, Moves
  <2> QED  BY <1>3, <1>5, <2>1
<1>7. row \in Nat
  BY <1>1, <1>2, <1>6
<1>8. ASSUME rc[g.index].type # t
      PROVE  row = q
  BY <1>4, <1>6, <1>8
<1>9. \/ r < n /\ s[r + 1].entity = h
      \/ t = RootType /\ r = 0
  BY <1>0 DEF TablesRight, Placed, At
<1>10. ASSUME rc[g.index].type = t
       PROVE  \/ row < Len(left) /\ left[row + 1].entity = g
              \/ t = RootType /\ row = 0
  <2>2. \/ q < n /\ s[q + 1].entity = g
        \/ t = RootType /\ q = 0
    BY <1>0, <1>10 DEF TablesRight, Placed, At
  <2>3. n # 0 /\ g = last => q = n - 1
    BY ONLY <1>0, <1>4
  <2>4. CASE q < n /\ s[q + 1].entity = g
    <3>1. n # 0 /\ q \in 0 .. n - 1
      BY ONLY <1>1, <1>2, <2>4
    <3>2. /\ Len(left) = n - 1
          /\ \A j \in 1 .. n - 1 : left[j] = IF j = r + 1 THEN s[n] ELSE s[j]
      <4>1. left = SwapRemove(s, r + 1)
        BY <1>0
      <4>2. IsLeft(left, s, r)
        BY ONLY <1>1, <4>1, LeftRows
      <4>3. n = Len(s) /\ s # << >>
        BY <1>0, <1>3, <3>1
      <4> QED  BY ONLY <4>2, <4>3 DEF IsLeft
    <3>3. CASE q = n - 1
      <4>1. q + 1 = n
        BY ONLY <1>1, <3>3
      <4>2. g = last
        BY <1>0, <2>4, <4>1
      <4>3. CASE r = n - 1
        <5>1. t = RootType /\ r = 0
          BY Zenon, <1>0, <1>9, <4>2, <4>3, <3>3, <4>1
        <5>2. row = 0
          BY ONLY <1>6, <3>3, <4>3, <5>1
        <5> QED  BY <5>1, <5>2
      <4>4. CASE r # n - 1
        <5>1. row = r
          BY <1>6, <3>1, <4>2, <4>4
        <5>2. r + 1 \in 1 .. n - 1 /\ r < n - 1
          BY ONLY <1>1, <1>9, <3>1, <4>4
        <5>3. left[r + 1].entity = g
          BY ONLY <1>0, <3>2, <4>2, <5>2
        <5> QED  BY <3>2, <5>1, <5>2, <5>3
      <4> QED  BY <4>3, <4>4
    <3>4. CASE q # n - 1
      <4>1. row = q
        BY <1>6, <2>3, <3>1, <3>4
      <4>2. q + 1 \in 1 .. n - 1 /\ q < n - 1
        BY ONLY <1>1, <3>1, <3>4
      <4>3. CASE q = r
        BY <1>9, <2>4, <4>1, <4>3
      <4>4. CASE q # r
        <5>0. q + 1 # r + 1
          BY ONLY <1>1, <1>2, <4>4
        <5>1. left[q + 1] = s[q + 1]
          BY <3>2, <4>2, <5>0
        <5> QED  BY <2>4, <3>2, <4>1, <4>2, <5>1
      <4> QED  BY <4>3, <4>4
    <3> QED  BY <3>3, <3>4
  <2>5. CASE ~(q < n /\ s[q + 1].entity = g)
    <3>1. t = RootType /\ q = 0
      BY <2>2, <2>5
    <3>2. row = q
      <4> SUFFICES ASSUME n # 0, g = last PROVE FALSE
        BY <1>6
      <4>1. q < n /\ q + 1 = n
        BY ONLY <1>1, <2>3, n # 0, g = last
      <4> QED  BY Zenon, <1>0, <2>5, <4>1
    <3> QED  BY <3>1, <3>2
  <2> QED  BY <2>4, <2>5
<1> QED  BY <1>0, <1>7, <1>8, <1>10

\* The other rows and records after h has left row r of table t for a row at the
\* end of another table or for none: what FixSwapped and SwapRemove do.
OthersMoved(rc, rw, rc2, h, t, r) ==
    /\ rc2 \in Seq(Record) /\ Len(rc2) = Len(rc)
    /\ \A i \in 1 .. Len(rc) : i # h.index =>
          /\ rc2[i].generation = rc[i].generation
          /\ rc2[i].type = rc[i].type
          /\ rc2[i].row = NewRow(rc, rw, t, r, i)

\* Everything a migration of h from row r of table from does.
MoveEffects(rc, rw, rc2, rw2, h, from, r, to, val) ==
    /\ rw2 = [u \in TableType |-> rw2[u]]
    /\ rw2[to] = Append(rw[to], [entity |-> h, value |-> val])
    /\ rw2[from] = SwapRemove(rw[from], r + 1)
    /\ \A u \in TableType : u # from /\ u # to => rw2[u] = rw[u]
    /\ OthersMoved(rc, rw, rc2, h, from, r)
    /\ rc2[h.index].type = to /\ rc2[h.index].row = Len(rw[to])
    /\ rc2[h.index].generation = rc[h.index].generation

\* What MigrateRec and MigrateRows do to records and tables.
LEMMA MoveHasEffects ==
    ASSUME NEW rc, NEW rw, NEW lv, TablesRight(rc, rw, lv), NEW h \in lv,
           NEW from, NEW r, from = rc[h.index].type, r = rc[h.index].row,
           NEW to \in TableType, to # from, NEW val
    PROVE  MoveEffects(rc, rw, MigrateRec(rc, rw, h, from, to, r),
                       MigrateRows(rw, h, from, to, r, val), h, from, r, to, val)
<1> PICK rc2, rw2 : /\ rc2 = MigrateRec(rc, rw, h, from, to, r)
                    /\ rw2 = MigrateRows(rw, h, from, to, r, val)
  OBVIOUS
<1>1. /\ from \in TableType /\ r \in Nat /\ h.index \in 1 .. Len(rc) /\ rc \in Seq(Record)
      /\ rw = [u \in TableType |-> rw[u]] /\ Len(rw[to]) \in Nat
  <2>1. rw[to] \in Seq(RowsOf(to))
    BY DEF TablesRight, Typed
  <2> QED  BY <2>1, LiveEntity DEF EntityAt, TablesRight, Typed
<1>2. rw2 = [[rw EXCEPT ![to] = Append(rw[to], [entity |-> h, value |-> val])]
                EXCEPT ![from] = SwapRemove(@, r + 1)]
  BY DEF MigrateRows, RemoveRow, AddRow
<1>3. /\ rw2 = [u \in TableType |-> rw2[u]]
      /\ rw2[to] = Append(rw[to], [entity |-> h, value |-> val])
      /\ rw2[from] = SwapRemove(rw[from], r + 1)
      /\ \A u \in TableType : u # from /\ u # to => rw2[u] = rw[u]
  <2> PICK new : new = Append(rw[to], [entity |-> h, value |-> val])
    OBVIOUS
  <2>1. rw2 = [u \in TableType |-> IF u = from THEN SwapRemove(rw[from], r + 1)
                                   ELSE IF u = to THEN new ELSE rw[u]]
    BY Zenon, <1>1, <1>2
  <2> QED  BY Zenon, <1>1, <2>1
<1>a. PICK fixed : fixed = FixSwapped(rc, rw, from, r)
  OBVIOUS
<1>4. /\ fixed \in Seq(Record) /\ Len(fixed) = Len(rc)
      /\ \A i \in 1 .. Len(rc) :
            /\ fixed[i].type = rc[i].type
            /\ fixed[i].generation = rc[i].generation
            /\ fixed[i].row = NewRow(rc, rw, from, r, i)
  <2>1. LET new == FixSwapped(rc, rw, from, r)
            last == rw[from][Len(rw[from])].entity.index
        IN  /\ new \in Seq(Record) /\ Len(new) = Len(rc)
            /\ \A i \in 1 .. Len(rc) :
                  /\ new[i].type = rc[i].type
                  /\ new[i].generation = rc[i].generation
                  /\ new[i].row = IF Moves(rw, from, r) /\ i = last THEN r ELSE rc[i].row
    BY ONLY <1>1, FixSwappedProperties
  <2> QED  BY ONLY <1>a, <2>1 DEF NewRow
<1>5. rc2 = Relocate(fixed, h.index, to, Len(rw[to]))
  BY <1>a DEF MigrateRec
<1>6. /\ rc2 \in Seq(Record) /\ Len(rc2) = Len(fixed)
      /\ rc2[h.index].type = to /\ rc2[h.index].row = Len(rw[to])
      /\ rc2[h.index].generation = fixed[h.index].generation
      /\ \A i \in 1 .. Len(fixed) : i # h.index => rc2[i] = fixed[i]
  <2>1. h.index \in 1 .. Len(fixed)
    BY <1>1, <1>4
  <2> PICK k, n : k = h.index /\ n = Len(rw[to])
    OBVIOUS
  <2>2. k \in 1 .. Len(fixed) /\ n \in Nat /\ rc2 = Relocate(fixed, k, to, n)
    BY <1>1, <1>5, <2>1
  <2>3. /\ rc2 \in Seq(Record) /\ Len(rc2) = Len(fixed)
        /\ rc2[k].type = to /\ rc2[k].row = n
        /\ rc2[k].generation = fixed[k].generation
        /\ \A i \in 1 .. Len(fixed) : i # k => rc2[i] = fixed[i]
    BY ONLY <1>4, <2>2, to \in TableType, RelocateProperties
  <2> QED  BY <2>3
<1>7. OthersMoved(rc, rw, rc2, h, from, r)
  BY ONLY <1>4, <1>6 DEF OthersMoved
<1> QED  BY Zenon, <1>1, <1>3, <1>4, <1>6, <1>7 DEF MoveEffects

\* Entities that are where their records say, after a removal of h.
LEMMA OthersPlaced ==
    ASSUME NEW rc, NEW rw, NEW lv, TablesRight(rc, rw, lv), NEW h \in lv,
           NEW t, NEW r, t = rc[h.index].type, r = rc[h.index].row,
           NEW rc2, OthersMoved(rc, rw, rc2, h, t, r), NEW g \in lv, g # h
    PROVE  /\ g.index \in 1 .. Len(rc2) /\ g.index # h.index
           /\ rc2[g.index].generation = g.generation
           /\ rc2[g.index].type = rc[g.index].type
           /\ rc2[g.index].row = NewRow(rc, rw, t, r, g.index)
<1>1. g.index \in 1 .. Len(rc) /\ rc[g.index].generation = g.generation
  BY LiveEntity DEF EntityAt
<1>2. g.index # h.index
  BY OneOwner
<1> QED  BY <1>1, <1>2 DEF OthersMoved

CameFrom(rw, rw2, t, g) ==
    \A j \in 1 .. Len(rw2[t]) :
        rw2[t][j].entity = g => \E k \in 1 .. Len(rw[t]) : rw2[t][j] = rw[t][k]

\* An entity that keeps its type, and is listed only in rows that were there
\* before, keeps its contents: wherever its row has moved to.
LEMMA ContentsKept ==
    ASSUME NEW rc, NEW rw, NEW lv, TablesRight(rc, rw, lv),
           NEW rc2, NEW rw2, NEW lv2, TablesRight(rc2, rw2, lv2),
           NEW g \in lv, g \in lv2, NEW t, t = rc[g.index].type, rc2[g.index].type = t,
           CameFrom(rw, rw2, t, g)
    PROVE  ContentsOf(rc2, rw2, lv2)[g] = ContentsOf(rc, rw, lv)[g]
<1>0. PICK r, r2 : r = rc[g.index].row /\ r2 = rc2[g.index].row
  OBVIOUS
<1>a. EntityAt(rc, rw, lv, g, t, r)
  BY <1>0, LiveEntity
<1>b. EntityAt(rc2, rw2, lv2, g, t, r2)
  BY <1>0, LiveEntity
<1>1. CASE t = RootType
  BY <1>1, <1>a, <1>b DEF EntityAt
<1>2. CASE t # RootType
  <2>1. /\ t \in TableType /\ r \in Nat /\ r2 \in Nat
        /\ r + 1 \in 1 .. Len(rw[t]) /\ rw[t] \in Seq(RowsOf(t))
        /\ ContentsOf(rc, rw, lv)[g] = rw[t][r + 1].value
    BY ONLY <1>2, <1>a, <1>b DEF EntityAt
  <2>2. /\ r2 + 1 \in 1 .. Len(rw2[t]) /\ rw2[t][r2 + 1].entity = g
        /\ ContentsOf(rc2, rw2, lv2)[g] = rw2[t][r2 + 1].value
    BY ONLY <1>2, <1>b DEF EntityAt
  <2>3. PICK k \in 1 .. Len(rw[t]) : rw2[t][r2 + 1] = rw[t][k]
    BY <2>2 DEF CameFrom
  <2>4. RecordedAt(rc, lv, rw[t][k].entity, t, k - 1)
    BY ONLY TablesRight(rc, rw, lv), <2>1, k \in 1 .. Len(rw[t]) DEF TablesRight, Backed
  <2>5. r = k - 1
    BY ONLY <1>0, <2>2, <2>3, <2>4 DEF RecordedAt
  <2>6. Len(rw[t]) \in Nat
    BY ONLY <2>1
  <2>7. r + 1 = k
    BY ONLY <2>5, <2>6, k \in 1 .. Len(rw[t])
  <2> QED  BY <2>1, <2>2, <2>3, <2>7
<1> QED  BY <1>1, <1>2

\* After a migration records and rows agree.
LEMMA MovedTables ==
    ASSUME NEW rc, NEW rw, NEW lv, TablesRight(rc, rw, lv), NEW h \in lv,
           NEW from, NEW r, from = rc[h.index].type, r = rc[h.index].row,
           NEW to \in TableType, to # from, NEW val \in [to -> Payload],
           NEW rc2, NEW rw2, MoveEffects(rc, rw, rc2, rw2, h, from, r, to, val)
    PROVE  TablesRight(rc2, rw2, lv)
<1>0. PICK left, n, row : /\ left = SwapRemove(rw[from], r + 1) /\ n = Len(rw[to])
                          /\ row = [entity |-> h, value |-> val]
  OBVIOUS
<1>1. /\ from \in TableType /\ r \in Nat /\ h.index \in 1 .. Len(rc)
      /\ h \in Handle /\ rc[h.index].generation = h.generation
      /\ rw[from] \in Seq(RowsOf(from))
  BY LiveEntity DEF EntityAt
<1>2. rw[to] \in Seq(RowsOf(to)) /\ n \in Nat /\ row \in RowsOf(to)
  <2>1. rw[to] \in Seq(RowsOf(to))
    BY DEF TablesRight, Typed
  <2> QED  BY <1>0, <1>1, <2>1 DEF RowsOf
<1>3. left \in Seq(RowsOf(from)) /\ IsLeft(left, rw[from], r)
  BY <1>0, <1>1, LeftRows
<1>4. /\ rw2 = [u \in TableType |-> rw2[u]]
      /\ rw2[to] = Append(rw[to], row) /\ rw2[from] = left
      /\ \A u \in TableType : u # from /\ u # to => rw2[u] = rw[u]
      /\ OthersMoved(rc, rw, rc2, h, from, r)
      /\ rc2[h.index].type = to /\ rc2[h.index].row = n
      /\ rc2[h.index].generation = h.generation
  BY <1>0, <1>1 DEF MoveEffects
<1>5. /\ rw2[to] \in Seq(RowsOf(to)) /\ Len(rw2[to]) = n + 1
      /\ rw2[to][n + 1] = row
      /\ \A j \in 1 .. n : rw2[to][j] = rw[to][j]
  <2>0. PICK T, old, new : T = RowsOf(to) /\ old = rw[to] /\ new = Append(old, row)
    OBVIOUS
  <2>1. old \in Seq(T) /\ row \in T /\ n = Len(old)
    BY <1>0, <1>2, <2>0
  <2>2. /\ new \in Seq(T) /\ Len(new) = n + 1 /\ new[n + 1] = row
        /\ \A j \in 1 .. n : new[j] = old[j]
    BY ONLY <2>0, <2>1
  <2> QED  BY ONLY <1>4, <2>0, <2>2
<1>6. Typed(rc2, rw2, lv)
  <2>1. \A u \in TableType : rw2[u] \in Seq(RowsOf(u))
    BY <1>3, <1>4, <1>5 DEF TablesRight, Typed
  <2> QED  BY <1>4, <2>1 DEF OthersMoved, TablesRight, Typed
<1>7. ASSUME NEW g \in lv, g # h
      PROVE  /\ g.index \in 1 .. Len(rc2) /\ rc2[g.index].generation = g.generation
             /\ rc2[g.index].type = rc[g.index].type
             /\ rc2[g.index].row = NewRow(rc, rw, from, r, g.index)
  BY <1>4, <1>7, OthersPlaced
<1>8. ASSUME NEW g \in lv, g # h
      PROVE  /\ rc2[g.index].row \in Nat
             /\ rc[g.index].type # from => rc2[g.index].row = rc[g.index].row
             /\ rc[g.index].type = from =>
                   \/ rc2[g.index].row < Len(left) /\ left[rc2[g.index].row + 1].entity = g
                   \/ from = RootType /\ rc2[g.index].row = 0
  <2>1. PICK q : q = NewRow(rc, rw, from, r, g.index)
    OBVIOUS
  <2>2. /\ q \in Nat
        /\ rc[g.index].type # from => q = rc[g.index].row
        /\ rc[g.index].type = from =>
              \/ q < Len(left) /\ left[q + 1].entity = g
              \/ from = RootType /\ q = 0
    BY ONLY <1>0, <1>8, <2>1, TablesRight(rc, rw, lv), h \in lv, from = rc[h.index].type,
            r = rc[h.index].row, OthersLeft
  <2>3. rc2[g.index].row = q
    BY <1>7, <1>8, <2>1
  <2> QED  BY ONLY <2>2, <2>3
<1>9. ASSUME NEW t \in TableType, NEW j \in 1 .. Len(rw2[t]), NEW g, g = rw2[t][j].entity
      PROVE  RecordedAt(rc2, lv, g, t, j - 1)
  <2>1. CASE t = from
    <3>1. j \in 1 .. Len(left) /\ g = left[j].entity
      BY <1>4, <1>9, <2>1
    <3>2. StaysAt(rc, rw, lv, h, from, r, g, j - 1)
      BY <1>0, <3>1, RowsLeft
    <3> QED  BY <1>7, <2>1, <3>2 DEF RecordedAt, StaysAt
  <2>2. CASE t = to /\ j = n + 1
    <3>1. g = h
      BY <1>0, <1>5, <1>9, <2>2
    <3>2. j - 1 = n
      BY ONLY <1>2, <2>2
    <3> QED  BY <1>4, <2>2, <3>1, <3>2 DEF RecordedAt
  <2>3. CASE t # from /\ ~(t = to /\ j = n + 1)
    <3>1. j \in 1 .. Len(rw[t]) /\ g = rw[t][j].entity
      <4>1. CASE t = to
        <5>1. j \in 1 .. n
          BY <1>2, <1>5, <2>3, <4>1
        <5> QED  BY <1>0, <1>5, <1>9, <4>1, <5>1
      <4>2. CASE t # to
        BY <1>4, <1>9, <2>3, <4>2
      <4> QED  BY <4>1, <4>2
    <3>2. RecordedAt(rc, lv, g, t, j - 1)
      BY ONLY TablesRight(rc, rw, lv), t \in TableType, <3>1 DEF TablesRight, Backed
    <3>3. g \in lv /\ rc[g.index].type = t /\ rc[g.index].row = j - 1 /\ g # h
      BY <2>3, <3>2 DEF RecordedAt
    <3> QED  BY <1>7, <1>8, <2>3, <3>3 DEF RecordedAt
  <2> QED  BY <2>1, <2>2, <2>3
<1>10. Backed(rc2, rw2, lv)
  BY <1>9 DEF Backed
<1>11. ASSUME NEW g \in lv, g # h
       PROVE  At(rc2, rw2, g) \/ (rc2[g.index].type = RootType /\ rc2[g.index].row = 0)
  <2>1. CASE rc[g.index].type = from
    <3>1. /\ rc2[g.index].type = from
          /\ \/ rc2[g.index].row < Len(left) /\ left[rc2[g.index].row + 1].entity = g
             \/ from = RootType /\ rc2[g.index].row = 0
      BY <1>7, <1>8, <1>11, <2>1
    <3> QED  BY ONLY <1>4, <3>1 DEF At
  <2>2. CASE rc[g.index].type # from
    <3>0. PICK t, q : t = rc[g.index].type /\ q = rc[g.index].row
      OBVIOUS
    <3>1. t \in TableType /\ q \in Nat /\ rc2[g.index].type = t /\ rc2[g.index].row = q
      <4>1. EntityAt(rc, rw, lv, g, t, q)
        BY ONLY <1>11, <3>0, TablesRight(rc, rw, lv), LiveEntity
      <4>2. t \in TableType /\ q \in Nat
        BY ONLY <4>1 DEF EntityAt
      <4> QED  BY <1>7, <1>8, <1>11, <2>2, <3>0, <4>2
    <3>2. CASE At(rc, rw, g)
      <4>1. q < Len(rw[t]) /\ rw[t][q + 1].entity = g
        BY <3>0, <3>2 DEF At
      <4>2. q < Len(rw2[t]) /\ rw2[t][q + 1].entity = g
        <5>1. CASE t = to
          <6>1. q + 1 \in 1 .. n /\ q < n + 1
            BY ONLY <1>0, <1>2, <3>1, <4>1, <5>1
          <6> QED  BY <1>5, <4>1, <5>1, <6>1
        <5>2. CASE t # to
          BY <1>4, <2>2, <3>0, <3>1, <4>1, <5>2
        <5> QED  BY <5>1, <5>2
      <4> QED  BY <3>1, <4>2 DEF At
    <3>3. CASE ~At(rc, rw, g)
      BY <3>0, <3>1, <3>3 DEF TablesRight, Placed
    <3> QED  BY <3>2, <3>3
  <2> QED  BY <2>1, <2>2
<1>12. At(rc2, rw2, h) /\ h.index \in 1 .. Len(rc2)
  <2>1. n < n + 1
    BY ONLY <1>2
  <2> QED  BY <1>0, <1>1, <1>4, <1>5, <2>1 DEF At, OthersMoved
<1>13. Placed(rc2, rw2, lv)
  BY <1>4, <1>7, <1>11, <1>12 DEF Placed
<1> QED  BY <1>6, <1>10, <1>13 DEF TablesRight

\* A migration gives its entity the contents it was called with and leaves
\* everybody else's as they are.
LEMMA MovedContents ==
    ASSUME NEW rc, NEW rw, NEW lv, TablesRight(rc, rw, lv), NEW h \in lv,
           NEW from, NEW r, from = rc[h.index].type, r = rc[h.index].row,
           NEW to \in TableType, to # from, NEW val \in [to -> Payload],
           NEW rc2, NEW rw2, MoveEffects(rc, rw, rc2, rw2, h, from, r, to, val)
    PROVE  ContentsOf(rc2, rw2, lv) = [ContentsOf(rc, rw, lv) EXCEPT ![h] = val]
<1>0. PICK left, n, row : /\ left = SwapRemove(rw[from], r + 1) /\ n = Len(rw[to])
                          /\ row = [entity |-> h, value |-> val]
  OBVIOUS
<1>1. TablesRight(rc2, rw2, lv)
  BY MovedTables
<1>2. from \in TableType /\ r \in Nat /\ rw[from] \in Seq(RowsOf(from))
  BY LiveEntity DEF EntityAt
<1>3. rw[to] \in Seq(RowsOf(to)) /\ n \in Nat
  <2>1. rw[to] \in Seq(RowsOf(to))
    BY DEF TablesRight, Typed
  <2> QED  BY <1>0, <2>1
<1>4. IsLeft(left, rw[from], r)
  BY <1>0, <1>2, LeftRows
<1>5. /\ rw2[to] = Append(rw[to], row) /\ rw2[from] = left
      /\ \A u \in TableType : u # from /\ u # to => rw2[u] = rw[u]
      /\ OthersMoved(rc, rw, rc2, h, from, r)
      /\ rc2[h.index].type = to /\ rc2[h.index].row = n
  BY <1>0 DEF MoveEffects
<1>6. /\ Len(rw2[to]) = n + 1 /\ rw2[to][n + 1] = row
      /\ \A j \in 1 .. n : rw2[to][j] = rw[to][j]
  BY <1>0, <1>3, <1>5
<1>7. ContentsOf(rc2, rw2, lv)[h] = val
  <2>1. CASE to = RootType
    <3>1. val = << >>
      BY <2>1 DEF RootType
    <3> QED  BY <1>5, <2>1, <3>1 DEF ContentsOf
  <2>2. CASE to # RootType
    BY <1>0, <1>5, <1>6, <2>2 DEF ContentsOf
  <2> QED  BY <2>1, <2>2
<1>8. ASSUME NEW g \in lv, g # h
      PROVE  ContentsOf(rc2, rw2, lv)[g] = ContentsOf(rc, rw, lv)[g]
  <2>0. PICK t : t = rc[g.index].type
    OBVIOUS
  <2>1. t \in TableType /\ rc2[g.index].type = t
    <3>1. EntityAt(rc, rw, lv, g, t, rc[g.index].row)
      BY <2>0, LiveEntity
    <3>2. rc2[g.index].type = rc[g.index].type
      BY <1>5, <1>8, OthersPlaced
    <3> QED  BY <2>0, <3>1, <3>2 DEF EntityAt
  <2>2. ASSUME NEW j \in 1 .. Len(rw2[t]), rw2[t][j].entity = g
        PROVE  \E k \in 1 .. Len(rw[t]) : rw2[t][j] = rw[t][k]
    <3>1. CASE t = from
      BY <1>4, <1>5, <2>2, <3>1 DEF IsLeft
    <3>2. CASE t = to
      <4>1. j # n + 1
        BY <1>0, <1>6, <1>8, <2>2, <3>2
      <4>2. j \in 1 .. n
        BY <1>3, <1>6, <2>2, <3>2, <4>1
      <4> QED  BY <1>0, <1>6, <3>2, <4>2
    <3>3. CASE t # from /\ t # to
      BY <1>5, <2>1, <2>2, <3>3
    <3> QED  BY <3>1, <3>2, <3>3
  <2>3. CameFrom(rw, rw2, t, g)
    BY <2>2 DEF CameFrom
  <2> QED  BY ONLY TablesRight(rc, rw, lv), <1>1, g \in lv, <2>0, <2>1, <2>3, ContentsKept
<1>9. /\ ContentsOf(rc2, rw2, lv) = [g \in lv |-> ContentsOf(rc2, rw2, lv)[g]]
      /\ ContentsOf(rc, rw, lv) = [g \in lv |-> ContentsOf(rc, rw, lv)[g]]
  BY DEF ContentsOf
<1> QED  BY <1>7, <1>8, <1>9

\* h, in row r of table t, is destroyed.
RetireEffects(rc, rw, rc2, rw2, h, t, r) ==
    /\ rw2 = [u \in TableType |-> rw2[u]]
    /\ rw2[t] = IF t = RootType THEN rw[t] ELSE SwapRemove(rw[t], r + 1)
    /\ \A u \in TableType : u # t => rw2[u] = rw[u]
    /\ rc2 \in Seq(Record) /\ Len(rc2) = Len(rc)
    /\ \A i \in 1 .. Len(rc) : i # h.index =>
          /\ rc2[i].generation = rc[i].generation
          /\ rc2[i].type = rc[i].type
          /\ rc2[i].row = IF t = RootType THEN rc[i].row ELSE NewRow(rc, rw, t, r, i)

\* What RetireFrom does to records and tables.
LEMMA RetireHasEffects ==
    ASSUME NEW rc, NEW rw, NEW lv, TablesRight(rc, rw, lv), NEW h \in lv,
           NEW t, NEW r, t = rc[h.index].type, r = rc[h.index].row
    PROVE  RetireEffects(rc, rw,
               Retire(IF t = RootType THEN rc ELSE FixSwapped(rc, rw, t, r), h.index),
               IF t = RootType THEN rw ELSE RemoveRow(rw, t, r), h, t, r)
<1>0. PICK fixed, rc2, rw2 :
         /\ fixed = IF t = RootType THEN rc ELSE FixSwapped(rc, rw, t, r)
         /\ rc2 = Retire(fixed, h.index)
         /\ rw2 = IF t = RootType THEN rw ELSE RemoveRow(rw, t, r)
  OBVIOUS
<1>1. /\ t \in TableType /\ r \in Nat /\ h.index \in 1 .. Len(rc) /\ rc \in Seq(Record)
      /\ rw = [u \in TableType |-> rw[u]]
  <2>1. rw = [u \in TableType |-> rw[u]]
    BY DEF TablesRight, Typed
  <2>2. EntityAt(rc, rw, lv, h, t, r)
    BY LiveEntity
  <2> QED  BY ONLY <2>1, <2>2 DEF EntityAt
<1>2. /\ rw2 = [u \in TableType |-> rw2[u]]
      /\ rw2[t] = IF t = RootType THEN rw[t] ELSE SwapRemove(rw[t], r + 1)
      /\ \A u \in TableType : u # t => rw2[u] = rw[u]
  <2>1. CASE t = RootType
    BY <1>0, <1>1, <2>1
  <2>2. CASE t # RootType
    <3>1. rw2 = [u \in TableType |-> IF u = t THEN SwapRemove(rw[t], r + 1) ELSE rw[u]]
      BY <1>0, <1>1, <2>2 DEF RemoveRow
    <3> QED  BY <1>1, <2>2, <3>1
  <2> QED  BY <2>1, <2>2
<1>3. /\ fixed \in Seq(Record) /\ Len(fixed) = Len(rc)
      /\ \A i \in 1 .. Len(rc) :
            /\ fixed[i].type = rc[i].type
            /\ fixed[i].generation = rc[i].generation
            /\ fixed[i].row = IF t = RootType THEN rc[i].row ELSE NewRow(rc, rw, t, r, i)
  <2>1. CASE t = RootType
    BY <1>0, <1>1, <2>1
  <2>2. CASE t # RootType
    <3>1. LET new == FixSwapped(rc, rw, t, r)
              last == rw[t][Len(rw[t])].entity.index
          IN  /\ new \in Seq(Record) /\ Len(new) = Len(rc)
              /\ \A i \in 1 .. Len(rc) :
                    /\ new[i].type = rc[i].type
                    /\ new[i].generation = rc[i].generation
                    /\ new[i].row = IF Moves(rw, t, r) /\ i = last THEN r ELSE rc[i].row
      BY ONLY <1>1, FixSwappedProperties
    <3> QED  BY ONLY <1>0, <2>2, <3>1 DEF NewRow
  <2> QED  BY <2>1, <2>2
<1>4. /\ rc2 \in Seq(Record) /\ Len(rc2) = Len(fixed)
      /\ \A i \in 1 .. Len(fixed) : i # h.index => rc2[i] = fixed[i]
  <2>0. PICK k : k = h.index
    OBVIOUS
  <2>1. k \in 1 .. Len(fixed) /\ rc2 = Retire(fixed, k)
    BY <1>0, <1>1, <1>3, <2>0
  <2>2. /\ rc2 \in Seq(Record) /\ Len(rc2) = Len(fixed)
        /\ \A i \in 1 .. Len(fixed) : i # k => rc2[i] = fixed[i]
    BY ONLY <1>3, <2>1, RetireProperties
  <2> QED  BY <2>0, <2>2
<1>5. \A i \in 1 .. Len(rc) : i # h.index =>
         /\ rc2[i].generation = rc[i].generation
         /\ rc2[i].type = rc[i].type
         /\ rc2[i].row = IF t = RootType THEN rc[i].row ELSE NewRow(rc, rw, t, r, i)
  BY ONLY <1>3, <1>4
<1> QED  BY Zenon, <1>0, <1>2, <1>3, <1>4, <1>5 DEF RetireEffects

\* After a destruction records and rows agree, unless table 0 listed the entity.
LEMMA RetiredTables ==
    ASSUME NEW rc, NEW rw, NEW lv, TablesRight(rc, rw, lv), NEW h \in lv,
           NEW t, NEW r, t = rc[h.index].type, r = rc[h.index].row,
           ~(t = RootType /\ At(rc, rw, h)),
           NEW rc2, NEW rw2, RetireEffects(rc, rw, rc2, rw2, h, t, r)
    PROVE  TablesRight(rc2, rw2, lv \ {h})
<1>0. PICK left : left = SwapRemove(rw[t], r + 1)
  OBVIOUS
<1>1. t \in TableType /\ r \in Nat /\ rw[t] \in Seq(RowsOf(t))
  BY LiveEntity DEF EntityAt
<1>2. left \in Seq(RowsOf(t)) /\ IsLeft(left, rw[t], r)
  BY <1>0, <1>1, LeftRows
<1>3. /\ rw2 = [u \in TableType |-> rw2[u]]
      /\ rw2[t] = IF t = RootType THEN rw[t] ELSE left
      /\ \A u \in TableType : u # t => rw2[u] = rw[u]
      /\ rc2 \in Seq(Record) /\ Len(rc2) = Len(rc)
  BY <1>0 DEF RetireEffects
<1>4. Typed(rc2, rw2, lv \ {h})
  <2>1. \A u \in TableType : rw2[u] \in Seq(RowsOf(u))
    BY <1>2, <1>3 DEF TablesRight, Typed
  <2> QED  BY <1>3, <2>1 DEF TablesRight, Typed
<1>5. ASSUME NEW g \in lv, g # h
      PROVE  /\ g.index \in 1 .. Len(rc2) /\ rc2[g.index].generation = g.generation
             /\ rc2[g.index].type = rc[g.index].type
             /\ rc2[g.index].row = IF t = RootType THEN rc[g.index].row
                                   ELSE NewRow(rc, rw, t, r, g.index)
  <2>1. g.index \in 1 .. Len(rc) /\ rc[g.index].generation = g.generation
    BY LiveEntity DEF EntityAt
  <2>2. g.index # h.index
    BY <1>5, OneOwner
  <2> QED  BY <1>3, <2>1, <2>2 DEF RetireEffects
<1>6. ASSUME NEW g \in lv, g # h, t # RootType
      PROVE  /\ rc2[g.index].row \in Nat
             /\ rc[g.index].type # t => rc2[g.index].row = rc[g.index].row
             /\ rc[g.index].type = t =>
                   rc2[g.index].row < Len(left) /\ left[rc2[g.index].row + 1].entity = g
  <2>1. PICK row : row = NewRow(rc, rw, t, r, g.index)
    OBVIOUS
  <2>2. /\ row \in Nat
        /\ rc[g.index].type # t => row = rc[g.index].row
        /\ rc[g.index].type = t =>
              \/ row < Len(left) /\ left[row + 1].entity = g
              \/ t = RootType /\ row = 0
    BY ONLY TablesRight(rc, rw, lv), h \in lv, t = rc[h.index].type, r = rc[h.index].row,
            <1>0, <1>6, <2>1, OthersLeft
  <2>3. rc2[g.index].row = row
    BY <1>5, <1>6, <2>1
  <2> QED  BY ONLY <1>6, <2>2, <2>3
<1>7. ASSUME NEW u \in TableType, NEW j \in 1 .. Len(rw2[u]), NEW g, g = rw2[u][j].entity
      PROVE  RecordedAt(rc2, lv \ {h}, g, u, j - 1)
  <2>1. CASE u = t /\ t # RootType
    <3>1. j \in 1 .. Len(left) /\ g = left[j].entity
      BY <1>3, <1>7, <2>1
    <3>2. StaysAt(rc, rw, lv, h, t, r, g, j - 1)
      BY <1>0, <3>1, RowsLeft
    <3> QED  BY <1>5, <2>1, <3>2 DEF RecordedAt, StaysAt
  <2>2. CASE u # t \/ t = RootType
    <3>1. j \in 1 .. Len(rw[u]) /\ g = rw[u][j].entity
      BY <1>3, <1>7, <2>2
    <3>2. RecordedAt(rc, lv, g, u, j - 1)
      BY ONLY TablesRight(rc, rw, lv), u \in TableType, <3>1 DEF TablesRight, Backed
    <3>3. g \in lv /\ rc[g.index].type = u /\ rc[g.index].row = j - 1
      BY <3>2 DEF RecordedAt
    <3>4. g # h
      <4> SUFFICES ASSUME g = h PROVE FALSE
        OBVIOUS
      <4>1. u = t /\ t = RootType /\ r = j - 1
        BY <2>2, <3>3
      <4>2. r < Len(rw[t]) /\ r + 1 = j
        <5>1. j \in 1 .. Len(rw[t])
          BY ONLY <3>1, <4>1
        <5> QED  BY ONLY <1>1, <4>1, <5>1
      <4>3. At(rc, rw, h)
        BY Zenon, <3>1, <4>1, <4>2 DEF At
      <4> QED  BY <4>1, <4>3
    <3> QED  BY <1>5, <1>6, <2>2, <3>3, <3>4 DEF RecordedAt
  <2> QED  BY <2>1, <2>2
<1>8. Backed(rc2, rw2, lv \ {h})
  BY <1>7 DEF Backed
<1>9. ASSUME NEW g \in lv, g # h
      PROVE  At(rc2, rw2, g) \/ (rc2[g.index].type = RootType /\ rc2[g.index].row = 0)
  <2>1. CASE rc[g.index].type = t /\ t # RootType
    <3>1. rc2[g.index].row < Len(left) /\ left[rc2[g.index].row + 1].entity = g
      BY <1>6, <1>9, <2>1
    <3>2. rw2[rc2[g.index].type] = left
      BY <1>3, <1>5, <1>9, <2>1
    <3> QED  BY <3>1, <3>2 DEF At
  <2>2. CASE rc[g.index].type # t \/ t = RootType
    <3>1. /\ rc2[g.index].type = rc[g.index].type /\ rc2[g.index].row = rc[g.index].row
          /\ rc[g.index].type \in TableType
      BY <1>5, <1>6, <1>9, <2>2, LiveEntity DEF EntityAt
    <3>2. rw2[rc[g.index].type] = rw[rc[g.index].type]
      BY <1>3, <2>2, <3>1
    <3> QED  BY <3>1, <3>2 DEF At, TablesRight, Placed
  <2> QED  BY <2>1, <2>2
<1>10. Placed(rc2, rw2, lv \ {h})
  BY <1>5, <1>9 DEF Placed
<1> QED  BY <1>4, <1>8, <1>10 DEF TablesRight

\* A destruction changes the contents of no other entity.
LEMMA RetiredContents ==
    ASSUME NEW rc, NEW rw, NEW lv, TablesRight(rc, rw, lv), NEW h \in lv,
           NEW t, NEW r, t = rc[h.index].type, r = rc[h.index].row,
           ~(t = RootType /\ At(rc, rw, h)),
           NEW rc2, NEW rw2, RetireEffects(rc, rw, rc2, rw2, h, t, r)
    PROVE  ContentsOf(rc2, rw2, lv \ {h}) = [g \in lv \ {h} |-> ContentsOf(rc, rw, lv)[g]]
<1>0. PICK left : left = SwapRemove(rw[t], r + 1)
  OBVIOUS
<1>1. TablesRight(rc2, rw2, lv \ {h})
  BY RetiredTables
<1>2. t \in TableType /\ r \in Nat /\ rw[t] \in Seq(RowsOf(t))
  BY LiveEntity DEF EntityAt
<1>3. IsLeft(left, rw[t], r)
  BY <1>0, <1>2, LeftRows
<1>4. ASSUME NEW g \in lv \ {h}
      PROVE  ContentsOf(rc2, rw2, lv \ {h})[g] = ContentsOf(rc, rw, lv)[g]
  <2>0. PICK u : u = rc[g.index].type
    OBVIOUS
  <2>1. u \in TableType /\ g.index \in 1 .. Len(rc)
    BY <2>0, LiveEntity DEF EntityAt
  <2>2. rc2[g.index].type = u
    <3>1. g.index # h.index
      BY OneOwner
    <3> QED  BY <2>0, <2>1, <3>1 DEF RetireEffects
  <2>3. ASSUME NEW j \in 1 .. Len(rw2[u])
        PROVE  \E k \in 1 .. Len(rw[u]) : rw2[u][j] = rw[u][k]
    <3>1. CASE u = t /\ t # RootType
      <4>1. rw2[u] = left
        BY <1>0, <3>1 DEF RetireEffects
      <4> QED  BY <1>3, <2>3, <3>1, <4>1 DEF IsLeft
    <3>2. CASE u # t \/ t = RootType
      <4>1. rw2[u] = rw[u]
        BY <2>1, <3>2 DEF RetireEffects
      <4> QED  BY <2>3, <4>1
    <3> QED  BY <3>1, <3>2
  <2>4. CameFrom(rw, rw2, u, g)
    BY <2>3 DEF CameFrom
  <2>5. g \in lv /\ g \in lv \ {h}
    OBVIOUS
  <2> QED  BY ONLY TablesRight(rc, rw, lv), <1>1, <2>0, <2>2, <2>4, <2>5, ContentsKept
<1>5. ContentsOf(rc2, rw2, lv \ {h}) = [g \in lv \ {h} |-> ContentsOf(rc2, rw2, lv \ {h})[g]]
  BY DEF ContentsOf
<1> QED  BY <1>4, <1>5

\* rc2 has a new record, of the bare entity h; the others are those of rc.
AddsRecord(rc, rc2, lv, h) ==
    /\ rc2 \in Seq(Record) /\ Len(rc2) <= MaxEntities
    /\ h \in Handle /\ h.index \in 1 .. Len(rc2)
    /\ rc2[h.index] = [type |-> RootType, row |-> 0, generation |-> h.generation]
    /\ \A g \in lv : /\ g.index # h.index /\ g.index \in 1 .. Len(rc2)
                      /\ rc2[g.index] = rc[g.index]

\* w2 has h besides the entities of w.
AddsBare(w, w2, h) ==
    w2 = [g \in DOMAIN w \cup {h} |-> IF g = h THEN << >> ELSE w[g]]

\* A new record stands for a bare entity that no table lists.
LEMMA Enlisted ==
    ASSUME NEW rc, NEW rw, NEW lv, TablesRight(rc, rw, lv),
           NEW rc2, NEW h, AddsRecord(rc, rc2, lv, h)
    PROVE  /\ TablesRight(rc2, rw, lv \cup {h}) /\ h \notin lv
           /\ AddsBare(ContentsOf(rc, rw, lv), ContentsOf(rc2, rw, lv \cup {h}), h)
<1>1. h \notin lv
  BY DEF AddsRecord
<1>2. rc2[h.index].type = RootType /\ rc2[h.index].row = 0
      /\ rc2[h.index].generation = h.generation
  BY DEF AddsRecord
<1>3. Typed(rc2, rw, lv \cup {h})
  BY DEF TablesRight, Typed, AddsRecord
<1>4. Backed(rc2, rw, lv \cup {h})
  <2> SUFFICES ASSUME NEW t \in TableType, NEW j \in 1 .. Len(rw[t])
               PROVE  RecordedAt(rc2, lv \cup {h}, rw[t][j].entity, t, j - 1)
    BY DEF Backed
  <2>1. RecordedAt(rc, lv, rw[t][j].entity, t, j - 1)
    BY DEF TablesRight, Backed
  <2> QED  BY <2>1 DEF RecordedAt, AddsRecord
<1>5. Placed(rc2, rw, lv \cup {h})
  <2>1. ASSUME NEW g \in lv
        PROVE  /\ rc2[g.index].generation = g.generation
               /\ At(rc2, rw, g) \/ (rc2[g.index].type = RootType /\ rc2[g.index].row = 0)
    <3>1. rc2[g.index] = rc[g.index]
      BY DEF AddsRecord
    <3>2. /\ rc[g.index].generation = g.generation
          /\ At(rc, rw, g) \/ (rc[g.index].type = RootType /\ rc[g.index].row = 0)
      BY DEF TablesRight, Placed
    <3> QED  BY <3>1, <3>2 DEF At
  <2> QED  BY <1>2, <2>1 DEF Placed, AddsRecord
<1>6. ASSUME NEW g \in lv \cup {h}
      PROVE  ContentsOf(rc2, rw, lv \cup {h})[g]
               = IF g = h THEN << >> ELSE ContentsOf(rc, rw, lv)[g]
  BY <1>1, <1>2 DEF ContentsOf, AddsRecord
<1>7. ContentsOf(rc2, rw, lv \cup {h})
        = [g \in lv \cup {h} |-> ContentsOf(rc2, rw, lv \cup {h})[g]]
  BY DEF ContentsOf
<1>8. DOMAIN ContentsOf(rc, rw, lv) = lv
  BY DEF ContentsOf
<1>9. AddsBare(ContentsOf(rc, rw, lv), ContentsOf(rc2, rw, lv \cup {h}), h)
  BY <1>6, <1>7, <1>8 DEF AddsBare
<1> QED  BY <1>1, <1>3, <1>4, <1>5, <1>9 DEF TablesRight

\* Component c in row r of table t, or of entity h, becomes v.
WroteRow(rw, rw2, t, r, c, v) == rw2 = [rw EXCEPT ![t] = WriteCell(@, r + 1, c, v)]
WroteEntity(w, w2, h, c, v) == w2 = [w EXCEPT ![h] = [w[h] EXCEPT ![c] = v]]

\* Writing a component moves nothing, and changes one value of one entity.
LEMMA CellWritten ==
    ASSUME NEW rc, NEW rw, NEW lv, TablesRight(rc, rw, lv), NEW h \in lv,
           NEW t, NEW r, t = rc[h.index].type, r = rc[h.index].row,
           NEW c \in t, NEW v \in Payload,
           NEW rw2, WroteRow(rw, rw2, t, r, c, v)
    PROVE  /\ TablesRight(rc, rw2, lv)
           /\ WroteEntity(ContentsOf(rc, rw, lv), ContentsOf(rc, rw2, lv), h, c, v)
<1>0. PICK s, old : s = rw[t] /\ old = s[r + 1]
  OBVIOUS
<1>1. EntityAt(rc, rw, lv, h, t, r)
  BY LiveEntity
<1>2. /\ t \in TableType /\ r \in Nat /\ s \in Seq(RowsOf(t)) /\ t # RootType
      /\ r + 1 \in 1 .. Len(s) /\ old.entity = h /\ Len(s) \in Nat
      /\ ContentsOf(rc, rw, lv)[h] = old.value
  BY <1>0, <1>1 DEF EntityAt, RootType
<1>3. old \in RowsOf(t) /\ old.value \in [t -> Payload]
  <2>1. old \in RowsOf(t)
    BY ONLY <1>0, <1>2
  <2> QED  BY <2>1 DEF RowsOf
<1>4. PICK new : new = [old EXCEPT !.value = [old.value EXCEPT ![c] = v]]
  OBVIOUS
<1>5. /\ new \in RowsOf(t) /\ new.entity = h
      /\ new.value = [old.value EXCEPT ![c] = v]
  BY <1>2, <1>3, <1>4 DEF RowsOf
<1>6. rw = [u \in TableType |-> rw[u]]
  BY DEF TablesRight, Typed
<1>7. PICK s2 : s2 = [k \in 1 .. Len(s) |-> IF k = r + 1 THEN new ELSE s[k]]
  OBVIOUS
<1>8. WriteCell(s, r + 1, c, v) = s2
  <2>1. [s[r + 1] EXCEPT !.value[c] = v] = new
    BY ONLY <1>0, <1>4
  <2> QED  BY <1>7, <2>1 DEF WriteCell
<1>9. rw2 = [u \in TableType |-> IF u = t THEN s2 ELSE rw[u]]
  BY <1>0, <1>2, <1>6, <1>8 DEF WroteRow
<1>10. /\ s2 \in Seq(RowsOf(t)) /\ Len(s2) = Len(s)
       /\ \A j \in 1 .. Len(s) : s2[j] = IF j = r + 1 THEN new ELSE s[j]
  <2>1. \A k \in 1 .. Len(s) : (IF k = r + 1 THEN new ELSE s[k]) \in RowsOf(t)
    BY <1>2, <1>5
  <2>2. s2 \in [1 .. Len(s) -> RowsOf(t)]
    BY <1>7, <2>1
  <2> QED  BY <1>2, <1>7, <2>2
<1>11. ASSUME NEW j \in 1 .. Len(s)
       PROVE  s2[j].entity = s[j].entity
  BY ONLY j \in 1 .. Len(s), <1>0, <1>2, <1>5, <1>10
<1>12. \A u \in TableType :
          /\ rw2[u] \in Seq(RowsOf(u)) /\ Len(rw2[u]) = Len(rw[u])
          /\ \A j \in 1 .. Len(rw[u]) : rw2[u][j].entity = rw[u][j].entity
  <2>1. \A u \in TableType : rw[u] \in Seq(RowsOf(u))
    BY DEF TablesRight, Typed
  <2> QED  BY <1>0, <1>9, <1>10, <1>11, <2>1
<1>13. Typed(rc, rw2, lv)
  <2>1. rw2 = [u \in TableType |-> rw2[u]]
    BY <1>9
  <2> QED  BY <1>12, <2>1 DEF TablesRight, Typed
<1>14. Backed(rc, rw2, lv)
  <2> SUFFICES ASSUME NEW u \in TableType, NEW j \in 1 .. Len(rw2[u])
               PROVE  RecordedAt(rc, lv, rw2[u][j].entity, u, j - 1)
    BY DEF Backed
  <2>1. j \in 1 .. Len(rw[u]) /\ rw2[u][j].entity = rw[u][j].entity
    BY <1>12
  <2> QED  BY <2>1 DEF TablesRight, Backed
<1>15. ASSUME NEW g \in lv
       PROVE  At(rc, rw, g) => At(rc, rw2, g)
  <2>0. PICK u, q : u = rc[g.index].type /\ q = rc[g.index].row
    OBVIOUS
  <2>1. u \in TableType /\ q \in Nat /\ Len(rw[u]) \in Nat
    BY <2>0, LiveEntity DEF EntityAt
  <2>2. q < Len(rw[u]) => q + 1 \in 1 .. Len(rw[u])
    BY ONLY <2>1
  <2> QED  BY <1>12, <2>0, <2>1, <2>2 DEF At
<1>16. Placed(rc, rw2, lv)
  BY <1>15 DEF TablesRight, Placed
<1>17. TablesRight(rc, rw2, lv)
  BY <1>13, <1>14, <1>16 DEF TablesRight
<1>18. ContentsOf(rc, rw2, lv)[h] = [ContentsOf(rc, rw, lv)[h] EXCEPT ![c] = v]
  BY Zenon, <1>2, <1>5, <1>9, <1>10 DEF ContentsOf
<1>19. ASSUME NEW g \in lv, g # h
       PROVE  ContentsOf(rc, rw2, lv)[g] = ContentsOf(rc, rw, lv)[g]
  <2>0. PICK u : u = rc[g.index].type
    OBVIOUS
  <2>1. u \in TableType
    BY <2>0, LiveEntity DEF EntityAt
  <2>2. ASSUME NEW j \in 1 .. Len(rw2[u]), rw2[u][j].entity = g
        PROVE  \E k \in 1 .. Len(rw[u]) : rw2[u][j] = rw[u][k]
    <3>1. CASE u = t
      <4>1. j \in 1 .. Len(s) /\ j # r + 1 /\ rw2[u] = s2
        BY <1>5, <1>9, <1>10, <1>19, <2>1, <2>2, <3>1
      <4> QED  BY <1>0, <1>10, <3>1, <4>1
    <3>2. CASE u # t
      BY <1>9, <2>1, <2>2, <3>2
    <3> QED  BY <3>1, <3>2
  <2>3. CameFrom(rw, rw2, u, g)
    BY <2>2 DEF CameFrom
  <2> QED  BY ONLY TablesRight(rc, rw, lv), <1>17, g \in lv, <2>0, <2>3, ContentsKept
<1>20. /\ ContentsOf(rc, rw2, lv) = [g \in lv |-> ContentsOf(rc, rw2, lv)[g]]
       /\ ContentsOf(rc, rw, lv) = [g \in lv |-> ContentsOf(rc, rw, lv)[g]]
  BY DEF ContentsOf
<1> QED  BY <1>17, <1>18, <1>19, <1>20 DEF WroteEntity

-----------------------------------------------------------------------------
(* Contents.  w maps every entity to its components, as ContentsOf does. *)

\* The components b with c set to v, and without c.
Having(b, c, v) == [d \in DOMAIN b \cup {c} |-> IF d = c THEN v ELSE b[d]]
Lacking(b, c) == [d \in DOMAIN b \ {c} |-> b[d]]

\* list names exactly the entities of kids, none twice.
Names(list, kids) ==
    /\ list \in Seq(Handle)
    /\ \A i, j \in 1 .. Len(list) : list[i] = list[j] => i = j
    /\ \A j \in 1 .. Len(list) : list[j] \in kids
    /\ \A x \in kids : \E j \in 1 .. Len(list) : list[j] = x

\* An entity with components b lists kids; without any it has no list.
HasList(b, kids) ==
    IF RelationSource \in DOMAIN b
    THEN b[RelationSource] # << >> /\ Names(b[RelationSource], kids)
    ELSE kids = {}

Kids(w, p) == {c \in DOMAIN w : RelationTarget \in DOMAIN w[c] /\ w[c][RelationTarget] = p}

\* Lists and targets agree, and every target is there.
Linked(w) ==
    /\ DOMAIN w \subseteq Handle
    /\ \A p \in DOMAIN w : HasList(w[p], Kids(w, p))
    /\ \A c \in DOMAIN w : RelationTarget \in DOMAIN w[c] => w[c][RelationTarget] \in DOMAIN w

SameAt(c, b, b2) ==
    /\ c \in DOMAIN b2 <=> c \in DOMAIN b
    /\ c \in DOMAIN b => b2[c] = b[c]

\* Off the list of its parent c goes.
Left(w, c) ==
    LET p == w[c][RelationTarget]
        list == RemoveFrom(w[p][RelationSource], c)
    IN  [w EXCEPT ![p] = IF list = << >> THEN Lacking(@, RelationSource)
                         ELSE Having(@, RelationSource, list)]

\* w2 is w, but c is on no list any more.
Delisted(w, w2, c) ==
    /\ DOMAIN w2 = DOMAIN w
    /\ \A g \in DOMAIN w :
          /\ HasList(w2[g], Kids(w, g) \ {c})
          /\ SameAt(RelationTarget, w[g], w2[g])
          /\ RelationSource \notin DOMAIN w[g] => w2[g] = w[g]

Joined(w, c, p) ==
    [w EXCEPT ![p] = Having(@, RelationSource,
                            IF RelationSource \in DOMAIN @
                            THEN Append(@[RelationSource], c) ELSE <<c>>)]

\* Removing a name from a list.
LEMMA NameRemoved ==
    ASSUME NEW list, NEW kids, Names(list, kids), NEW x
    PROVE  Names(RemoveFrom(list, x), kids \ {x})
<1>1. list \in Seq(Handle) /\ Len(list) \in Nat /\ DOMAIN list = 1 .. Len(list)
  BY DEF Names
<1>2. CASE \A j \in 1 .. Len(list) : list[j] # x
  <2>1. RemoveFrom(list, x) = list
    BY <1>1, <1>2 DEF RemoveFrom
  <2>2. kids \ {x} = kids
    BY <1>2 DEF Names
  <2> QED  BY <2>1, <2>2
<1>3. ASSUME NEW i \in 1 .. Len(list), list[i] = x
      PROVE  Names(RemoveFrom(list, x), kids \ {x})
  <2> DEFINE First(j) == list[j] = x /\ \A k \in 1 .. j - 1 : list[k] # x
  <2>0. PICK k : k = CHOOSE j \in DOMAIN list : First(j)
    OBVIOUS
  <2>1. First(i)
    <3>1. ASSUME NEW k1 \in 1 .. i - 1 PROVE list[k1] # x
      <4>1. k1 \in 1 .. Len(list) /\ k1 # i
        BY <1>1
      <4> QED  BY <1>3, <4>1 DEF Names
    <3> QED  BY <1>3, <3>1
  <2>2. k \in 1 .. Len(list) /\ list[k] = x
    BY <1>1, <2>0, <2>1
  <2>3. PICK left, n : left = SwapRemove(list, k) /\ n = Len(list)
    OBVIOUS
  <2>4. RemoveFrom(list, x) = left
    BY <1>1, <1>3, <2>0, <2>3 DEF RemoveFrom
  <2>5. n \in Nat /\ k \in 1 .. n /\ n # 0 /\ k - 1 \in Nat /\ (k - 1) + 1 = k
    BY <1>1, <2>2, <2>3
  <2>6. left \in Seq(Handle) /\ IsLeft(left, list, k - 1)
    BY ONLY <1>1, <2>3, <2>5, LeftRows
  <2>7. /\ Len(left) = n - 1
        /\ \A j \in 1 .. Len(left) :
              j \in 1 .. n - 1 /\ left[j] = IF j = k THEN list[n] ELSE list[j]
    <3>1. list # << >>
      BY <1>1, <2>3, <2>5
    <3> QED  BY <2>3, <2>5, <2>6, <3>1 DEF IsLeft
  <2>8. ASSUME NEW j1 \in 1 .. Len(left), NEW j2 \in 1 .. Len(left), left[j1] = left[j2]
        PROVE  j1 = j2
    <3>1. /\ j1 \in 1 .. n - 1 /\ left[j1] = IF j1 = k THEN list[n] ELSE list[j1]
          /\ j2 \in 1 .. n - 1 /\ left[j2] = IF j2 = k THEN list[n] ELSE list[j2]
      BY <2>7
    <3>2. j1 \in 1 .. n /\ j2 \in 1 .. n /\ n \in 1 .. n /\ j1 # n /\ j2 # n
      BY <2>5, <3>1
    <3>3. \A a, b \in 1 .. n : list[a] = list[b] => a = b
      BY <2>3 DEF Names
    <3> QED  BY <2>8, <3>1, <3>2, <3>3
  <2>9. ASSUME NEW j \in 1 .. Len(left)
        PROVE  left[j] \in kids \ {x}
    <3>1. PICK m \in 1 .. n : m # k /\ left[j] = list[m]
      <4>1. j \in 1 .. n /\ n \in 1 .. n /\ j # n
        BY <2>5, <2>7
      <4> QED  BY <2>7, <4>1
    <3>2. list[m] \in kids /\ list[m] # list[k]
      BY <2>2, <2>3, <3>1 DEF Names
    <3> QED  BY <2>2, <3>1, <3>2
  <2>10. ASSUME NEW y \in kids \ {x}
         PROVE  \E j \in 1 .. Len(left) : left[j] = y
    <3>1. PICK m \in 1 .. n : list[m] = y
      BY <2>3 DEF Names
    <3>2. m # k
      BY <2>2, <3>1
    <3>3. CASE m = n
      <4>1. k \in 1 .. Len(left)
        BY <2>5, <2>7, <3>2, <3>3
      <4> QED  BY <2>7, <3>1, <3>3, <4>1
    <3>4. CASE m # n
      <4>1. m \in 1 .. Len(left)
        BY <2>5, <2>7, <3>4
      <4> QED  BY <2>7, <3>1, <3>2, <4>1
    <3> QED  BY <3>3, <3>4
  <2> QED  BY <2>4, <2>6, <2>8, <2>9, <2>10 DEF Names
<1> QED  BY <1>2, <1>3

\* Adding one that is not on it.
LEMMA NameAdded ==
    ASSUME NEW list, NEW kids, Names(list, kids), NEW x \in Handle, x \notin kids
    PROVE  Names(Append(list, x), kids \cup {x}) /\ Append(list, x) # << >>
<1>0. PICK n, new : n = Len(list) /\ new = Append(list, x)
  OBVIOUS
<1>1. list \in Seq(Handle) /\ n \in Nat
  BY <1>0 DEF Names
<1>2. /\ new \in Seq(Handle) /\ Len(new) = n + 1 /\ new[n + 1] = x
      /\ \A j \in 1 .. n : new[j] = list[j]
  BY <1>0, <1>1
<1>3. \A j \in 1 .. n : list[j] # x
  BY <1>0 DEF Names
<1>4. 1 .. n + 1 = (1 .. n) \cup {n + 1}
  BY <1>1
<1>5. \A i, j \in 1 .. Len(new) : new[i] = new[j] => i = j
  BY <1>0, <1>2, <1>3, <1>4 DEF Names
<1>6. \A j \in 1 .. Len(new) : new[j] \in kids \cup {x}
  BY <1>0, <1>2, <1>4 DEF Names
<1>7. \A y \in kids \cup {x} : \E j \in 1 .. Len(new) : new[j] = y
  BY <1>0, <1>2, <1>4 DEF Names
<1>8. new # << >>
  BY <1>1, <1>2
<1> QED  BY <1>0, <1>2, <1>5, <1>6, <1>7, <1>8 DEF Names

\* An empty list names nobody.
LEMMA NoNames ==
    ASSUME NEW kids, Names(<< >>, kids)
    PROVE  kids = {}
BY DEF Names

\* The target of a child has a list with this child on it.
LEMMA ParentListed ==
    ASSUME NEW w, Linked(w), NEW c \in DOMAIN w, RelationTarget \in DOMAIN w[c],
           NEW p, p = w[c][RelationTarget]
    PROVE  /\ p \in DOMAIN w /\ c \in Kids(w, p) /\ RelationSource \in DOMAIN w[p]
           /\ Names(w[p][RelationSource], Kids(w, p))
<1>1. p \in DOMAIN w
  BY DEF Linked
<1>2. c \in Kids(w, p)
  BY DEF Kids
<1>3. HasList(w[p], Kids(w, p))
  BY <1>1 DEF Linked
<1> QED  BY <1>1, <1>2, <1>3 DEF HasList

\* Leaving takes c off the one list it is on.
LEMMA LeftLists ==
    ASSUME NEW w, Linked(w), NEW c \in DOMAIN w, RelationTarget \in DOMAIN w[c]
    PROVE  Delisted(w, Left(w, c), c)
<1>0. PICK p, list : /\ p = w[c][RelationTarget]
                     /\ list = RemoveFrom(w[p][RelationSource], c)
  OBVIOUS
<1>1. /\ p \in DOMAIN w /\ c \in Kids(w, p) /\ RelationSource \in DOMAIN w[p]
      /\ Names(w[p][RelationSource], Kids(w, p))
  BY <1>0, ParentListed
<1>2. Names(list, Kids(w, p) \ {c})
  BY <1>0, <1>1, NameRemoved
<1>3. PICK b : b = IF list = << >> THEN Lacking(w[p], RelationSource)
                   ELSE Having(w[p], RelationSource, list)
  OBVIOUS
<1>4. HasList(b, Kids(w, p) \ {c}) /\ SameAt(RelationTarget, w[p], b)
  <2>1. CASE list = << >>
    <3>1. Kids(w, p) \ {c} = {}
      BY <1>2, <2>1, NoNames
    <3> QED  BY <1>3, <2>1, <3>1, RelationsAssumption DEF HasList, SameAt, Lacking
  <2>2. CASE list # << >>
    BY <1>2, <1>3, <2>2, RelationsAssumption DEF HasList, SameAt, Having
  <2> QED  BY <2>1, <2>2
<1>5. Left(w, c) = [w EXCEPT ![p] = b]
  BY <1>0, <1>3 DEF Left
<1>6. ASSUME NEW g \in DOMAIN w, g # p
      PROVE  HasList(w[g], Kids(w, g) \ {c})
  <2>1. c \notin Kids(w, g)
    BY <1>0, <1>6 DEF Kids
  <2>2. Kids(w, g) \ {c} = Kids(w, g)
    BY <2>1
  <2> QED  BY <2>2 DEF Linked
<1> QED  BY <1>1, <1>4, <1>5, <1>6 DEF Delisted, SameAt

\* One without a target is on no list.
LEMMA NeverListed ==
    ASSUME NEW w, Linked(w), NEW c \in DOMAIN w, RelationTarget \notin DOMAIN w[c]
    PROVE  Delisted(w, w, c)
<1>1. \A g \in DOMAIN w : Kids(w, g) \ {c} = Kids(w, g)
  BY DEF Kids
<1> QED  BY <1>1 DEF Delisted, Linked, SameAt

\* From off all lists, onto that of p.
LEMMA RelatedLinked ==
    ASSUME NEW w, Linked(w), NEW c \in DOMAIN w, NEW p \in DOMAIN w,
           NEW w1, Delisted(w, w1, c), NEW w2, w2 = Joined(w1, c, p),
           NEW w3, w3 = [w2 EXCEPT ![c] = Having(@, RelationTarget, p)]
    PROVE  Linked(w3)
<1>1. DOMAIN w1 = DOMAIN w /\ DOMAIN w2 = DOMAIN w /\ DOMAIN w3 = DOMAIN w /\ c \in Handle
  BY DEF Delisted, Joined, Linked
<1>2. HasList(w2[p], (Kids(w, p) \ {c}) \cup {c}) /\ SameAt(RelationTarget, w[p], w2[p])
  <2>1. HasList(w1[p], Kids(w, p) \ {c}) /\ SameAt(RelationTarget, w[p], w1[p])
    BY DEF Delisted
  <2>2. PICK list : list = IF RelationSource \in DOMAIN w1[p]
                           THEN Append(w1[p][RelationSource], c) ELSE <<c>>
    OBVIOUS
  <2>3. Names(list, (Kids(w, p) \ {c}) \cup {c}) /\ list # << >>
    <3>1. CASE RelationSource \in DOMAIN w1[p]
      <4>1. Names(w1[p][RelationSource], Kids(w, p) \ {c})
        BY <2>1, <3>1 DEF HasList
      <4> QED  BY <1>1, <2>2, <3>1, <4>1, NameAdded
    <3>2. CASE RelationSource \notin DOMAIN w1[p]
      <4>1. Kids(w, p) \ {c} = {} /\ list = <<c>>
        BY <2>1, <2>2, <3>2 DEF HasList
      <4>2. Names(<<c>>, {c}) /\ <<c>> # << >>
        BY <1>1 DEF Names
      <4> QED  BY <4>1, <4>2
    <3> QED  BY <3>1, <3>2
  <2>4. w2[p] = Having(w1[p], RelationSource, list)
    BY <1>1, <2>2 DEF Joined
  <2> QED  BY <2>1, <2>3, <2>4, RelationsAssumption DEF HasList, SameAt, Having
<1>3. ASSUME NEW g \in DOMAIN w, g # p
      PROVE  HasList(w2[g], Kids(w, g) \ {c}) /\ SameAt(RelationTarget, w[g], w2[g])
  <2>1. w2[g] = w1[g]
    BY <1>1, <1>3 DEF Joined
  <2> QED  BY <2>1 DEF Delisted
<1>4. ASSUME NEW g \in DOMAIN w, NEW kids, HasList(w2[g], kids)
      PROVE  HasList(w3[g], kids)
  BY <1>1, <1>4, RelationsAssumption DEF HasList, Having
<1>5. ASSUME NEW g \in DOMAIN w
      PROVE  Kids(w3, g) = IF g = p THEN (Kids(w, g) \ {c}) \cup {c} ELSE Kids(w, g) \ {c}
  <2>1. RelationTarget \in DOMAIN w3[c] /\ w3[c][RelationTarget] = p
    BY <1>1 DEF Having
  <2>2. \A x \in DOMAIN w : x # c => SameAt(RelationTarget, w[x], w3[x])
    BY <1>1, <1>2, <1>3
  <2> QED  BY <1>1, <2>1, <2>2 DEF Kids, SameAt
<1>6. ASSUME NEW g \in DOMAIN w
      PROVE  HasList(w3[g], Kids(w3, g))
  <2>1. CASE g = p
    BY <1>2, <1>4, <1>5, <2>1
  <2>2. CASE g # p
    <3>1. HasList(w2[g], Kids(w, g) \ {c})
      BY <1>3, <2>2
    <3>2. HasList(w3[g], Kids(w, g) \ {c})
      BY <1>4, <3>1
    <3> QED  BY <1>5, <2>2, <3>2
  <2> QED  BY <2>1, <2>2
<1>7. \A x \in DOMAIN w3 : RelationTarget \in DOMAIN w3[x] => w3[x][RelationTarget] \in DOMAIN w3
  <2>1. \A x \in DOMAIN w : x # c => SameAt(RelationTarget, w[x], w3[x])
    BY <1>1, <1>2, <1>3
  <2>2. w3[c][RelationTarget] = p
    BY <1>1 DEF Having
  <2> QED  BY <1>1, <2>1, <2>2 DEF SameAt, Linked
<1> QED  BY <1>1, <1>6, <1>7 DEF Linked

\* Off all lists, and without a target.
LEMMA UnrelatedLinked ==
    ASSUME NEW w, Linked(w), NEW c \in DOMAIN w, NEW w1, Delisted(w, w1, c),
           NEW w2, w2 = [w1 EXCEPT ![c] = Lacking(@, RelationTarget)]
    PROVE  Linked(w2)
<1>1. DOMAIN w1 = DOMAIN w /\ DOMAIN w2 = DOMAIN w
  BY DEF Delisted
<1>2. RelationTarget \notin DOMAIN w2[c]
  BY <1>1 DEF Lacking
<1>3. \A x \in DOMAIN w : x # c => SameAt(RelationTarget, w[x], w2[x])
  BY <1>1 DEF Delisted
<1>4. ASSUME NEW g \in DOMAIN w
      PROVE  HasList(w2[g], Kids(w2, g))
  <2>1. Kids(w2, g) = Kids(w, g) \ {c}
    BY <1>1, <1>2, <1>3 DEF Kids, SameAt
  <2>2. HasList(w1[g], Kids(w, g) \ {c})
    BY DEF Delisted
  <2> QED  BY <1>1, <2>1, <2>2, RelationsAssumption DEF HasList, Lacking
<1> QED  BY <1>1, <1>2, <1>3, <1>4 DEF Linked, SameAt

\* Off all lists, and gone; it has no list itself.
LEMMA DestroyedLinked ==
    ASSUME NEW w, Linked(w), NEW c \in DOMAIN w, NEW w1, Delisted(w, w1, c),
           RelationSource \notin DOMAIN w[c],
           NEW w2, w2 = [g \in DOMAIN w \ {c} |-> w1[g]]
    PROVE  Linked(w2)
<1>1. DOMAIN w1 = DOMAIN w /\ DOMAIN w2 = DOMAIN w \ {c}
  BY DEF Delisted
<1>2. Kids(w, c) = {}
  BY DEF Linked, HasList
<1>3. \A x \in DOMAIN w2 : SameAt(RelationTarget, w[x], w2[x])
  BY <1>1 DEF Delisted
<1>4. ASSUME NEW g \in DOMAIN w2
      PROVE  HasList(w2[g], Kids(w2, g))
  <2>1. Kids(w2, g) = Kids(w, g) \ {c}
    BY <1>1, <1>3 DEF Kids, SameAt
  <2>2. HasList(w1[g], Kids(w, g) \ {c})
    BY <1>1 DEF Delisted
  <2> QED  BY <2>1, <2>2
<1>5. ASSUME NEW x \in DOMAIN w2, RelationTarget \in DOMAIN w2[x]
      PROVE  w2[x][RelationTarget] \in DOMAIN w2
  <2>1. w2[x][RelationTarget] = w[x][RelationTarget] /\ RelationTarget \in DOMAIN w[x]
    BY <1>3, <1>5 DEF SameAt
  <2>2. x \in DOMAIN w /\ x \notin Kids(w, c)
    BY <1>1, <1>2
  <2> QED  BY <1>1, <2>1, <2>2 DEF Kids, Linked
<1> QED  BY <1>1, <1>4, <1>5 DEF Linked

\* Other components do not matter.
LEMMA UnaffectedLinked ==
    ASSUME NEW w, Linked(w), NEW w2, DOMAIN w2 = DOMAIN w,
           \A g \in DOMAIN w : /\ SameAt(RelationTarget, w[g], w2[g])
                               /\ SameAt(RelationSource, w[g], w2[g])
    PROVE  Linked(w2)
<1>1. \A g \in DOMAIN w : Kids(w2, g) = Kids(w, g)
  BY DEF Kids, SameAt
<1> QED  BY <1>1 DEF Linked, HasList, SameAt

\* Nor does an entity without any.
LEMMA CreatedLinked ==
    ASSUME NEW w, Linked(w), NEW h \in Handle, h \notin DOMAIN w,
           NEW w2, AddsBare(w, w2, h)
    PROVE  Linked(w2)
<1>1. DOMAIN w2 = DOMAIN w \cup {h} /\ w2[h] = << >> /\ \A g \in DOMAIN w : w2[g] = w[g]
  BY DEF AddsBare
<1>2. DOMAIN w2[h] = {}
  BY <1>1
<1>3. \A g \in DOMAIN w : Kids(w2, g) = Kids(w, g)
  BY <1>1, <1>2 DEF Kids
<1>4. Kids(w2, h) = {}
  BY <1>1, <1>2 DEF Kids, Linked
<1>5. \A g \in DOMAIN w2 : HasList(w2[g], Kids(w2, g))
  BY <1>1, <1>2, <1>3, <1>4 DEF Linked, HasList
<1> QED  BY <1>1, <1>2, <1>5 DEF Linked

-----------------------------------------------------------------------------
(* Operations on stores *)

IsStore(st) ==
    st = [rec |-> st.rec, free |-> st.free, rows |-> st.rows, live |-> st.live,
          dead |-> st.dead, ok |-> st.ok, steady |-> st.steady, moves |-> st.moves]

\* A store in good order.
Sound(st) ==
    /\ IsStore(st) /\ st.ok = TRUE
    /\ TablesRight(st.rec, st.rows, st.live)
    /\ FreeRight(st.rec, st.free, st.live)

Bar(st) == ContentsOf(st.rec, st.rows, st.live)

\* st2 is in good order, has the entities of st, and their contents are w.
Yields(st, st2, w) ==
    /\ Sound(st2)
    /\ st2.free = st.free /\ st2.live = st.live /\ st2.dead = st.dead
    /\ Bar(st2) = w

\* What is read from a store are contents.
LEMMA ReadsContents ==
    ASSUME NEW st, Sound(st), NEW h \in st.live
    PROVE  /\ DOMAIN Bar(st) = st.live
           /\ AliveIn(st, h)
           /\ TypeIn(st, h) \in TableType
           /\ Bar(st)[h] \in [TypeIn(st, h) -> Payload]
           /\ \A c \in TypeIn(st, h) : Readable(st, h, c) /\ Get(st, h, c) = Bar(st)[h][c]
<1>0. PICK t, r : t = TypeIn(st, h) /\ r = RowIn(st, h)
  OBVIOUS
<1>1. TablesRight(st.rec, st.rows, st.live) /\ st.ok = TRUE
  BY DEF Sound
<1>2. EntityAt(st.rec, st.rows, st.live, h, t, r)
  BY <1>0, <1>1, LiveEntity DEF TypeIn, RowIn
<1>3. DOMAIN Bar(st) = st.live
  BY DEF Bar, ContentsOf
<1>4. AliveIn(st, h) /\ t \in TableType /\ Bar(st)[h] \in [t -> Payload]
  BY <1>2 DEF AliveIn, EntityAt, Bar
<1>5. ASSUME NEW c \in t
      PROVE  Readable(st, h, c) /\ Get(st, h, c) = Bar(st)[h][c]
  <2>1. t # RootType
    BY <1>5 DEF RootType
  <2>2. r + 1 \in 1 .. Len(st.rows[t]) /\ r \in Nat /\ Len(st.rows[t]) \in Nat
        /\ Bar(st)[h] = st.rows[t][r + 1].value
    BY <1>2, <2>1 DEF EntityAt, Bar
  <2>3. r < Len(st.rows[t])
    BY <2>2
  <2> QED  BY <1>0, <1>1, <1>4, <2>2, <2>3 DEF Readable, Get
<1> QED  BY <1>0, <1>3, <1>4, <1>5

\* Put writes one component.
LEMMA PutYields ==
    ASSUME NEW st, Sound(st), NEW h \in st.live, NEW c \in TypeIn(st, h), NEW v \in Payload
    PROVE  Yields(st, Put(st, h, c, v), [Bar(st) EXCEPT ![h] = Having(@, c, v)])
<1>0. PICK t, r, rw2, st2 :
          /\ t = TypeIn(st, h) /\ r = RowIn(st, h)
          /\ rw2 = [st.rows EXCEPT ![t] = WriteCell(@, r + 1, c, v)]
          /\ st2 = Put(st, h, c, v)
  OBVIOUS
<1>1. TablesRight(st.rec, st.rows, st.live) /\ IsStore(st)
  BY DEF Sound
<1>2. st2 = [st EXCEPT !.rows = rw2]
  BY <1>0, <1>1 DEF Put, IsStore
<1>3. /\ st2.rec = st.rec /\ st2.free = st.free /\ st2.live = st.live /\ st2.dead = st.dead
      /\ st2.ok = st.ok /\ st2.rows = rw2 /\ IsStore(st2)
  BY <1>1, <1>2 DEF IsStore
<1>4. t = st.rec[h.index].type /\ r = st.rec[h.index].row /\ c \in t
  BY <1>0 DEF TypeIn, RowIn
<1>5. /\ TablesRight(st.rec, rw2, st.live)
      /\ ContentsOf(st.rec, rw2, st.live)
           = [ContentsOf(st.rec, st.rows, st.live) EXCEPT ![h] =
                 [ContentsOf(st.rec, st.rows, st.live)[h] EXCEPT ![c] = v]]
  <2>0. PICK rc, rw, lv : rc = st.rec /\ rw = st.rows /\ lv = st.live
    OBVIOUS
  <2>1. /\ TablesRight(rc, rw, lv) /\ h \in lv /\ c \in t /\ v \in Payload
        /\ t = rc[h.index].type /\ r = rc[h.index].row
        /\ WroteRow(rw, rw2, t, r, c, v)
    BY <1>0, <1>1, <1>4, <2>0 DEF WroteRow
  <2>2. /\ TablesRight(rc, rw2, lv)
        /\ WroteEntity(ContentsOf(rc, rw, lv), ContentsOf(rc, rw2, lv), h, c, v)
    BY ONLY <2>1, CellWritten
  <2> QED  BY ONLY <2>0, <2>2 DEF WroteEntity
<1>6. [Bar(st)[h] EXCEPT ![c] = v] = Having(Bar(st)[h], c, v)
  <2>1. Bar(st)[h] \in [t -> Payload]
    BY <1>0, ReadsContents
  <2> QED  BY <1>4, <2>1 DEF Having
<1>7. Bar(st2) = [Bar(st) EXCEPT ![h] = Having(@, c, v)]
  BY <1>3, <1>5, <1>6 DEF Bar
<1>8. Sound(st2)
  BY <1>3, <1>5 DEF Sound
<1> QED  BY <1>0, <1>3, <1>7, <1>8 DEF Yields

\* A migration leaves h with what is carried over.
LEMMA MoveYields ==
    ASSUME NEW st, Sound(st), NEW h \in st.live, NEW to \in TableType, to # TypeIn(st, h)
    PROVE  Yields(st, MoveTo(st, h, to),
                  [Bar(st) EXCEPT ![h] =
                      [c \in to |-> IF c \in TypeIn(st, h) THEN Bar(st)[h][c] ELSE Unspecified]])
<1>0. PICK from, r, old, val, rc2, rw2, st2 :
          /\ from = TypeIn(st, h) /\ r = RowIn(st, h)
          /\ old = (IF from = RootType THEN << >> ELSE st.rows[from][r + 1].value)
          /\ val = Carried(old, from, to, [c \in to \ from |-> Unspecified])
          /\ rc2 = MigrateRec(st.rec, st.rows, h, from, to, r)
          /\ rw2 = MigrateRows(st.rows, h, from, to, r, val)
          /\ st2 = MoveTo(st, h, to)
  OBVIOUS
<1>1. TablesRight(st.rec, st.rows, st.live) /\ IsStore(st)
  BY DEF Sound
<1>2. st2 = [st EXCEPT !.rec = rc2, !.rows = rw2,
                       !.moves = RowLeft(Append(@, [entity |-> h, table |-> to, joins |-> TRUE]),
                                         st.rows, from, r)]
  BY <1>0 DEF MoveTo, MigrateIn
<1>3. /\ st2.rec = rc2 /\ st2.free = st.free /\ st2.live = st.live /\ st2.dead = st.dead
      /\ st2.ok = st.ok /\ st2.rows = rw2 /\ IsStore(st2)
  BY Zenon, <1>1, <1>2 DEF IsStore
<1>4. from = st.rec[h.index].type /\ r = st.rec[h.index].row
  BY Zenon, <1>0 DEF TypeIn, RowIn
<1>5. /\ Bar(st)[h] = old /\ old \in [from -> Payload]
  <2>1. EntityAt(st.rec, st.rows, st.live, h, from, r)
    BY ONLY <1>1, <1>4, h \in st.live, LiveEntity
  <2> QED  BY <1>0, <2>1 DEF EntityAt, Bar
<1>6. val = [c \in to |-> IF c \in from THEN Bar(st)[h][c] ELSE Unspecified]
  BY <1>0, <1>5 DEF Carried
<1>7. val \in [to -> Payload]
  BY <1>5, <1>6 DEF Payload
<1>8. MoveEffects(st.rec, st.rows, rc2, rw2, h, from, r, to, val)
  BY ONLY Zenon, <1>0, <1>1, <1>4, h \in st.live, to \in TableType, to # TypeIn(st, h), MoveHasEffects
<1>9. to # from
  BY <1>0
<1>10. TablesRight(rc2, rw2, st.live)
  BY ONLY Zenon, <1>1, <1>4, <1>7, <1>8, <1>9, h \in st.live, to \in TableType, MovedTables
<1>11. ContentsOf(rc2, rw2, st.live) = [ContentsOf(st.rec, st.rows, st.live) EXCEPT ![h] = val]
  <2>1. PICK rc, rw, lv : rc = st.rec /\ rw = st.rows /\ lv = st.live
    OBVIOUS
  <2>2. /\ TablesRight(rc, rw, lv) /\ h \in lv /\ MoveEffects(rc, rw, rc2, rw2, h, from, r, to, val)
        /\ from = rc[h.index].type /\ r = rc[h.index].row
    BY ONLY <1>1, <1>4, <1>8, <2>1, h \in st.live
  <2>3. ContentsOf(rc2, rw2, lv) = [ContentsOf(rc, rw, lv) EXCEPT ![h] = val]
    BY ONLY <1>7, <1>9, <2>2, to \in TableType, MovedContents
  <2> QED  BY ONLY <2>1, <2>3
<1>12. Len(rc2) = Len(st.rec)
  BY <1>8 DEF MoveEffects, OthersMoved
<1>13. FreeRight(rc2, st.free, st.live)
  BY <1>12 DEF FreeRight, Sound
<1>14. Sound(st2)
  BY <1>3, <1>10, <1>13 DEF Sound
<1>15. Bar(st2) = [Bar(st) EXCEPT ![h] = val]
  BY <1>3, <1>11 DEF Bar
<1> QED  BY <1>0, <1>3, <1>6, <1>14, <1>15 DEF Yields

\* One result after another.
LEMMA YieldsTwice ==
    ASSUME NEW st, NEW st2, NEW st3, NEW w, NEW v,
           Yields(st, st2, w), Yields(st2, st3, v)
    PROVE  Yields(st, st3, v)
BY DEF Yields

\* Removing a component, for which hooks have run already.
LEMMA DropYields ==
    ASSUME NEW st, Sound(st), NEW h \in st.live, NEW c \in TypeIn(st, h)
    PROVE  Yields(st, MoveTo(st, h, TypeIn(st, h) \ {c}),
                  [Bar(st) EXCEPT ![h] = Lacking(@, c)])
<1>0. PICK from, to : from = TypeIn(st, h) /\ to = TypeIn(st, h) \ {c}
  OBVIOUS
<1>1. from \in TableType /\ Bar(st)[h] \in [from -> Payload]
  BY <1>0, ReadsContents
<1>2. to \in TableType /\ to # from
  BY <1>0, <1>1 DEF TableType
<1>3. Yields(st, MoveTo(st, h, to),
             [Bar(st) EXCEPT ![h] =
                 [d \in to |-> IF d \in TypeIn(st, h) THEN Bar(st)[h][d] ELSE Unspecified]])
  BY <1>0, <1>2, MoveYields
<1>4. [d \in to |-> IF d \in TypeIn(st, h) THEN Bar(st)[h][d] ELSE Unspecified]
        = Lacking(Bar(st)[h], c)
  BY <1>0, <1>1 DEF Lacking
<1> QED  BY <1>0, <1>3, <1>4

\* Adding one, and writing it.
LEMMA AddPutYields ==
    ASSUME NEW st, Sound(st), NEW h \in st.live, NEW c \in Component, NEW v \in Payload
    PROVE  Yields(st, Put(AddIn(st, h, c), h, c, v), [Bar(st) EXCEPT ![h] = Having(@, c, v)])
<1>1. CASE c \in TypeIn(st, h)
  <2>1. AddIn(st, h, c) = st
    BY <1>1 DEF AddIn
  <2> QED  BY <1>1, <2>1, PutYields
<1>2. CASE c \notin TypeIn(st, h)
  <2>0. PICK from, to, b, st2 : /\ from = TypeIn(st, h) /\ to = from \cup {c}
                                /\ b = [d \in to |-> IF d \in from THEN Bar(st)[h][d]
                                                     ELSE Unspecified]
                                /\ st2 = MoveTo(st, h, to)
    OBVIOUS
  <2>1. /\ from \in TableType /\ Bar(st)[h] \in [from -> Payload] /\ DOMAIN Bar(st) = st.live
    BY <2>0, ReadsContents
  <2>2. to \in TableType /\ to # from
    BY <1>2, <2>0, <2>1 DEF TableType
  <2>3. Yields(st, st2, [Bar(st) EXCEPT ![h] = b])
    BY <2>0, <2>2, MoveYields
  <2>4. Sound(st2) /\ h \in st2.live /\ Bar(st2) = [Bar(st) EXCEPT ![h] = b]
    BY <2>3 DEF Yields
  <2>5. Bar(st2)[h] = b /\ DOMAIN b = to
    BY <2>0, <2>1, <2>4
  <2>6. TypeIn(st2, h) = to
    <3>1. Bar(st2)[h] \in [TypeIn(st2, h) -> Payload]
      BY <2>4, ReadsContents
    <3> QED  BY <2>5, <3>1
  <2>7. Yields(st2, Put(st2, h, c, v), [Bar(st2) EXCEPT ![h] = Having(@, c, v)])
    <3>1. c \in TypeIn(st2, h)
      BY <2>0, <2>6
    <3> QED  BY <2>4, <3>1, PutYields
  <2>8. Having(b, c, v) = Having(Bar(st)[h], c, v)
    BY <1>2, <2>0, <2>1, <2>5 DEF Having
  <2>9. [Bar(st2) EXCEPT ![h] = Having(@, c, v)] = [Bar(st) EXCEPT ![h] = Having(@, c, v)]
    BY <2>1, <2>4, <2>5, <2>8
  <2>10. AddIn(st, h, c) = st2
    BY <1>2, <2>0 DEF AddIn
  <2> QED  BY <2>3, <2>7, <2>9, <2>10, YieldsTwice
<1> QED  BY <1>1, <1>2

-----------------------------------------------------------------------------
(* The hooks *)

\* The type of an entity is what it has contents of.
LEMMA TypeIsDomain ==
    ASSUME NEW st, Sound(st), NEW h \in st.live
    PROVE  TypeIn(st, h) = DOMAIN Bar(st)[h]
BY ReadsContents

\* A freed list goes with its component.
LEMMA RemoveSourceYields ==
    ASSUME NEW st, Sound(st), NEW p \in st.live, RelationSource \in TypeIn(st, p)
    PROVE  Yields(st, RemoveSource(st, p),
                  [Bar(st) EXCEPT ![p] = Lacking(@, RelationSource)])
<1>0. PICK st1, st2, t : /\ st1 = Put(st, p, RelationSource, << >>)
                         /\ t = TypeIn(st, p)
                         /\ st2 = MoveTo(st1, p, t \ {RelationSource})
  OBVIOUS
<1>1. Yields(st, st1, [Bar(st) EXCEPT ![p] = Having(@, RelationSource, << >>)])
  <2>1. << >> \in Payload
    BY DEF Payload
  <2> QED  BY <1>0, <2>1, PutYields
<1>2. /\ Sound(st1) /\ p \in st1.live
      /\ Bar(st1) = [Bar(st) EXCEPT ![p] = Having(@, RelationSource, << >>)]
  BY <1>1 DEF Yields
<1>3. p \in DOMAIN Bar(st) /\ t = DOMAIN Bar(st)[p]
  BY <1>0, ReadsContents
<1>4. Bar(st1)[p] = Having(Bar(st)[p], RelationSource, << >>)
  BY <1>2, <1>3
<1>5. TypeIn(st1, p) = t
  <2>1. TypeIn(st1, p) = DOMAIN Bar(st1)[p]
    BY <1>2, TypeIsDomain
  <2>2. RelationSource \in t
    BY <1>0
  <2> QED  BY <1>3, <1>4, <2>1, <2>2 DEF Having
<1>6. Yields(st1, st2, [Bar(st1) EXCEPT ![p] = Lacking(@, RelationSource)])
  <2>1. RelationSource \in TypeIn(st1, p)
    BY <1>0, <1>5
  <2> QED  BY <1>0, <1>2, <1>5, <2>1, DropYields
<1>7. Lacking(Bar(st1)[p], RelationSource) = Lacking(Bar(st)[p], RelationSource)
  BY <1>4 DEF Lacking, Having
<1>8. [Bar(st1) EXCEPT ![p] = Lacking(@, RelationSource)]
        = [Bar(st) EXCEPT ![p] = Lacking(@, RelationSource)]
  BY <1>2, <1>3, <1>7
<1>9. RemoveSource(st, p) = st2
  BY <1>0 DEF RemoveSource
<1> QED  BY <1>1, <1>6, <1>8, <1>9, YieldsTwice

\* LeaveParent finds what it looks for, and takes c off its parent's list.
LEMMA LeaveYields ==
    ASSUME NEW st, Sound(st), Linked(Bar(st)), NEW c \in st.live,
           RelationTarget \in TypeIn(st, c)
    PROVE  Yields(st, LeaveParent(st, c), Left(Bar(st), c))
<1>0. PICK w, p, list, st1 :
          /\ w = Bar(st) /\ p = w[c][RelationTarget]
          /\ list = RemoveFrom(w[p][RelationSource], c)
          /\ st1 = Put(st, p, RelationSource, list)
  OBVIOUS
<1>1. DOMAIN w = st.live /\ RelationTarget \in DOMAIN w[c]
  BY <1>0, ReadsContents, TypeIsDomain
<1>2. /\ p \in st.live /\ RelationSource \in DOMAIN w[p]
      /\ Names(w[p][RelationSource], Kids(w, p))
  BY <1>0, <1>1, ParentListed
<1>3. /\ Readable(st, c, RelationTarget) /\ Get(st, c, RelationTarget) = p
  BY <1>0, ReadsContents
<1>4. RelationSource \in TypeIn(st, p)
  BY <1>0, <1>2, TypeIsDomain
<1>5. Readable(st, p, RelationSource) /\ Get(st, p, RelationSource) = w[p][RelationSource]
  BY <1>0, <1>2, <1>4, ReadsContents
<1>6. list \in Payload
  <2>1. Names(list, Kids(w, p) \ {c})
    BY <1>0, <1>2, NameRemoved
  <2> QED  BY <2>1 DEF Names, Payload
<1>7. Yields(st, st1, [w EXCEPT ![p] = Having(@, RelationSource, list)])
  BY <1>0, <1>2, <1>4, <1>6, PutYields
<1>8. LeaveParent(st, c) = IF list = << >> THEN RemoveSource(st1, p) ELSE st1
  BY <1>0, <1>3, <1>5 DEF LeaveParent
<1>9. CASE list # << >>
  <2>1. Left(w, c) = [w EXCEPT ![p] = Having(@, RelationSource, list)]
    BY <1>0, <1>9 DEF Left
  <2> QED  BY <1>0, <1>7, <1>8, <1>9, <2>1
<1>10. CASE list = << >>
  <2>1. Sound(st1) /\ p \in st1.live /\ Bar(st1) = [w EXCEPT ![p] = Having(@, RelationSource, list)]
    BY <1>2, <1>7 DEF Yields
  <2>2. Bar(st1)[p] = Having(w[p], RelationSource, list)
    BY <1>1, <1>2, <2>1
  <2>3. RelationSource \in TypeIn(st1, p)
    <3>1. RelationSource \in DOMAIN Bar(st1)[p]
      BY <2>2 DEF Having
    <3> QED  BY <2>1, <3>1, TypeIsDomain
  <2>4. Yields(st1, RemoveSource(st1, p), [Bar(st1) EXCEPT ![p] = Lacking(@, RelationSource)])
    BY <2>1, <2>3, RemoveSourceYields
  <2>5. Lacking(Bar(st1)[p], RelationSource) = Lacking(w[p], RelationSource)
    BY <2>2 DEF Lacking, Having
  <2>6. [Bar(st1) EXCEPT ![p] = Lacking(@, RelationSource)]
          = [w EXCEPT ![p] = Lacking(@, RelationSource)]
    BY <1>1, <1>2, <2>1, <2>5
  <2>7. Left(w, c) = [w EXCEPT ![p] = Lacking(@, RelationSource)]
    BY <1>0, <1>10 DEF Left
  <2> QED  BY <1>0, <1>7, <1>8, <1>10, <2>4, <2>6, <2>7, YieldsTwice
<1> QED  BY <1>9, <1>10

\* The hooks that run before c gets another target, loses it or goes.
Leaving(st, c) == IF RelationTarget \in TypeIn(st, c) THEN LeaveParent(st, c) ELSE st

\* After them c is on no list, nothing else has changed.
LEMMA LeavingYields ==
    ASSUME NEW st, Sound(st), Linked(Bar(st)), NEW c \in st.live
    PROVE  /\ Yields(st, Leaving(st, c), Bar(Leaving(st, c)))
           /\ Delisted(Bar(st), Bar(Leaving(st, c)), c)
<1>0. DOMAIN Bar(st) = st.live /\ TypeIn(st, c) = DOMAIN Bar(st)[c]
  BY ReadsContents
<1>1. CASE RelationTarget \in TypeIn(st, c)
  <2>1. Leaving(st, c) = LeaveParent(st, c)
    BY <1>1 DEF Leaving
  <2>2. Yields(st, Leaving(st, c), Left(Bar(st), c))
    BY <1>1, <2>1, LeaveYields
  <2>3. Bar(Leaving(st, c)) = Left(Bar(st), c)
    BY <2>2 DEF Yields
  <2>4. Delisted(Bar(st), Left(Bar(st), c), c)
    BY <1>0, <1>1, LeftLists
  <2> QED  BY <2>2, <2>3, <2>4
<1>2. CASE RelationTarget \notin TypeIn(st, c)
  <2>1. Leaving(st, c) = st
    BY <1>2 DEF Leaving
  <2>2. Yields(st, st, Bar(st))
    BY DEF Yields
  <2>3. Delisted(Bar(st), Bar(st), c)
    BY <1>0, <1>2, NeverListed
  <2> QED  BY <2>1, <2>2, <2>3
<1> QED  BY <1>1, <1>2

\* JoinParent puts c on the list of p, which it makes when there is none.
LEMMA JoinYields ==
    ASSUME NEW st, Sound(st), NEW c \in st.live, NEW p \in st.live,
           NEW kids, HasList(Bar(st)[p], kids)
    PROVE  Yields(st, JoinParent(st, c, p), Joined(Bar(st), c, p))
<1>0. PICK w : w = Bar(st)
  OBVIOUS
<1>1. /\ DOMAIN w = st.live /\ AliveIn(st, p) /\ st.ok /\ TypeIn(st, p) = DOMAIN w[p]
  BY <1>0, ReadsContents DEF Sound
<1>2. c \in Handle
  BY DEF Sound, TablesRight, Typed
<1>3. CASE RelationSource \in TypeIn(st, p)
  <2>0. PICK list : list = Append(w[p][RelationSource], c)
    OBVIOUS
  <2>1. Get(st, p, RelationSource) = w[p][RelationSource]
    BY <1>0, <1>3, ReadsContents
  <2>2. JoinParent(st, c, p) = Put(st, p, RelationSource, list)
    BY <1>1, <1>3, <2>0, <2>1 DEF JoinParent
  <2>3. list \in Payload
    <3>1. w[p][RelationSource] \in Seq(Handle)
      BY <1>0, <1>1, <1>3 DEF HasList, Names
    <3>2. list \in Seq(Handle)
      BY <1>2, <2>0, <3>1
    <3> QED  BY <3>2 DEF Payload
  <2>4. Yields(st, Put(st, p, RelationSource, list),
               [w EXCEPT ![p] = Having(@, RelationSource, list)])
    BY <1>0, <1>3, <2>3, PutYields
  <2>5. Joined(w, c, p) = [w EXCEPT ![p] = Having(@, RelationSource, list)]
    BY <1>1, <1>3, <2>0 DEF Joined
  <2> QED  BY <1>0, <2>2, <2>4, <2>5
<1>4. CASE RelationSource \notin TypeIn(st, p)
  <2>1. JoinParent(st, c, p) = Put(AddIn(st, p, RelationSource), p, RelationSource, <<c>>)
    BY <1>1, <1>4 DEF JoinParent
  <2>2. <<c>> \in Payload
    BY <1>2 DEF Payload
  <2>3. Yields(st, Put(AddIn(st, p, RelationSource), p, RelationSource, <<c>>),
               [w EXCEPT ![p] = Having(@, RelationSource, <<c>>)])
    BY <1>0, <2>2, AddPutYields, RelationsAssumption
  <2>4. Joined(w, c, p) = [w EXCEPT ![p] = Having(@, RelationSource, <<c>>)]
    BY <1>1, <1>4 DEF Joined
  <2> QED  BY <1>0, <2>1, <2>3, <2>4
<1> QED  BY <1>3, <1>4

\* Relating c and p is sound and keeps lists and targets in agreement.
LEMMA RelateKeeps ==
    ASSUME NEW st, Sound(st), Linked(Bar(st)), NEW c \in st.live, NEW p \in st.live,
           NEW w, w = Bar(RelateIn(st, c, p))
    PROVE  Yields(st, RelateIn(st, c, p), w) /\ Linked(w)
<1>0. PICK left, joined, done :
          /\ left = Leaving(st, c)
          /\ joined = JoinParent(left, c, p)
          /\ done = Put(AddIn(joined, c, RelationTarget), c, RelationTarget, p)
  OBVIOUS
<1>1. DOMAIN Bar(st) = st.live /\ st.live \subseteq Handle
  BY ReadsContents DEF Sound, TablesRight, Typed
<1>2. Yields(st, left, Bar(left)) /\ Delisted(Bar(st), Bar(left), c)
  BY <1>0, LeavingYields
<1>3. /\ Sound(left) /\ c \in left.live /\ p \in left.live
      /\ HasList(Bar(left)[p], Kids(Bar(st), p) \ {c})
  BY <1>1, <1>2 DEF Yields, Delisted
<1>4. Yields(left, joined, Joined(Bar(left), c, p))
  BY <1>0, <1>3, JoinYields
<1>5. /\ Sound(joined) /\ c \in joined.live /\ Bar(joined) = Joined(Bar(left), c, p)
      /\ joined.ok
  BY <1>3, <1>4 DEF Yields, Sound
<1>6. Yields(joined, done, [Bar(joined) EXCEPT ![c] = Having(@, RelationTarget, p)])
  <2>1. p \in Payload
    BY <1>1 DEF Payload
  <2> QED  BY <1>0, <1>5, <2>1, AddPutYields, RelationsAssumption
<1>7. RelateIn(st, c, p) = done
  BY <1>0, <1>5 DEF RelateIn, Leaving
<1>8. Yields(st, done, [Bar(joined) EXCEPT ![c] = Having(@, RelationTarget, p)])
  BY <1>2, <1>4, <1>6, YieldsTwice
<1>9. Bar(done) = [Bar(joined) EXCEPT ![c] = Having(@, RelationTarget, p)]
  BY <1>8 DEF Yields
<1>10. Linked(Bar(done))
  <2>0. PICK v, v1, v2, v3 : /\ v = Bar(st) /\ v1 = Bar(left)
                             /\ v2 = Bar(joined) /\ v3 = Bar(done)
    OBVIOUS
  <2>1. /\ Linked(v) /\ c \in DOMAIN v /\ p \in DOMAIN v /\ Delisted(v, v1, c)
        /\ v2 = Joined(v1, c, p) /\ v3 = [v2 EXCEPT ![c] = Having(@, RelationTarget, p)]
    BY <1>1, <1>2, <1>5, <1>9, <2>0
  <2>2. Linked(v3)
    BY ONLY <2>1, RelatedLinked
  <2> QED  BY <2>0, <2>2
<1> QED  BY <1>7, <1>8, <1>9, <1>10

\* Unrelating, where rows stay put, keeps lists and targets in agreement.
LEMMA UnrelateKeeps ==
    ASSUME NEW st, Sound(st), Linked(Bar(st)), NEW c \in st.live,
           RelationTarget \in TypeIn(st, c),
           NEW st2, st2 = RemoveTargetIn(st, c), st2.steady
    PROVE  Yields(st, st2, Bar(st2)) /\ Linked(Bar(st2))
<1>0. PICK hooked, from, r, old, moved, stays :
          /\ hooked = LeaveParent(st, c)
          /\ from = TypeIn(st, c) /\ r = RowIn(st, c)
          /\ old = (IF r < Len(hooked.rows[from]) THEN hooked.rows[from][r + 1].value
                    ELSE st.rows[from][r + 1].value)
          /\ moved = MigrateIn(hooked, c, from, from \ {RelationTarget}, r, old)
          /\ stays = (TypeIn(hooked, c) = from /\ RowIn(hooked, c) = r)
  OBVIOUS
<1>1. st2 = [moved EXCEPT !.steady = @ /\ stays]
  BY Zenon, <1>0 DEF RemoveTargetIn, RemoveIn
<1>2. hooked = Leaving(st, c) /\ RelationTarget \in from
  BY <1>0 DEF Leaving
<1>3. Yields(st, hooked, Bar(hooked)) /\ Delisted(Bar(st), Bar(hooked), c)
  BY <1>2, LeavingYields
<1>4. Sound(hooked) /\ IsStore(hooked) /\ c \in hooked.live
  BY <1>3 DEF Yields, Sound
<1>5. IsStore(moved)
  BY <1>0, <1>4 DEF MigrateIn, IsStore
<1>6. /\ st2.rec = moved.rec /\ st2.free = moved.free /\ st2.rows = moved.rows
      /\ st2.live = moved.live /\ st2.dead = moved.dead /\ st2.ok = moved.ok
      /\ st2.steady = (moved.steady /\ stays) /\ IsStore(st2)
  BY <1>1, <1>5 DEF IsStore
<1>7. TypeIn(hooked, c) = from /\ RowIn(hooked, c) = r
  BY <1>0, <1>6
<1>8. moved = MoveTo(hooked, c, from \ {RelationTarget})
  <2>1. r < Len(hooked.rows[from])
    BY <1>2, <1>4, <1>7, ReadsContents DEF Readable
  <2>2. from # RootType
    BY <1>2 DEF RootType
  <2> QED  BY <1>0, <1>7, <2>1, <2>2 DEF MoveTo
<1>9. Yields(hooked, moved, [Bar(hooked) EXCEPT ![c] = Lacking(@, RelationTarget)])
  BY <1>2, <1>4, <1>7, <1>8, DropYields
<1>10. Sound(moved) /\ Bar(moved) = [Bar(hooked) EXCEPT ![c] = Lacking(@, RelationTarget)]
  BY <1>9 DEF Yields
<1>11. Sound(st2) /\ Bar(st2) = Bar(moved)
  BY <1>6, <1>10 DEF Sound, Bar
<1>12. Linked(Bar(moved))
  <2>0. PICK v, v1, v2 : v = Bar(st) /\ v1 = Bar(hooked) /\ v2 = Bar(moved)
    OBVIOUS
  <2>1. /\ Linked(v) /\ c \in DOMAIN v /\ Delisted(v, v1, c)
        /\ v2 = [v1 EXCEPT ![c] = Lacking(@, RelationTarget)]
    BY <1>3, <1>10, <2>0, ReadsContents
  <2>2. Linked(v2)
    BY ONLY <2>1, UnrelatedLinked
  <2> QED  BY <2>0, <2>2
<1> QED  BY <1>3, <1>6, <1>9, <1>11, <1>12 DEF Yields

Remaining(w, w2, h) == w2 = [g \in DOMAIN w \ {h} |-> w[g]]

\* The row of an entity is freed; what the others contain stays.
LEMMA RetireYields ==
    ASSUME NEW st, Sound(st), NEW h \in st.live, NEW t, NEW r,
           t = TypeIn(st, h), r = RowIn(st, h),
           ~(t = RootType /\ At(st.rec, st.rows, h)),
           NEW st2, st2 = RetireFrom(st, h, t, r)
    PROVE  /\ Sound(st2) /\ st2.live = st.live \ {h}
           /\ Remaining(Bar(st), Bar(st2), h)
<1>0. PICK rc, rw, lv, rc2, rw2 :
          /\ rc = st.rec /\ rw = st.rows /\ lv = st.live
          /\ rc2 = Retire(IF t = RootType THEN rc ELSE FixSwapped(rc, rw, t, r), h.index)
          /\ rw2 = IF t = RootType THEN rw ELSE RemoveRow(rw, t, r)
  OBVIOUS
<1>1. TablesRight(rc, rw, lv) /\ FreeRight(rc, st.free, lv) /\ IsStore(st) /\ h \in lv
  BY <1>0 DEF Sound
<1>2. /\ st2.rec = rc2 /\ st2.rows = rw2 /\ st2.free = Append(st.free, h.index)
      /\ st2.live = lv \ {h} /\ st2.ok = st.ok /\ IsStore(st2)
  BY <1>0, <1>1 DEF RetireFrom, IsStore
<1>3. t = rc[h.index].type /\ r = rc[h.index].row /\ ~(t = RootType /\ At(rc, rw, h))
  BY <1>0 DEF TypeIn, RowIn
<1>4. RetireEffects(rc, rw, rc2, rw2, h, t, r)
  BY ONLY <1>0, <1>1, <1>3, RetireHasEffects
<1>5. TablesRight(rc2, rw2, lv \ {h})
  BY ONLY <1>1, <1>3, <1>4, RetiredTables
<1>6. ContentsOf(rc2, rw2, lv \ {h}) = [g \in lv \ {h} |-> ContentsOf(rc, rw, lv)[g]]
  BY ONLY <1>1, <1>3, <1>4, RetiredContents
<1>7. FreeRight(rc2, Append(st.free, h.index), lv \ {h})
  <2>0. PICK fr, n, i, new : /\ fr = st.free /\ n = Len(st.free) /\ i = h.index
                             /\ new = Append(st.free, h.index)
    OBVIOUS
  <2>1. fr \in Seq(1 .. Len(rc)) /\ n \in Nat /\ Len(rc2) = Len(rc)
    BY <1>1, <1>4, <2>0 DEF FreeRight, RetireEffects
  <2>2. i \in 1 .. Len(rc)
    BY <1>1, <1>3, <2>0, LiveEntity DEF EntityAt
  <2>3. /\ new \in Seq(1 .. Len(rc)) /\ Len(new) = n + 1 /\ new[n + 1] = i
        /\ \A j \in 1 .. n : new[j] = fr[j]
    BY ONLY <2>0, <2>1, <2>2
  <2>4. /\ \A j, k \in 1 .. n : fr[j] = fr[k] => j = k
        /\ \A j \in 1 .. n : fr[j] # i
        /\ \A g \in lv : \A j \in 1 .. n : fr[j] # g.index
    BY <1>1, <2>0 DEF FreeRight
  <2>5. 1 .. n + 1 = (1 .. n) \cup {n + 1}
    BY <2>1
  <2>6. \A g \in lv \ {h} : g.index # i
    BY <1>1, <2>0, OneOwner
  <2>7. \A j, k \in 1 .. Len(new) : new[j] = new[k] => j = k
    BY <2>3, <2>4, <2>5
  <2>8. \A g \in lv \ {h} : \A j \in 1 .. Len(new) : new[j] # g.index
    BY <2>3, <2>4, <2>5, <2>6
  <2> QED  BY <2>0, <2>1, <2>3, <2>7, <2>8 DEF FreeRight
<1>8. st.ok = TRUE
  BY DEF Sound
<1>9. DOMAIN ContentsOf(rc, rw, lv) = lv
  BY DEF ContentsOf
<1>10. Remaining(Bar(st), Bar(st2), h)
  BY <1>0, <1>2, <1>6, <1>9 DEF Bar, Remaining
<1> QED  BY <1>0, <1>2, <1>5, <1>7, <1>8, <1>10 DEF Sound

\* Destroying an entity that is no parent keeps lists and targets in agreement.
LEMMA DestroyKeeps ==
    ASSUME NEW st, Sound(st), Linked(Bar(st)), NEW h \in st.live,
           RelationSource \notin TypeIn(st, h),
           ~(TypeIn(st, h) = RootType /\ At(st.rec, st.rows, h)),
           NEW st2, st2 = DestroyIn(st, h)
    PROVE  Sound(st2) /\ Linked(Bar(st2))
<1>0. PICK left, t, r : left = Leaving(st, h) /\ t = TypeIn(st, h) /\ r = RowIn(left, h)
  OBVIOUS
<1>1. Yields(st, left, Bar(left)) /\ Delisted(Bar(st), Bar(left), h)
  BY <1>0, LeavingYields
<1>2. Sound(left) /\ left.live = st.live /\ h \in left.live
  BY <1>1 DEF Yields
<1>3. DOMAIN Bar(st) = st.live /\ t = DOMAIN Bar(st)[h]
  BY <1>0, ReadsContents
<1>4. TypeIn(left, h) = t
  <2>1. Bar(left)[h] = Bar(st)[h]
    BY <1>0, <1>1, <1>3 DEF Delisted
  <2>2. TypeIn(left, h) = DOMAIN Bar(left)[h]
    BY <1>2, TypeIsDomain
  <2> QED  BY <1>3, <2>1, <2>2
<1>5. ~(t = RootType /\ At(left.rec, left.rows, h))
  <2>1. t = RootType => left = st
    BY <1>0 DEF Leaving, RootType
  <2> QED  BY <1>0, <2>1
<1>6. st2 = RetireFrom(left, h, t, r)
  BY <1>0 DEF DestroyIn, RetireIn, Leaving
<1>7. Sound(st2) /\ Remaining(Bar(left), Bar(st2), h)
  <2>1. /\ Sound(left) /\ h \in left.live /\ t = TypeIn(left, h) /\ r = RowIn(left, h)
        /\ ~(t = RootType /\ At(left.rec, left.rows, h))
        /\ st2 = RetireFrom(left, h, t, r)
    BY <1>0, <1>2, <1>4, <1>5, <1>6
  <2> QED  BY ONLY <2>1, RetireYields
<1>8. Linked(Bar(st2))
  <2>0. PICK v, v1, v2 : v = Bar(st) /\ v1 = Bar(left) /\ v2 = Bar(st2)
    OBVIOUS
  <2>1. /\ Linked(v) /\ h \in DOMAIN v /\ Delisted(v, v1, h)
        /\ RelationSource \notin DOMAIN v[h]
        /\ v2 = [g \in DOMAIN v \ {h} |-> v1[g]]
    BY <1>0, <1>1, <1>3, <1>7, <2>0 DEF Delisted, Remaining
  <2>2. Linked(v2)
    BY ONLY <2>1, DestroyedLinked
  <2> QED  BY <2>0, <2>2
<1> QED  BY <1>7, <1>8

\* A component without hooks comes or goes.
LEMMA PlainKeeps ==
    ASSUME NEW st, Sound(st), Linked(Bar(st)), NEW h \in st.live,
           NEW c \in Component \ {RelationTarget, RelationSource},
           NEW to \in {TypeIn(st, h) \cup {c}, TypeIn(st, h) \ {c}}, to # TypeIn(st, h)
    PROVE  Sound(MoveTo(st, h, to)) /\ Linked(Bar(MoveTo(st, h, to)))
<1>z. PICK from, w, st2 : from = TypeIn(st, h) /\ w = Bar(st) /\ st2 = MoveTo(st, h, to)
  OBVIOUS
<1>y. PICK b : b = [d \in to |-> IF d \in from THEN w[h][d] ELSE Unspecified]
  OBVIOUS
<1>0. /\ from = TypeIn(st, h) /\ w = Bar(st) /\ st2 = MoveTo(st, h, to)
      /\ b = [d \in to |-> IF d \in from THEN w[h][d] ELSE Unspecified]
  BY <1>z, <1>y
<1>1. from \in TableType /\ from = DOMAIN w[h] /\ DOMAIN w = st.live
  BY <1>0, ReadsContents
<1>2. to \in TableType
  BY <1>0, <1>1 DEF TableType
<1>3. Yields(st, st2, [w EXCEPT ![h] = b])
  BY <1>0, <1>2, MoveYields
<1>4. Sound(st2) /\ Bar(st2) = [w EXCEPT ![h] = b]
  BY <1>3 DEF Yields
<1>5. SameAt(RelationTarget, w[h], b) /\ SameAt(RelationSource, w[h], b)
  BY <1>0, <1>1 DEF SameAt
<1>6. Linked(Bar(st2))
  BY <1>0, <1>1, <1>4, <1>5, UnaffectedLinked DEF SameAt
<1> QED  BY <1>0, <1>4, <1>6

-----------------------------------------------------------------------------
(* The invariant *)

\* Records, rows and free indices agree, lists and targets agree, and no
\* operation has aborted.
RelInv == Sound(Store) /\ Linked(Bar(Store))

\* The store of a state has the variables as its fields.
LEMMA StoreFields ==
    /\ Store.rec = rec /\ Store.free = free /\ Store.rows = rows
    /\ Store.live = live /\ Store.dead = dead /\ Store.ok = ~aborted
    /\ IsStore(Store)
BY DEF Store, IsStore

\* What the invariant says of the variables.
LEMMA InvariantParts ==
    RelInv <=> /\ TablesRight(rec, rows, live) /\ FreeRight(rec, free, live)
               /\ Linked(ContentsOf(rec, rows, live)) /\ ~aborted
BY StoreFields DEF RelInv, Sound, Bar

\* An operation that keeps a store in order keeps the invariant.
LEMMA BecomesKeeps ==
    ASSUME RelInv, NEW st2, Sound(st2), Linked(Bar(st2)), Becomes(st2)
    PROVE  RelInv'
<1>1. /\ rec' = st2.rec /\ free' = st2.free /\ rows' = st2.rows /\ live' = st2.live
      /\ aborted' = aborted
  BY DEF Becomes, Sound
<1>2. /\ TablesRight(rec', rows', live') /\ FreeRight(rec', free', live')
      /\ Linked(ContentsOf(rec', rows', live'))
  BY <1>1 DEF Sound, Bar
<1>3. ~aborted'
  BY <1>1, InvariantParts
<1>4. (/\ TablesRight(rec, rows, live) /\ FreeRight(rec, free, live)
       /\ Linked(ContentsOf(rec, rows, live)) /\ ~aborted)'
  BY <1>2, <1>3
<1> QED  BY <1>4, InvariantParts, PTL

\* What an operation reads of an entity is in the store.
LEMMA ReadsStore ==
    ASSUME RelInv, NEW h \in live
    PROVE  /\ Sound(Store) /\ Linked(Bar(Store)) /\ h \in Store.live
           /\ TypeIn(Store, h) = TypeOf(h)
           /\ TypeOf(h) \in TableType /\ TypeOf(h) = DOMAIN Bar(Store)[h]
           /\ DOMAIN Bar(Store) = live
           /\ \A c \in TypeOf(h) : Get(Store, h, c) = Bar(Store)[h][c]
<1>1. Sound(Store) /\ Linked(Bar(Store)) /\ h \in Store.live
  BY StoreFields DEF RelInv
<1>2. TypeIn(Store, h) = TypeOf(h)
  BY StoreFields DEF TypeIn, TypeOf
<1> QED  BY <1>1, <1>2, ReadsContents, TypeIsDomain, StoreFields

\* A new index.
LEMMA NewIndexKeeps ==
    ASSUME RelInv, NewIndex, UNCHANGED aborted
    PROVE  RelInv'
<1>0. PICK n, bare, h : /\ n = Len(rec) /\ bare = [type |-> RootType, row |-> 0, generation |-> 0]
                        /\ h = [index |-> n + 1, generation |-> 0]
  OBVIOUS
<1>1. /\ TablesRight(rec, rows, live) /\ FreeRight(rec, free, live)
      /\ Linked(ContentsOf(rec, rows, live)) /\ ~aborted
  BY InvariantParts
<1>2. /\ rec' = Append(rec, bare) /\ n < MaxEntities /\ free = << >>
      /\ live' = live \cup {h} /\ free' = free /\ rows' = rows
  BY <1>0 DEF NewIndex
<1>3. rec \in Seq(Record) /\ n \in Nat /\ n + 1 \in Index
  BY <1>0, <1>1, <1>2, StorageAssumption DEF TablesRight, Typed, Index
<1>4. 0 \in 0 .. Generations - 1 /\ RootType \in TableType
  BY StorageAssumption DEF RootType, TableType
<1>5. bare \in Record /\ h \in Handle /\ h.index = n + 1 /\ h.generation = 0
  BY <1>0, <1>3, <1>4 DEF Record, Handle
<1>6. /\ rec' \in Seq(Record) /\ Len(rec') = n + 1 /\ rec'[n + 1] = bare
      /\ \A i \in 1 .. n : rec'[i] = rec[i]
  BY <1>0, <1>2, <1>3, <1>5
<1>7. \A g \in live : g.index # h.index /\ g.index \in 1 .. Len(rec')
                      /\ rec'[g.index] = rec[g.index]
  <2>1. \A g \in live : g.index \in 1 .. n
    BY <1>0, <1>1 DEF TablesRight, Placed
  <2> QED  BY <1>3, <1>5, <1>6, <2>1
<1>8. /\ Len(rec') <= MaxEntities /\ h.index \in 1 .. Len(rec')
      /\ rec'[h.index] = [type |-> RootType, row |-> 0, generation |-> h.generation]
  BY <1>0, <1>2, <1>3, <1>5, <1>6, StorageAssumption
<1>9. /\ TablesRight(rec', rows, live \cup {h}) /\ h \notin live
      /\ AddsBare(ContentsOf(rec, rows, live), ContentsOf(rec', rows, live \cup {h}), h)
  <2>1. AddsRecord(rec, rec', live, h)
    BY <1>5, <1>6, <1>7, <1>8 DEF AddsRecord
  <2> QED  BY ONLY <1>1, <2>1, Enlisted
<1>10. Linked(ContentsOf(rec', rows, live \cup {h}))
  <2>1. DOMAIN ContentsOf(rec, rows, live) = live
    BY DEF ContentsOf
  <2> QED  BY <1>1, <1>5, <1>9, <2>1, CreatedLinked
<1>11. FreeRight(rec', free, live \cup {h})
  BY <1>2 DEF FreeRight
<1>12. (/\ TablesRight(rec, rows, live) /\ FreeRight(rec, free, live)
        /\ Linked(ContentsOf(rec, rows, live)) /\ ~aborted)'
  BY <1>1, <1>2, <1>9, <1>10, <1>11
<1> QED  BY <1>12, InvariantParts, PTL

\* An index of the free stack, with the generation its record has.
LEMMA RecycledIndexKeeps ==
    ASSUME RelInv, RecycledIndex, UNCHANGED aborted
    PROVE  RelInv'
<1>0. PICK n, i, h : n = Len(free) /\ i = free[n] /\ h = HandleOf(i)
  OBVIOUS
<1>1. /\ TablesRight(rec, rows, live) /\ FreeRight(rec, free, live)
      /\ Linked(ContentsOf(rec, rows, live)) /\ ~aborted
  BY InvariantParts
<1>2. /\ free # << >> /\ rec' = Relocate(rec, i, RootType, 0)
      /\ live' = live \cup {h} /\ free' = SubSeq(free, 1, n - 1) /\ rows' = rows
  BY <1>0 DEF RecycledIndex
<1>3. /\ rec \in Seq(Record) /\ Len(rec) \in Nat /\ Len(rec) <= MaxEntities
      /\ free \in Seq(1 .. Len(rec))
  BY <1>1 DEF TablesRight, Typed, FreeRight
<1>4. /\ i \in 1 .. Len(rec) /\ free' \in Seq(1 .. Len(rec)) /\ n \in Nat
      /\ Len(free') = n - 1 /\ \A j \in 1 .. n - 1 : free'[j] = free[j]
  BY <1>0, <1>2, <1>3, PopProperties
<1>5. RootType \in TableType
  BY DEF RootType, TableType
<1>6. /\ rec' \in Seq(Record) /\ Len(rec') = Len(rec)
      /\ rec'[i].type = RootType /\ rec'[i].row = 0
      /\ rec'[i].generation = rec[i].generation
      /\ \A k \in 1 .. Len(rec) : k # i => rec'[k] = rec[k]
  <2>1. PICK moved : moved = Relocate(rec, i, RootType, 0) /\ rec' = moved
    BY ONLY <1>2
  <2>2. /\ moved \in Seq(Record) /\ Len(moved) = Len(rec)
        /\ moved[i].type = RootType /\ moved[i].row = 0
        /\ moved[i].generation = rec[i].generation
        /\ \A k \in 1 .. Len(rec) : k # i => moved[k] = rec[k]
    BY ONLY <1>3, <1>4, <1>5, <2>1, RelocateProperties
  <2> QED  BY ONLY <2>1, <2>2
<1>7. rec[i] \in Record /\ rec'[i] \in Record
  BY <1>3, <1>4, <1>6
<1>8. h \in Handle /\ h.index = i /\ h.generation = rec[i].generation
  <2>1. i \in Index
    BY <1>3, <1>4, StorageAssumption DEF Index
  <2>2. rec[i].generation \in 0 .. Generations - 1
    BY <1>7 DEF Record
  <2> QED  BY <1>0, <2>1, <2>2 DEF HandleOf, Handle
<1>9. \A g \in live : g.index # h.index /\ g.index \in 1 .. Len(rec')
                      /\ rec'[g.index] = rec[g.index]
  <2>1. \A g \in live : g.index \in 1 .. Len(rec)
    BY <1>1 DEF TablesRight, Placed
  <2>2. n \in 1 .. Len(free)
    BY <1>0, <1>2, <1>3
  <2>3. \A g \in live : g.index # i
    BY <1>0, <1>1, <2>2 DEF FreeRight
  <2> QED  BY <1>6, <1>8, <2>1, <2>3
<1>10. /\ Len(rec') <= MaxEntities /\ h.index \in 1 .. Len(rec')
       /\ rec'[h.index] = [type |-> RootType, row |-> 0, generation |-> h.generation]
  BY <1>3, <1>4, <1>6, <1>7, <1>8 DEF Record
<1>11. /\ TablesRight(rec', rows, live \cup {h}) /\ h \notin live
       /\ AddsBare(ContentsOf(rec, rows, live), ContentsOf(rec', rows, live \cup {h}), h)
  <2>1. AddsRecord(rec, rec', live, h)
    BY <1>6, <1>8, <1>9, <1>10 DEF AddsRecord
  <2> QED  BY ONLY <1>1, <2>1, Enlisted
<1>12. Linked(ContentsOf(rec', rows, live \cup {h}))
  <2>1. DOMAIN ContentsOf(rec, rows, live) = live
    BY DEF ContentsOf
  <2> QED  BY <1>1, <1>8, <1>11, <2>1, CreatedLinked
<1>13. FreeRight(rec', free', live \cup {h})
  <2>1. n \in 1 .. n /\ \A j \in 1 .. n - 1 : j \in 1 .. n /\ j # n
    <3>1. n # 0
      BY <1>0, <1>2, <1>3
    <3> QED  BY <1>4, <3>1
  <2>2. \A j, k \in 1 .. n : free[j] = free[k] => j = k
    BY <1>0, <1>1 DEF FreeRight
  <2>3. \A g \in live : \A j \in 1 .. n : free[j] # g.index
    BY <1>0, <1>1 DEF FreeRight
  <2>4. \A j, k \in 1 .. n - 1 : free'[j] = free'[k] => j = k
    BY <1>4, <2>1, <2>2
  <2>5. \A j \in 1 .. n - 1 : free'[j] # h.index
    <3> PICK fr : fr = free'
      OBVIOUS
    <3>1. \A j \in 1 .. n - 1 : fr[j] = free[j] /\ free[j] # i
      BY <1>0, <1>4, <2>1, <2>2
    <3> QED  BY <1>8, <3>1
  <2>6. \A g \in live : \A j \in 1 .. n - 1 : free'[j] # g.index
    BY <1>4, <2>1, <2>3
  <2> QED  BY <1>4, <1>6, <2>4, <2>5, <2>6 DEF FreeRight
<1>14. (/\ TablesRight(rec, rows, live) /\ FreeRight(rec, free, live)
        /\ Linked(ContentsOf(rec, rows, live)) /\ ~aborted)'
  BY <1>1, <1>2, <1>11, <1>12, <1>13
<1> QED  BY <1>14, InvariantParts, PTL

\* h migrates to table `to`, as it does in Storage, and new columns are not written.
MovesUnwritten(h, from, r, to) ==
    /\ \E old \in ValuesAt(rows, from, r) :
          rows' = MigrateRows(rows, h, from, to, r,
                              Carried(old, from, to, [d \in to \ from |-> Unspecified]))
    /\ rec' = MigrateRec(rec, rows, h, from, to, r)
    /\ UNCHANGED <<free, live, dead>>

\* A component without hooks comes or goes as in Storage.
LEMMA PlainStep ==
    ASSUME RelInv, NEW h \in live, Plain(h)
    PROVE  RelInv'
<1>1. PICK c \in Component \ {RelationTarget, RelationSource} :
          RemoveComponent(h, c) \/ AddComponent(h, c, Unspecified)
  BY DEF Plain
<1>a. PICK from, r : from = TypeOf(h) /\ r = RowOfEntity(h)
  OBVIOUS
<1>b. PICK to \in {from \cup {c}, from \ {c}} : to # from /\ MovesUnwritten(h, from, r, to)
  <2>1. CASE RemoveComponent(h, c)
    <3>0. PICK to : to = from \ {c}
      OBVIOUS
    <3>1. c \in from /\ Migrate(h, to, << >>)
      BY <1>a, <2>1, <3>0 DEF RemoveComponent
    <3>2. \A old : Carried(old, from, to, << >>)
                      = Carried(old, from, to, [d \in to \ from |-> Unspecified])
      BY <3>0 DEF Carried
    <3>3. MovesUnwritten(h, from, r, to)
      BY <1>a, <3>1, <3>2 DEF Migrate, MovesUnwritten
    <3> QED  BY <3>0, <3>1, <3>3
  <2>2. CASE AddComponent(h, c, Unspecified)
    <3>0. PICK to : to = from \cup {c}
      OBVIOUS
    <3>1. c \notin from /\ Migrate(h, to, [d \in {c} |-> Unspecified])
      BY <1>a, <2>2, <3>0 DEF AddComponent
    <3>2. to \ from = {c}
      BY <3>0, <3>1
    <3>3. MovesUnwritten(h, from, r, to)
      BY <1>a, <3>1, <3>2 DEF Migrate, MovesUnwritten
    <3> QED  BY <3>0, <3>1, <3>3
  <2> QED  BY <1>1, <2>1, <2>2
<1>c. PICK fresh : fresh = [d \in to \ from |-> Unspecified]
  OBVIOUS
<1>0. /\ from = TypeOf(h) /\ r = RowOfEntity(h) /\ fresh = [d \in to \ from |-> Unspecified]
      /\ \E old \in ValuesAt(rows, from, r) :
            rows' = MigrateRows(rows, h, from, to, r, Carried(old, from, to, fresh))
      /\ rec' = MigrateRec(rec, rows, h, from, to, r)
      /\ UNCHANGED <<free, live, dead>>
  BY <1>a, <1>b, <1>c DEF MovesUnwritten
<1>2. /\ Sound(Store) /\ Linked(Bar(Store)) /\ h \in Store.live /\ TypeIn(Store, h) = from
      /\ from \in TableType
  BY <1>0, ReadsStore
<1>3. RowIn(Store, h) = r /\ Store.rows = rows /\ Store.rec = rec
  BY <1>0, StoreFields DEF RowIn, RowOfEntity
<1>4. PICK old \in ValuesAt(rows, from, r) :
          rows' = MigrateRows(rows, h, from, to, r, Carried(old, from, to, fresh))
  BY <1>0
<1>5. PICK read : read = IF from = RootType THEN << >> ELSE rows[from][r + 1].value
  OBVIOUS
<1>6. Carried(old, from, to, fresh) = Carried(read, from, to, fresh)
  <2>1. CASE from = RootType
    BY <2>1 DEF Carried, RootType
  <2>2. CASE from # RootType
    <3>1. PICK d : d \in from
      BY <2>2 DEF RootType
    <3>2. r < Len(rows[from])
      BY <1>2, <1>3, <3>1, ReadsContents DEF Readable
    <3> QED  BY <1>5, <2>2, <3>2 DEF ValuesAt
  <2> QED  BY <2>1, <2>2
<1>7. PICK st2 : st2 = MoveTo(Store, h, to)
  OBVIOUS
<1>8. Sound(st2) /\ Linked(Bar(st2))
  BY <1>b, <1>2, <1>7, PlainKeeps
<1>9. st2 = [Store EXCEPT !.rec = MigrateRec(rec, rows, h, from, to, r),
                 !.rows = MigrateRows(rows, h, from, to, r, Carried(read, from, to, fresh)),
                 !.moves = RowLeft(Append(@, [entity |-> h, table |-> to, joins |-> TRUE]),
                                   rows, from, r)]
  BY <1>0, <1>2, <1>3, <1>5, <1>7 DEF MoveTo, MigrateIn
<1>10. /\ st2.rec = rec' /\ st2.rows = rows' /\ st2.ok = ~aborted
       /\ st2.free = free /\ st2.live = live /\ st2.dead = dead
  BY <1>0, <1>4, <1>6, <1>9 DEF Store
<1>11. ~aborted /\ st2.ok
  BY <1>8, InvariantParts DEF Sound
<1>12. Becomes(st2)
  BY <1>0, <1>10, <1>11 DEF Becomes, Plain
<1> QED  BY <1>8, <1>12, BecomesKeeps

\* Relating two live entities.
LEMMA RelateStep ==
    ASSUME RelInv, NEW c \in live, NEW p \in live, Relate(c, p)
    PROVE  RelInv'
<1>0. PICK st, st2 : st = Store /\ st2 = RelateIn(Store, c, p)
  OBVIOUS
<1>1. Sound(st) /\ Linked(Bar(st)) /\ c \in st.live /\ p \in st.live
  BY <1>0, ReadsStore
<1>2. Sound(st2) /\ Linked(Bar(st2))
  BY <1>0, <1>1, RelateKeeps DEF Yields
<1>3. Becomes(st2)
  BY <1>0 DEF Relate
<1> QED  BY <1>2, <1>3, BecomesKeeps

\* Unrelating them, where rows stay put.
LEMMA UnrelateStep ==
    ASSUME RelInv, NEW c \in live, NEW p \in live, UnrelateSteadily(c, p)
    PROVE  RelInv'
<1>0. PICK st, st2 : st = Store /\ st2 = RemoveTargetIn(Store, c)
  OBVIOUS
<1>1. Sound(st) /\ Linked(Bar(st)) /\ c \in st.live
  BY <1>0, ReadsStore
<1>2. RelationTarget \in TypeIn(st, c) /\ st2.steady /\ Becomes(st2)
  BY <1>0 DEF UnrelateSteadily, Unrelate, HasTarget, Readable
<1>3. Sound(st2) /\ Linked(Bar(st2))
  BY <1>0, <1>1, <1>2, UnrelateKeeps DEF Yields
<1> QED  BY <1>2, <1>3, BecomesKeeps

\* Destroying an entity that is no parent.
LEMMA DestroyRelationStep ==
    ASSUME RelInv, NEW h \in live, ~IsParent(h), DestroyUnlisted(h)
    PROVE  RelInv'
<1>0. PICK st, st2 : st = Store /\ st2 = DestroyIn(Store, h)
  OBVIOUS
<1>1. /\ Sound(st) /\ Linked(Bar(st)) /\ h \in st.live /\ TypeIn(st, h) = TypeOf(h)
  BY <1>0, ReadsStore
<1>2. RelationSource \notin TypeIn(st, h)
  BY <1>1 DEF IsParent
<1>3. ~(TypeIn(st, h) = RootType /\ At(st.rec, st.rows, h))
  BY <1>0, <1>1, StoreFields DEF DestroyUnlisted, Listed, TypeOf, RowOfEntity, At
<1>4. Sound(st2) /\ Linked(Bar(st2))
  BY <1>0, <1>1, <1>2, <1>3, DestroyKeeps
<1>5. Becomes(st2)
  BY <1>0 DEF DestroyUnlisted, Destroy
<1> QED  BY <1>4, <1>5, BecomesKeeps

\* The invariant is inductive.
LEMMA RelationStep ==
    ASSUME RelInv, [CarefulNext]_opVars
    PROVE  RelInv'
<1>1. CASE Create
  BY <1>1, NewIndexKeeps, RecycledIndexKeeps DEF Create, CreateEntity
<1>2. ASSUME NEW h \in live, ~IsParent(h), DestroyUnlisted(h)
      PROVE  RelInv'
  BY <1>2, DestroyRelationStep
<1>3. ASSUME NEW h \in live, Plain(h)
      PROVE  RelInv'
  BY <1>3, PlainStep
<1>4. ASSUME NEW h \in live, NEW p \in live, Relate(h, p)
      PROVE  RelInv'
  BY <1>4, RelateStep
<1>5. ASSUME NEW h \in live, NEW p \in live, UnrelateSteadily(h, p)
      PROVE  RelInv'
  BY <1>5, UnrelateStep
<1>6. CASE UNCHANGED opVars
  <2>1. (/\ TablesRight(rec, rows, live) /\ FreeRight(rec, free, live)
         /\ Linked(ContentsOf(rec, rows, live)) /\ ~aborted)'
    BY <1>6, InvariantParts DEF opVars
  <2> QED  BY <2>1, InvariantParts, PTL
<1> QED  BY <1>1, <1>2, <1>3, <1>4, <1>5, <1>6 DEF CarefulNext

\* It holds initially.
LEMMA RelationInit ==
    ASSUME OpInit
    PROVE  RelInv
<1>1. /\ rec = << >> /\ free = << >> /\ rows = [t \in TableType |-> << >>] /\ live = {}
      /\ ~aborted
  BY DEF OpInit, Init
<1>2. TablesRight(rec, rows, live)
  <2>1. \A t \in TableType : rows[t] = << >>
    BY <1>1
  <2>2. Typed(rec, rows, live)
    <3>1. rows = [t \in TableType |-> rows[t]]
      BY <1>1
    <3> QED  BY <1>1, <2>1, <3>1, StorageAssumption DEF Typed
  <2>3. Backed(rec, rows, live)
    BY <2>1 DEF Backed
  <2>4. Placed(rec, rows, live)
    BY <1>1 DEF Placed
  <2> QED  BY <2>2, <2>3, <2>4 DEF TablesRight
<1>3. FreeRight(rec, free, live)
  BY <1>1 DEF FreeRight
<1>4. Linked(ContentsOf(rec, rows, live))
  BY <1>1 DEF Linked, ContentsOf
<1> QED  BY <1>1, <1>2, <1>3, <1>4, InvariantParts

\* Careful clients keep it.
LEMMA RelationInvariance == CarefulSpec => []RelInv
<1>1. OpInit => RelInv
  BY RelationInit
<1>2. RelInv /\ [CarefulNext]_opVars => RelInv'
  BY RelationStep
<1> QED  BY <1>1, <1>2, PTL DEF CarefulSpec

-----------------------------------------------------------------------------
(* Theorems *)

\* A list of names has as many elements as it names.
LEMMA NamesCounted ==
    ASSUME NEW list, NEW kids, Names(list, kids)
    PROVE  {list[j] : j \in DOMAIN list} = kids /\ Len(list) = Cardinality(kids)
<1>0. PICK n : n = Len(list)
  OBVIOUS
<1>1. list \in Seq(Handle) /\ n \in Nat /\ DOMAIN list = 1 .. n
  BY <1>0 DEF Names
<1>2. {list[j] : j \in DOMAIN list} = kids
  BY <1>0, <1>1 DEF Names
<1>3. list \in [1 .. n -> kids]
  BY <1>0, <1>1 DEF Names
<1>4. list \in Bijection(1 .. n, kids)
  <2>1. list \in Injection(1 .. n, kids)
    BY <1>0, <1>3 DEF Names, Injection, IsInjective
  <2>2. list \in Surjection(1 .. n, kids)
    BY <1>0, <1>3 DEF Names, Surjection
  <2> QED  BY <2>1, <2>2 DEF Bijection
<1>5. Cardinality(kids) = n
  BY <1>1, <1>4, FS_CountingElements DEF ExistsBijection
<1> QED  BY <1>0, <1>2, <1>5

\* p is the target of c exactly when c is on the list of p, once, whatever
\* entities are created, related, related anew, unrelated and destroyed, for
\* every number of entities.
THEOREM RelationsAgree == CarefulSpec => []LinksAgree
<1>1. RelInv => LinksAgree
  <2> SUFFICES ASSUME RelInv, NEW p \in live
               PROVE  LET list == Children(p)
                          targets == {c \in live : /\ RelationTarget \in TypeOf(c)
                                                   /\ Get(Store, c, RelationTarget) = p}
                      IN  /\ {list[j] : j \in DOMAIN list} = targets
                          /\ Len(list) = Cardinality(targets)
                          /\ IsParent(p) => list # << >>
    BY DEF LinksAgree
  <2>0. PICK w, list, targets :
            /\ w = Bar(Store) /\ list = Children(p)
            /\ targets = {c \in live : /\ RelationTarget \in TypeOf(c)
                                       /\ Get(Store, c, RelationTarget) = p}
    OBVIOUS
  <2>1. targets = Kids(w, p)
    <3>1. DOMAIN w = live
      BY <2>0, ReadsStore
    <3>2. \A c \in live : TypeOf(c) = DOMAIN w[c]
      BY <2>0, ReadsStore
    <3>3. \A c \in live : RelationTarget \in TypeOf(c) =>
              Get(Store, c, RelationTarget) = w[c][RelationTarget]
      BY <2>0, ReadsStore
    <3> QED  BY <2>0, <3>1, <3>2, <3>3 DEF Kids
  <2>2. HasList(w[p], Kids(w, p)) /\ (IsParent(p) <=> RelationSource \in DOMAIN w[p])
    BY <2>0, ReadsStore DEF Linked, IsParent
  <2>3. Names(list, targets) /\ (IsParent(p) => list # << >>)
    <3>1. CASE IsParent(p)
      <4>1. list = w[p][RelationSource]
        BY <2>0, <3>1, ReadsStore DEF Children, IsParent
      <4> QED  BY <2>1, <2>2, <3>1, <4>1 DEF HasList
    <3>2. CASE ~IsParent(p)
      <4>1. list = << >> /\ targets = {}
        BY <2>0, <2>1, <2>2, <3>2 DEF Children, HasList
      <4>2. Names(<< >>, {})
        BY DEF Names
      <4> QED  BY <3>2, <4>1, <4>2
    <3> QED  BY <3>1, <3>2
  <2>4. {list[j] : j \in DOMAIN list} = targets /\ Len(list) = Cardinality(targets)
    BY <2>3, NamesCounted
  <2> QED  BY <2>0, <2>3, <2>4
<1> QED  BY <1>1, RelationInvariance, PTL

\* No hook meets a dead entity or a component that is not there.
THEOREM HooksAreSafe == CarefulSpec => []HooksFindTheirEntities
<1>1. RelInv => HooksFindTheirEntities
  BY InvariantParts DEF HooksFindTheirEntities
<1> QED  BY <1>1, RelationInvariance, PTL

\* Hooks that migrate other entities in the middle of an operation leave every
\* entity with components where its record says.
THEOREM HooksKeepRecords == CarefulSpec => []RecordsLocateRows
<1>1. RelInv => RecordsLocateRows
  <2> SUFFICES ASSUME RelInv, NEW h \in live, TypeOf(h) # RootType
               PROVE  Listed(h)
    BY DEF RecordsLocateRows
  <2>1. TablesRight(rec, rows, live)
    BY InvariantParts
  <2> QED  BY <2>1 DEF TablesRight, Placed, At, Listed, TypeOf, RowOfEntity
<1> QED  BY <1>1, RelationInvariance, PTL
=============================================================================
