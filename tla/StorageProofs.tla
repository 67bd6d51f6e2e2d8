---------------------------- MODULE StorageProofs ----------------------------
(***************************************************************************)
(* Theorems about Storage, for every set of components and values, every   *)
(* number of entities and every generation width.                          *)
(***************************************************************************)
EXTENDS Storage, SequenceTheorems, WellFoundedInduction, TLAPS

-----------------------------------------------------------------------------
(* Numbers, sequences and tables *)

\* A set of numbers has a least one.
LEMMA Least ==
    ASSUME NEW T, T \subseteq Nat, T # {}
    PROVE  \E x \in T : \A y \in T : x <= y
<1>0. PICK R : R = OpToRel(<, Nat)
  OBVIOUS
<1>1. IsWellFoundedOn(R, Nat)
  BY Zenon, <1>0, NatLessThanWellFounded
<1>2. PICK x \in T : \A y \in T : <<y, x>> \notin R
  BY <1>1, WFMin
<1>3. \A y, z \in Nat : y < z => <<y, z>> \in R
  BY Zenon, <1>0 DEF OpToRel
<1>4. \A y \in T : ~(y < x) /\ y \in Nat
  BY <1>2, <1>3
<1>5. \A y \in T : x <= y
  BY ONLY <1>4, x \in T, T \subseteq Nat
<1> QED  BY <1>5

\* What Table::removeEntity leaves: one row fewer, the last row in the hole.
LEMMA SwapRemoveProperties ==
    ASSUME NEW S, NEW s \in Seq(S), NEW i \in Nat
    PROVE  /\ SwapRemove(s, i) \in Seq(S)
           /\ s = << >> => SwapRemove(s, i) = << >>
           /\ s # << >> => Len(SwapRemove(s, i)) = Len(s) - 1
           /\ \A j \in 1 .. Len(SwapRemove(s, i)) :
                 /\ j \in 1 .. Len(s) - 1
                 /\ SwapRemove(s, i)[j] = IF j = i THEN s[Len(s)] ELSE s[j]
<1> DEFINE f == SwapRemove(s, i)
           n == Len(s) - 1
<1>1. CASE s = << >>
  <2>1. f = << >>
    BY <1>1 DEF SwapRemove
  <2>2. << >> \in Seq(S) /\ Len(<< >>) = 0 /\ 1 .. 0 = {}
    OBVIOUS
  <2> QED  BY <1>1, <2>1, <2>2
<1>2. CASE s # << >>
  <2>1. n \in Nat
    BY <1>2
  <2>2. \A j \in 1 .. n : (IF j = i THEN s[Len(s)] ELSE s[j]) \in S
    BY <2>1
  <2>3. f \in [1 .. n -> S]
    BY <2>2 DEF SwapRemove
  <2>4. f \in Seq(S) /\ Len(f) = n
    BY <2>1, <2>3
  <2> QED  BY <1>2, <2>1, <2>4 DEF SwapRemove
<1> QED  BY <1>1, <1>2

\* The caller's record fix after removeEntity: only row fields change, and only
\* that of the entity which was moved.
LEMMA FixSwappedProperties ==
    ASSUME NEW rc \in Seq(Record), NEW rw, NEW t, NEW row \in Nat
    PROVE  LET fixed == FixSwapped(rc, rw, t, row)
               last == rw[t][Len(rw[t])].entity.index
           IN  /\ fixed \in Seq(Record)
               /\ Len(fixed) = Len(rc)
               /\ \A i \in 1 .. Len(rc) :
                     /\ fixed[i].type = rc[i].type
                     /\ fixed[i].generation = rc[i].generation
                     /\ fixed[i].row = IF Moves(rw, t, row) /\ i = last
                                      THEN row ELSE rc[i].row
<1> DEFINE last == rw[t][Len(rw[t])].entity.index
<1>1. CASE Moves(rw, t, row)
  <2> DEFINE fixed == [rc EXCEPT ![last].row = row]
  <2>0. FixSwapped(rc, rw, t, row) = fixed
    BY <1>1 DEF FixSwapped
  <2>1. \A i \in 1 .. Len(rc) :
           fixed[i] = IF i = last THEN [rc[i] EXCEPT !.row = row] ELSE rc[i]
    OBVIOUS
  <2>2. \A i \in 1 .. Len(rc) : rc[i] \in Record
    OBVIOUS
  <2>3. DOMAIN fixed = 1 .. Len(rc) /\ fixed = [i \in 1 .. Len(rc) |-> fixed[i]]
    OBVIOUS
  <2> HIDE DEF fixed, last
  <2>4. ASSUME NEW i \in 1 .. Len(rc)
        PROVE  /\ fixed[i] \in Record
               /\ fixed[i].type = rc[i].type
               /\ fixed[i].generation = rc[i].generation
               /\ fixed[i].row = IF i = last THEN row ELSE rc[i].row
    <3>1. CASE i = last
      <4>1. fixed[i] = [rc[i] EXCEPT !.row = row]
        BY <2>1, <3>1
      <4> QED  BY <2>2, <3>1, <4>1 DEF Record
    <3>2. CASE i # last
      BY <2>1, <2>2, <3>2
    <3> QED  BY <3>1, <3>2
  <2>5. fixed \in [1 .. Len(rc) -> Record]
    BY <2>3, <2>4
  <2>6. fixed \in Seq(Record) /\ Len(fixed) = Len(rc)
    BY <2>5, Len(rc) \in Nat
  <2> QED  BY <1>1, <2>0, <2>4, <2>6 DEF last
<1>2. CASE ~Moves(rw, t, row)
  BY <1>2 DEF FixSwapped
<1> QED  BY <1>1, <1>2

-----------------------------------------------------------------------------
(* Type correctness *)

LEMMA UsableProperties ==
    ASSUME TypeOK, NEW h \in live \cup dead, IsAlive(h)
    PROVE  /\ h \in Handle
           /\ h.index \in 1 .. Len(rec)
           /\ rec[h.index] \in Record
           /\ TypeOf(h) \in TableType
           /\ RowOfEntity(h) \in Nat
<1>1. h \in Handle /\ rec \in Seq(Record) /\ h.index \in 1 .. Len(rec)
  BY DEF TypeOK, IsAlive, Allocated
<1>2. rec[h.index] \in Record
  BY <1>1
<1> QED  BY <1>1, <1>2 DEF Record, TypeOf, RowOfEntity

LEMMA ValuesAtType ==
    ASSUME TypeOK, NEW t \in TableType, NEW row \in Nat,
           NEW old \in ValuesAt(rows, t, row)
    PROVE  old \in [t -> Value]
<1>1. CASE row < Len(rows[t])
  <2>1. rows[t] \in Seq(Row) /\ row + 1 \in DOMAIN rows[t]
    BY <1>1 DEF TypeOK
  <2> QED  BY <1>1, <2>1 DEF TypeOK, ValuesAt
<1>2. CASE ~(row < Len(rows[t]))
  BY <1>2 DEF ValuesAt
<1> QED  BY <1>1, <1>2

\* Removing any row number of a table leaves well-typed tables.
LEMMA RemoveRowType ==
    ASSUME NEW rw \in [TableType -> Seq(Row)], NEW t \in TableType, NEW row \in Nat,
           \A u \in TableType : \A j \in DOMAIN rw[u] : rw[u][j].value \in [u -> Value]
    PROVE  LET left == RemoveRow(rw, t, row)
           IN  /\ left \in [TableType -> Seq(Row)]
               /\ left[t] = SwapRemove(rw[t], row + 1)
               /\ \A u \in TableType \ {t} : left[u] = rw[u]
               /\ \A u \in TableType : \A j \in DOMAIN left[u] :
                     left[u][j].value \in [u -> Value]
<1> DEFINE left == RemoveRow(rw, t, row)
<1>1. rw[t] \in Seq(Row) /\ row + 1 \in Nat
  OBVIOUS
<1>2. SwapRemove(rw[t], row + 1) \in Seq(Row)
  BY <1>1, SwapRemoveProperties
<1>3. /\ left \in [TableType -> Seq(Row)]
      /\ left[t] = SwapRemove(rw[t], row + 1)
      /\ \A u \in TableType \ {t} : left[u] = rw[u]
  BY <1>2 DEF RemoveRow
<1>4. ASSUME NEW j \in DOMAIN left[t]
      PROVE  left[t][j].value \in [t -> Value]
  <2>1. j \in 1 .. Len(SwapRemove(rw[t], row + 1))
    BY <1>2, <1>3
  <2>2. /\ j \in 1 .. Len(rw[t]) - 1
        /\ left[t][j] = IF j = row + 1 THEN rw[t][Len(rw[t])] ELSE rw[t][j]
    BY <1>1, <1>3, <2>1, SwapRemoveProperties
  <2>3. Len(rw[t]) \in DOMAIN rw[t] /\ j \in DOMAIN rw[t]
    BY <1>1, <2>2
  <2> QED  BY <2>2, <2>3
<1> QED  BY <1>3, <1>4

\* Appending a well-typed row to another table.
LEMMA AddRowType ==
    ASSUME NEW rw \in [TableType -> Seq(Row)], NEW t \in TableType,
           NEW e \in Handle, NEW val \in [t -> Value],
           \A u \in TableType : \A j \in DOMAIN rw[u] : rw[u][j].value \in [u -> Value]
    PROVE  LET more == AddRow(rw, t, e, val)
           IN  /\ more \in [TableType -> Seq(Row)]
               /\ more[t] = Append(rw[t], [entity |-> e, value |-> val])
               /\ \A u \in TableType \ {t} : more[u] = rw[u]
               /\ \A u \in TableType : \A j \in DOMAIN more[u] :
                     more[u][j].value \in [u -> Value]
<1> DEFINE more == AddRow(rw, t, e, val)
           r == [entity |-> e, value |-> val]
<1>1. r \in Row
  BY DEF Row
<1>2. rw[t] \in Seq(Row)
  OBVIOUS
<1>3. Append(rw[t], r) \in Seq(Row)
  BY <1>1, <1>2
<1>4. /\ more \in [TableType -> Seq(Row)]
      /\ more[t] = Append(rw[t], r)
      /\ \A u \in TableType \ {t} : more[u] = rw[u]
  BY <1>3 DEF AddRow
<1>5. ASSUME NEW j \in DOMAIN Append(rw[t], r)
      PROVE  Append(rw[t], r)[j].value \in [t -> Value]
  <2>1. CASE j \in 1 .. Len(rw[t])
    BY <1>2, <2>1
  <2>2. CASE j = Len(rw[t]) + 1
    BY <1>2, <2>2
  <2> QED  BY <1>2, <2>1, <2>2
<1> HIDE DEF more, r
<1> QED  BY <1>4, <1>5 DEF more, r

\* Pointing the record of one entity at another table and row.
LEMMA RelocateProperties ==
    ASSUME NEW rc \in Seq(Record), NEW k \in 1 .. Len(rc),
           NEW t \in TableType, NEW n \in Nat
    PROVE  LET moved == Relocate(rc, k, t, n)
           IN  /\ moved \in Seq(Record)
               /\ Len(moved) = Len(rc)
               /\ moved[k].type = t /\ moved[k].row = n
               /\ moved[k].generation = rc[k].generation
               /\ \A i \in 1 .. Len(rc) : i # k => moved[i] = rc[i]
<1> DEFINE moved == Relocate(rc, k, t, n)
<1>1. rc[k] \in Record /\ Len(rc) \in Nat /\ DOMAIN rc = 1 .. Len(rc)
  OBVIOUS
<1>2. moved[k] = [rc[k] EXCEPT !.type = t, !.row = n]
  BY <1>1 DEF Relocate
<1>3. \A i \in 1 .. Len(rc) : i # k => moved[i] = rc[i]
  BY <1>1 DEF Relocate
<1>4. DOMAIN moved = 1 .. Len(rc) /\ moved = [i \in 1 .. Len(rc) |-> moved[i]]
  BY <1>1 DEF Relocate
<1> HIDE DEF moved
<1>5. /\ moved[k] \in Record
      /\ moved[k].type = t /\ moved[k].row = n
      /\ moved[k].generation = rc[k].generation
  BY <1>1, <1>2 DEF Record
<1>6. moved \in [1 .. Len(rc) -> Record]
  <2>1. \A i \in 1 .. Len(rc) : moved[i] \in Record
    BY <1>3, <1>5
  <2> QED  BY <1>4, <2>1
<1>7. moved \in Seq(Record) /\ Len(moved) = Len(rc)
  BY <1>1, <1>6
<1> QED  BY <1>3, <1>5, <1>7 DEF moved

\* Everything a migration of h from row r of table from does, table by table and
\* record by record.
Migrated(h, from, r, to) ==
    LET last == rows[from][Len(rows[from])].entity.index
    IN  /\ rows' \in [TableType -> Seq(Row)]
        /\ \A u \in TableType : \A j \in DOMAIN rows'[u] :
              rows'[u][j].value \in [u -> Value]
        /\ \E val : rows'[to] = Append(rows[to], [entity |-> h, value |-> val])
        /\ rows'[from] = SwapRemove(rows[from], r + 1)
        /\ \A u \in TableType \ {from, to} : rows'[u] = rows[u]
        /\ rec' \in Seq(Record) /\ Len(rec') = Len(rec)
        /\ rec'[h.index].type = to
        /\ rec'[h.index].row = Len(rows[to])
        /\ \A i \in 1 .. Len(rec) :
              /\ rec'[i].generation = rec[i].generation
              /\ i # h.index =>
                   /\ rec'[i].type = rec[i].type
                   /\ rec'[i].row = IF Moves(rows, from, r) /\ i = last
                                    THEN r ELSE rec[i].row

\* A migration does what Migrated says.
LEMMA MigrateEffect ==
    ASSUME TypeOK, NEW h \in live \cup dead, IsAlive(h),
           NEW to \in TableType, to # TypeOf(h), NEW fresh,
           \A c \in to \ TypeOf(h) : fresh[c] \in Value,
           Migrate(h, to, fresh)
    PROVE  Migrated(h, TypeOf(h), RowOfEntity(h), to)
<1> DEFINE from == TypeOf(h)
           r == RowOfEntity(h)
           last == rows[from][Len(rows[from])].entity.index
<1>1. /\ h \in Handle /\ h.index \in 1 .. Len(rec)
      /\ from \in TableType /\ r \in Nat
  BY UsableProperties
<1>2. PICK old \in ValuesAt(rows, from, r) :
         rows' = MigrateRows(rows, h, from, to, r, Carried(old, from, to, fresh))
  BY DEF Migrate
<1> DEFINE val == Carried(old, from, to, fresh)
           more == AddRow(rows, to, h, val)
<1>3. old \in [from -> Value]
  BY <1>1, <1>2, ValuesAtType
<1>4. val \in [to -> Value]
  BY <1>3 DEF Carried
<1>5. /\ rows \in [TableType -> Seq(Row)]
      /\ \A u \in TableType : \A j \in DOMAIN rows[u] : rows[u][j].value \in [u -> Value]
      /\ rec \in Seq(Record)
  BY DEF TypeOK
<1> HIDE DEF from, r, last, val, more
<1>6. /\ more \in [TableType -> Seq(Row)]
      /\ more[to] = Append(rows[to], [entity |-> h, value |-> val])
      /\ \A u \in TableType \ {to} : more[u] = rows[u]
      /\ \A u \in TableType : \A j \in DOMAIN more[u] : more[u][j].value \in [u -> Value]
  BY <1>1, <1>4, <1>5, AddRowType DEF more
<1>7. rows' = RemoveRow(more, from, r)
  BY <1>2 DEF MigrateRows, more, val
<1>8. /\ rows' \in [TableType -> Seq(Row)]
      /\ rows'[from] = SwapRemove(more[from], r + 1)
      /\ \A u \in TableType \ {from} : rows'[u] = more[u]
      /\ \A u \in TableType : \A j \in DOMAIN rows'[u] : rows'[u][j].value \in [u -> Value]
  <2>1. LET left == RemoveRow(more, from, r)
        IN  /\ left \in [TableType -> Seq(Row)]
            /\ left[from] = SwapRemove(more[from], r + 1)
            /\ \A u \in TableType \ {from} : left[u] = more[u]
            /\ \A u \in TableType : \A j \in DOMAIN left[u] : left[u][j].value \in [u -> Value]
    BY <1>1, <1>6, RemoveRowType
  <2> QED  BY <1>7, <2>1
<1>9. to # from
  BY DEF from
<1>10. /\ rows'[to] = Append(rows[to], [entity |-> h, value |-> val])
       /\ rows'[from] = SwapRemove(rows[from], r + 1)
       /\ \A u \in TableType \ {from, to} : rows'[u] = rows[u]
  BY <1>1, <1>6, <1>8, <1>9
<1> DEFINE fixed == FixSwapped(rec, rows, from, r)
           n == Len(rows[to])
<1>11. /\ fixed \in Seq(Record) /\ Len(fixed) = Len(rec)
       /\ \A i \in 1 .. Len(rec) :
             /\ fixed[i].type = rec[i].type
             /\ fixed[i].generation = rec[i].generation
             /\ fixed[i].row = IF Moves(rows, from, r) /\ i = last THEN r ELSE rec[i].row
  BY <1>1, <1>5, FixSwappedProperties DEF last
<1>12. rec' = Relocate(fixed, h.index, to, n)
  BY DEF Migrate, MigrateRec, from, r
<1>13. n \in Nat
  BY <1>5
<1> HIDE DEF fixed, n
<1>14. /\ rec' \in Seq(Record) /\ Len(rec') = Len(rec)
       /\ rec'[h.index].type = to /\ rec'[h.index].row = n
       /\ rec'[h.index].generation = fixed[h.index].generation
       /\ \A i \in 1 .. Len(rec) : i # h.index => rec'[i] = fixed[i]
  <2>1. LET moved == Relocate(fixed, h.index, to, n)
        IN  /\ moved \in Seq(Record) /\ Len(moved) = Len(fixed)
            /\ moved[h.index].type = to /\ moved[h.index].row = n
            /\ moved[h.index].generation = fixed[h.index].generation
            /\ \A i \in 1 .. Len(fixed) : i # h.index => moved[i] = fixed[i]
    <3>1. fixed \in Seq(Record) /\ h.index \in 1 .. Len(fixed)
      BY <1>1, <1>11
    <3>2. to \in TableType
      OBVIOUS
    <3> QED  BY <1>13, <3>1, <3>2, RelocateProperties
  <2> QED  BY <1>11, <1>12, <2>1
<1>15. \A i \in 1 .. Len(rec) :
          /\ rec'[i].generation = rec[i].generation
          /\ i # h.index =>
               /\ rec'[i].type = rec[i].type
               /\ rec'[i].row = IF Moves(rows, from, r) /\ i = last
                                THEN r ELSE rec[i].row
  BY <1>11, <1>14
<1> QED  BY <1>8, <1>10, <1>14, <1>15 DEF Migrated, from, r, last, n

\* The increment of a generation stays in range; before the last value it is
\* an increment.
LEMMA NextGeneration ==
    ASSUME NEW g \in 0 .. Generations - 1
    PROVE  /\ (g + 1) % Generations \in 0 .. Generations - 1
           /\ g < Generations - 1 => (g + 1) % Generations = g + 1
BY StorageAssumption

LEMMA RetireProperties ==
    ASSUME NEW rc \in Seq(Record), NEW k \in 1 .. Len(rc)
    PROVE  LET left == Retire(rc, k)
           IN  /\ left \in Seq(Record)
               /\ Len(left) = Len(rc)
               /\ left[k].type = RootType /\ left[k].row = 0
               /\ left[k].generation = (rc[k].generation + 1) % Generations
               /\ \A i \in 1 .. Len(rc) : i # k => left[i] = rc[i]
<1> DEFINE left == Retire(rc, k)
           g == (rc[k].generation + 1) % Generations
<1>1. rc[k] \in Record /\ Len(rc) \in Nat /\ DOMAIN rc = 1 .. Len(rc)
  OBVIOUS
<1>2. left[k] = [type |-> RootType, row |-> 0, generation |-> g]
  BY <1>1 DEF Retire
<1>3. \A i \in 1 .. Len(rc) : i # k => left[i] = rc[i]
  BY <1>1 DEF Retire
<1>4. DOMAIN left = 1 .. Len(rc) /\ left = [i \in 1 .. Len(rc) |-> left[i]]
  BY <1>1 DEF Retire
<1>5. g \in 0 .. Generations - 1
  <2>1. rc[k].generation \in 0 .. Generations - 1
    BY <1>1 DEF Record
  <2> QED  BY <2>1, NextGeneration
<1> HIDE DEF left, g
<1>6. left[k] \in Record
  BY <1>2, <1>5 DEF Record, TableType, RootType
<1>7. left \in [1 .. Len(rc) -> Record]
  <2>1. \A i \in 1 .. Len(rc) : left[i] \in Record
    BY <1>3, <1>6
  <2> QED  BY <1>4, <2>1
<1>8. left \in Seq(Record) /\ Len(left) = Len(rc)
  BY <1>1, <1>7
<1> QED  BY <1>2, <1>3, <1>8 DEF left, g

\* Everything destroyEntity does.
LEMMA DestroyEffect ==
    ASSUME TypeOK, NEW h \in live \cup dead, DestroyEntity(h)
    PROVE  LET t == TypeOf(h)
               r == RowOfEntity(h)
               last == rows[t][Len(rows[t])].entity.index
           IN  /\ rows' \in [TableType -> Seq(Row)]
               /\ \A u \in TableType : \A j \in DOMAIN rows'[u] :
                     rows'[u][j].value \in [u -> Value]
               /\ rows'[t] = IF t = RootType THEN rows[t] ELSE SwapRemove(rows[t], r + 1)
               /\ \A u \in TableType \ {t} : rows'[u] = rows[u]
               /\ rec' \in Seq(Record) /\ Len(rec') = Len(rec)
               /\ rec'[h.index].type = RootType /\ rec'[h.index].row = 0
               /\ rec'[h.index].generation = (rec[h.index].generation + 1) % Generations
               /\ \A i \in 1 .. Len(rec) : i # h.index =>
                     /\ rec'[i].generation = rec[i].generation
                     /\ rec'[i].type = rec[i].type
                     /\ rec'[i].row = IF t # RootType /\ Moves(rows, t, r) /\ i = last
                                      THEN r ELSE rec[i].row
<1> DEFINE t == TypeOf(h)
           r == RowOfEntity(h)
           last == rows[t][Len(rows[t])].entity.index
           rec1 == IF t = RootType THEN rec ELSE FixSwapped(rec, rows, t, r)
<1>1. /\ h \in Handle /\ h.index \in 1 .. Len(rec)
      /\ t \in TableType /\ r \in Nat
  BY UsableProperties DEF DestroyEntity, Usable
<1>2. /\ rows \in [TableType -> Seq(Row)]
      /\ \A u \in TableType : \A j \in DOMAIN rows[u] : rows[u][j].value \in [u -> Value]
      /\ rec \in Seq(Record)
  BY DEF TypeOK
<1>3. /\ rec' = Retire(rec1, h.index)
      /\ rows' = IF t = RootType THEN rows ELSE RemoveRow(rows, t, r)
  BY DEF DestroyEntity
<1> HIDE DEF t, r, last
<1>4. /\ rows' \in [TableType -> Seq(Row)]
      /\ \A u \in TableType : \A j \in DOMAIN rows'[u] : rows'[u][j].value \in [u -> Value]
      /\ rows'[t] = IF t = RootType THEN rows[t] ELSE SwapRemove(rows[t], r + 1)
      /\ \A u \in TableType \ {t} : rows'[u] = rows[u]
  <2>1. CASE t = RootType
    BY <1>2, <1>3, <2>1
  <2>2. CASE t # RootType
    <3>1. LET left == RemoveRow(rows, t, r)
          IN  /\ left \in [TableType -> Seq(Row)]
              /\ left[t] = SwapRemove(rows[t], r + 1)
              /\ \A u \in TableType \ {t} : left[u] = rows[u]
              /\ \A u \in TableType : \A j \in DOMAIN left[u] : left[u][j].value \in [u -> Value]
      BY <1>1, <1>2, RemoveRowType
    <3> QED  BY <1>3, <2>2, <3>1
  <2> QED  BY <2>1, <2>2
<1>5. /\ rec1 \in Seq(Record) /\ Len(rec1) = Len(rec)
      /\ \A i \in 1 .. Len(rec) :
            /\ rec1[i].generation = rec[i].generation
            /\ rec1[i].type = rec[i].type
            /\ rec1[i].row = IF t # RootType /\ Moves(rows, t, r) /\ i = last
                             THEN r ELSE rec[i].row
  <2>1. CASE t = RootType
    BY <1>2, <2>1
  <2>2. CASE t # RootType
    BY <1>1, <1>2, <2>2, FixSwappedProperties DEF last
  <2> QED  BY <2>1, <2>2
<1> HIDE DEF rec1
<1>6. LET left == Retire(rec1, h.index)
      IN  /\ left \in Seq(Record) /\ Len(left) = Len(rec1)
          /\ left[h.index].type = RootType /\ left[h.index].row = 0
          /\ left[h.index].generation = (rec1[h.index].generation + 1) % Generations
          /\ \A i \in 1 .. Len(rec1) : i # h.index => left[i] = rec1[i]
  <2>1. rec1 \in Seq(Record) /\ h.index \in 1 .. Len(rec1)
    BY <1>1, <1>5
  <2> QED  BY <2>1, RetireProperties
<1>7. /\ rec' \in Seq(Record) /\ Len(rec') = Len(rec)
      /\ rec'[h.index].type = RootType /\ rec'[h.index].row = 0
      /\ rec'[h.index].generation = (rec[h.index].generation + 1) % Generations
      /\ \A i \in 1 .. Len(rec) : i # h.index => rec'[i] = rec1[i]
  <2>1. rec1[h.index].generation = rec[h.index].generation
    BY <1>1, <1>5
  <2> QED  BY <1>3, <1>5, <1>6, <2>1
<1> QED  BY <1>4, <1>5, <1>7 DEF t, r, last

\* Writing one component changes neither who is listed nor where.
LEMMA OverwriteEffect ==
    ASSUME TypeOK, NEW h \in live \cup dead, IsAlive(h),
           NEW c \in Component, NEW v \in Value, Overwrite(h, c, v)
    PROVE  /\ rows' \in [TableType -> Seq(Row)]
           /\ \A u \in TableType :
                 /\ DOMAIN rows'[u] = DOMAIN rows[u]
                 /\ \A j \in DOMAIN rows[u] :
                       /\ rows'[u][j].value \in [u -> Value]
                       /\ rows'[u][j].entity = rows[u][j].entity
<1> DEFINE t == TypeOf(h)
           j0 == RowOfEntity(h) + 1
           new == WriteCell(rows[t], j0, c, v)
<1>1. t \in TableType /\ c \in t
  BY UsableProperties DEF Overwrite
<1>2. rows[t] \in Seq(Row) /\ DOMAIN rows[t] = 1 .. Len(rows[t]) /\ Len(rows[t]) \in Nat
  BY <1>1 DEF TypeOK
<1>3. ASSUME NEW j \in 1 .. Len(rows[t])
      PROVE  /\ new[j] \in Row
             /\ new[j].entity = rows[t][j].entity
             /\ new[j].value \in [t -> Value]
  <2>1. rows[t][j] \in Row /\ rows[t][j].value \in [t -> Value]
    BY <1>1, <1>2 DEF TypeOK
  <2>2. CASE j # j0
    <3>1. new[j] = rows[t][j]
      BY <2>2 DEF WriteCell
    <3> QED  BY <2>1, <3>1
  <2>3. CASE j = j0
    <3>1. new[j] = [rows[t][j] EXCEPT !.value[c] = v]
      BY <2>3 DEF WriteCell
    <3> DEFINE old == rows[t][j]
               val == [old.value EXCEPT ![c] = v]
    <3>2. val \in [t -> Value]
      BY <1>1, <2>1
    <3>3. new[j] = [entity |-> old.entity, value |-> val]
      BY <2>1, <3>1 DEF Row
    <3>4. old.entity \in Handle
      BY <2>1 DEF Row
    <3> HIDE DEF old, val, new
    <3> QED  BY <1>1, <3>2, <3>3, <3>4 DEF Row, old
  <2> QED  BY <2>2, <2>3
<1>4. DOMAIN new = 1 .. Len(rows[t]) /\ new = [j \in 1 .. Len(rows[t]) |-> new[j]]
  BY DEF WriteCell
<1>5. rows' = [rows EXCEPT ![t] = new]
  BY DEF Overwrite
<1> HIDE DEF t, new
<1>6. new \in [1 .. Len(rows[t]) -> Row]
  BY <1>3, <1>4
<1>7. new \in Seq(Row)
  BY <1>2, <1>6
<1>8. /\ rows' \in [TableType -> Seq(Row)]
      /\ rows'[t] = new
      /\ \A u \in TableType \ {t} : rows'[u] = rows[u]
  BY <1>1, <1>5, <1>7 DEF TypeOK
<1>9. ASSUME NEW u \in TableType
      PROVE  /\ DOMAIN rows'[u] = DOMAIN rows[u]
             /\ \A j \in DOMAIN rows[u] :
                   /\ rows'[u][j].value \in [u -> Value]
                   /\ rows'[u][j].entity = rows[u][j].entity
  <2>1. CASE u = t
    BY <1>2, <1>3, <1>4, <1>8, <2>1
  <2>2. CASE u # t
    BY <1>8, <2>2 DEF TypeOK
  <2> QED  BY <2>1, <2>2
<1> QED  BY <1>8, <1>9

\* A client's change to one entity is a migration or an overwrite.
LEMMA ChangeCases ==
    ASSUME TypeOK, NEW h \in live \cup dead, Change(h)
    PROVE  /\ IsAlive(h)
           /\ \/ \E c \in Component, v \in Value : Overwrite(h, c, v)
              \/ \E to \in TableType : \E fresh :
                    /\ to # TypeOf(h)
                    /\ \A c \in to \ TypeOf(h) : fresh[c] \in Value
                    /\ Migrate(h, to, fresh)
<1>1. IsAlive(h)
  BY DEF Change, AddComponent, RemoveComponent, SetComponent, Usable
<1>2. TypeOf(h) \in TableType
  BY <1>1, UsableProperties
<1>3. PICK c \in Component : RemoveComponent(h, c)
        \/ \E v \in Value : AddComponent(h, c, v) \/ SetComponent(h, c, v)
  BY DEF Change
<1>4. CASE RemoveComponent(h, c)
  <2>1. /\ TypeOf(h) \ {c} \in TableType /\ TypeOf(h) \ {c} # TypeOf(h)
        /\ \A d \in (TypeOf(h) \ {c}) \ TypeOf(h) : << >>[d] \in Value
        /\ Migrate(h, TypeOf(h) \ {c}, << >>)
    BY <1>2, <1>4 DEF RemoveComponent, TableType
  <2> QED  BY <1>1, <2>1
<1>5. ASSUME NEW v \in Value, c \notin TypeOf(h),
             Migrate(h, TypeOf(h) \cup {c}, [d \in {c} |-> v])
      PROVE  \E to \in TableType : \E fresh :
                /\ to # TypeOf(h)
                /\ \A d \in to \ TypeOf(h) : fresh[d] \in Value
                /\ Migrate(h, to, fresh)
  <2>1. /\ TypeOf(h) \cup {c} \in TableType /\ TypeOf(h) \cup {c} # TypeOf(h)
        /\ \A d \in (TypeOf(h) \cup {c}) \ TypeOf(h) : [e \in {c} |-> v][d] \in Value
    BY <1>2, <1>5 DEF TableType
  <2> QED  BY <1>5, <2>1
<1>6. CASE \E v \in Value : AddComponent(h, c, v)
  BY <1>1, <1>5, <1>6 DEF AddComponent
<1>7. CASE \E v \in Value : SetComponent(h, c, v)
  BY <1>1, <1>5, <1>7 DEF SetComponent
<1> QED  BY <1>3, <1>4, <1>6, <1>7

\* The index on top of the free stack, and the stack below it.
LEMMA PopProperties ==
    ASSUME NEW S, NEW s \in Seq(S), s # << >>
    PROVE  LET rest == SubSeq(s, 1, Len(s) - 1)
           IN  /\ s[Len(s)] \in S
               /\ rest \in Seq(S)
               /\ Len(rest) = Len(s) - 1
               /\ \A j \in 1 .. Len(s) - 1 : rest[j] = s[j]
<1>1. Len(s) \in Nat /\ Len(s) # 0
  OBVIOUS
<1>2. \A j \in 1 .. Len(s) - 1 : s[j] \in S
  BY <1>1
<1>3. /\ SubSeq(s, 1, Len(s) - 1) \in Seq(S)
      /\ Len(SubSeq(s, 1, Len(s) - 1))
           = IF 1 <= Len(s) - 1 THEN (Len(s) - 1) - 1 + 1 ELSE 0
      /\ \A j \in 1 .. (Len(s) - 1) - 1 + 1 :
            SubSeq(s, 1, Len(s) - 1)[j] = s[1 + j - 1]
  BY <1>1, <1>2, SubSeqProperties
<1> DEFINE rest == SubSeq(s, 1, Len(s) - 1)
<1> HIDE DEF rest
<1>4. /\ rest \in Seq(S)
      /\ Len(rest) = IF 1 <= Len(s) - 1 THEN (Len(s) - 1) - 1 + 1 ELSE 0
      /\ \A j \in 1 .. (Len(s) - 1) - 1 + 1 : rest[j] = s[1 + j - 1]
  BY <1>3 DEF rest
<1>5. Len(rest) = Len(s) - 1
  <2>1. \A m \in Nat : m # 0 => (IF 1 <= m - 1 THEN (m - 1) - 1 + 1 ELSE 0) = m - 1
    OBVIOUS
  <2> QED  BY <1>1, <1>4, <2>1
<1>6. \A j \in 1 .. Len(s) - 1 : rest[j] = s[j]
  BY <1>1, <1>4
<1>7. s[Len(s)] \in S
  BY <1>1
<1> QED  BY <1>4, <1>5, <1>6, <1>7 DEF rest

\* Every call the assertions let through keeps the data structures well typed,
\* those that break the rows included.
LEMMA TypeStep ==
    ASSUME TypeOK, [Next]_vars
    PROVE  TypeOK'
<1>1. CASE NewIndex
  <2> DEFINE new == [type |-> RootType, row |-> 0, generation |-> 0]
  <2>1. new \in Record
    BY StorageAssumption DEF Record, TableType, RootType
  <2>2. rec \in Seq(Record) /\ Len(rec) \in Nat /\ Len(rec) < MaxEntities
    BY <1>1 DEF TypeOK, NewIndex
  <2>3. rec' = Append(rec, new)
    BY <1>1 DEF NewIndex
  <2> HIDE DEF new
  <2>4. rec' \in Seq(Record) /\ Len(rec') = Len(rec) + 1
    BY <2>1, <2>2, <2>3
  <2>5. Len(rec') <= MaxEntities
    BY <2>2, <2>4, StorageAssumption
  <2>6. free' \in Seq(1 .. Len(rec'))
    BY <1>1 DEF NewIndex
  <2>7. [index |-> Len(rec) + 1, generation |-> 0] \in Handle
    BY <2>2, StorageAssumption DEF Handle, Index
  <2> QED  BY <1>1, <2>4, <2>5, <2>6, <2>7 DEF TypeOK, NewIndex, Allocated
<1>2. CASE RecycledIndex
  <2> DEFINE i == free[Len(free)]
  <2>1. free \in Seq(1 .. Len(rec)) /\ free # << >>
    BY <1>2 DEF TypeOK, RecycledIndex, Allocated
  <2>2. i \in 1 .. Len(rec) /\ free' \in Seq(1 .. Len(rec))
    BY <1>2, <2>1, PopProperties DEF RecycledIndex
  <2>3. rec \in Seq(Record) /\ RootType \in TableType /\ 0 \in Nat
    BY DEF TypeOK, TableType, RootType
  <2>4. rec' = Relocate(rec, i, RootType, 0)
    BY <1>2 DEF RecycledIndex
  <2> HIDE DEF i
  <2>5. rec' \in Seq(Record) /\ Len(rec') = Len(rec)
    BY <2>2, <2>3, <2>4, RelocateProperties
  <2>6. HandleOf(i) \in Handle
    <3>1. rec[i] \in Record /\ Len(rec) \in Nat /\ Len(rec) <= MaxEntities
      BY <2>2, <2>3 DEF TypeOK
    <3> QED  BY <2>2, <3>1, StorageAssumption DEF Record, HandleOf, Handle, Index
  <2>7. live' \subseteq Handle
    BY <1>2, <2>6 DEF RecycledIndex, TypeOK, i
  <2> QED  BY <1>2, <2>2, <2>5, <2>7 DEF RecycledIndex, TypeOK, Allocated
<1>3. ASSUME NEW h \in live \cup dead, DestroyEntity(h)
      PROVE  TypeOK'
  <2>1. /\ rows' \in [TableType -> Seq(Row)]
        /\ \A u \in TableType : \A j \in DOMAIN rows'[u] : rows'[u][j].value \in [u -> Value]
        /\ rec' \in Seq(Record) /\ Len(rec') = Len(rec)
    BY <1>3, DestroyEffect
  <2>2. h \in Handle /\ h.index \in 1 .. Len(rec)
    BY <1>3, UsableProperties DEF DestroyEntity, Usable
  <2>3. free \in Seq(1 .. Len(rec)) /\ free' = Append(free, h.index)
    BY <1>3 DEF TypeOK, DestroyEntity, Allocated
  <2>4. free' \in Seq(1 .. Len(rec'))
    BY <2>1, <2>2, <2>3
  <2>5. live' \subseteq Handle /\ dead' \subseteq Handle
    BY <1>3, <2>2 DEF TypeOK, DestroyEntity
  <2> QED  BY <2>1, <2>4, <2>5 DEF TypeOK, Allocated
<1>4. ASSUME NEW h \in live \cup dead, Change(h)
      PROVE  TypeOK'
  <2>1. CASE \E c \in Component, v \in Value : Overwrite(h, c, v)
    <3>1. PICK c \in Component, v \in Value : Overwrite(h, c, v)
      BY <2>1
    <3>2. IsAlive(h)
      BY <1>4, ChangeCases
    <3>3. /\ rows' \in [TableType -> Seq(Row)]
          /\ \A u \in TableType : \A j \in DOMAIN rows'[u] : rows'[u][j].value \in [u -> Value]
      BY <3>1, <3>2, OverwriteEffect
    <3> QED  BY <3>1, <3>3 DEF TypeOK, Overwrite, Allocated
  <2>2. CASE \E to \in TableType : \E fresh :
                /\ to # TypeOf(h)
                /\ \A c \in to \ TypeOf(h) : fresh[c] \in Value
                /\ Migrate(h, to, fresh)
    <3>0. PICK to \in TableType : \E fresh :
                /\ to # TypeOf(h)
                /\ \A c \in to \ TypeOf(h) : fresh[c] \in Value
                /\ Migrate(h, to, fresh)
      BY <2>2
    <3>1. PICK fresh :
                /\ to # TypeOf(h)
                /\ \A c \in to \ TypeOf(h) : fresh[c] \in Value
                /\ Migrate(h, to, fresh)
      BY <3>0
    <3>2. IsAlive(h)
      BY <1>4, ChangeCases
    <3>3. /\ rows' \in [TableType -> Seq(Row)]
          /\ \A u \in TableType : \A j \in DOMAIN rows'[u] : rows'[u][j].value \in [u -> Value]
          /\ rec' \in Seq(Record) /\ Len(rec') = Len(rec)
      BY <3>1, <3>2, MigrateEffect DEF Migrated
    <3>4. UNCHANGED <<free, live, dead>>
      BY <3>1 DEF Migrate
    <3> QED  BY <3>3, <3>4 DEF TypeOK, Allocated
  <2> QED  BY <1>4, <2>1, <2>2, ChangeCases
<1>5. CASE UNCHANGED vars
  BY <1>5 DEF TypeOK, vars, Allocated
<1> QED  BY <1>1, <1>2, <1>3, <1>4, <1>5 DEF Next, CreateEntity

LEMMA InitType == Init => TypeOK
<1> SUFFICES ASSUME Init PROVE TypeOK
  OBVIOUS
<1>1. rec \in Seq(Record) /\ Len(rec) = 0 /\ free \in Seq(Allocated)
  BY DEF Init
<1>2. rows \in [TableType -> Seq(Row)] /\ \A t \in TableType : DOMAIN rows[t] = {}
  BY DEF Init
<1> QED  BY <1>1, <1>2, StorageAssumption DEF Init, TypeOK

\* The registry, the tables and the free stack stay well typed whatever calls
\* a client makes: in particular an index on the free stack or in a row is one
\* that was allocated.
THEOREM TypeCorrect == Spec => []TypeOK
<1>1. Init => TypeOK
  BY InitType
<1>2. TypeOK /\ [Next]_vars => TypeOK'
  BY TypeStep
<1> QED  BY <1>1, <1>2, PTL DEF Spec

-----------------------------------------------------------------------------
(* The inductive invariant *)

\* Every row of every table, table 0 included, belongs to a live entity whose
\* record points back at it.
RowsBacked ==
    \A t \in TableType : \A j \in DOMAIN rows[t] :
        LET h == rows[t][j].entity
        IN  h \in live /\ TypeOf(h) = t /\ RowOfEntity(h) = j - 1

\* Every live entity is listed where its record says, or is an entity without
\* components that table 0 does not list and whose row is 0.
LivePlaced ==
    \A h \in live :
        Listed(h) \/ (TypeOf(h) = RootType /\ RowOfEntity(h) = 0)

\* Generations only grow, so a destroyed handle is behind its index.
DeadBehind ==
    \A h \in dead :
        h.index \in Allocated /\ h.generation < rec[h.index].generation

IInv ==
    /\ TypeOK
    /\ RowsBacked
    /\ LivePlaced
    /\ IndicesAccountedFor
    /\ DeadBehind

\* The invariants that the runs check follow.
LEMMA IInvImplies ==
    ASSUME IInv
    PROVE  /\ RecordsLocateRows /\ RowsLocateRecords
           /\ RootRowsLocateRecords /\ DestroyedStayDead
<1>1. RecordsLocateRows
  BY DEF IInv, LivePlaced, RecordsLocateRows
<1>2. RowsLocateRecords
  BY DEF IInv, RowsBacked, RowsLocateRecords
<1>3. RootRowsLocateRecords
  <2>1. RootType \in TableType
    BY DEF RootType, TableType
  <2> QED  BY <2>1 DEF IInv, RowsBacked, LivePlaced, RootRowsLocateRecords
<1>4. DestroyedStayDead
  <2> SUFFICES ASSUME NEW h \in dead, IsAlive(h) PROVE FALSE
    BY DEF DestroyedStayDead
  <2>1. /\ h.generation \in Nat /\ h.generation < rec[h.index].generation
        /\ rec[h.index].generation = h.generation
    <3>1. h \in Handle
      BY DEF IInv, TypeOK
    <3> QED  BY <3>1, StorageAssumption DEF IInv, DeadBehind, IsAlive, Handle
  <2> QED  BY <2>1
<1> QED  BY <1>1, <1>2, <1>3, <1>4

\* An index names at most one live entity.
LEMMA LiveUnique ==
    ASSUME IInv, NEW g \in live, NEW h \in live, g.index = h.index
    PROVE  g = h
<1>1. g \in Handle /\ h \in Handle
  BY DEF IInv, TypeOK
<1>2. g.generation = h.generation
  BY DEF IInv, IndicesAccountedFor, IsAlive
<1> QED  BY <1>1, <1>2 DEF Handle

\* Only live handles pass the assertions.
LEMMA UsableIsLive ==
    ASSUME IInv, NEW h \in live \cup dead, IsAlive(h)
    PROVE  h \in live
<1>1. DestroyedStayDead
  BY IInvImplies
<1> QED  BY <1>1 DEF DestroyedStayDead

LEMMA LiveProperties ==
    ASSUME IInv, NEW h \in live
    PROVE  /\ IsAlive(h) /\ h \in Handle
           /\ h.index \in 1 .. Len(rec)
           /\ TypeOf(h) \in TableType /\ RowOfEntity(h) \in Nat
           /\ rows[TypeOf(h)] \in Seq(Row)
           /\ Len(rows[TypeOf(h)]) \in Nat
           /\ DOMAIN rows[TypeOf(h)] = 1 .. Len(rows[TypeOf(h)])
<1>1. TypeOK /\ h \in live \cup dead /\ IsAlive(h)
  BY DEF IInv, IndicesAccountedFor
<1>2. /\ h \in Handle /\ h.index \in 1 .. Len(rec)
      /\ TypeOf(h) \in TableType /\ RowOfEntity(h) \in Nat
  BY <1>1, UsableProperties
<1>3. rows[TypeOf(h)] \in Seq(Row)
  BY <1>1, <1>2 DEF TypeOK
<1> QED  BY <1>1, <1>2, <1>3

\* The entity in the last row of a table: what the record fix of a removal
\* looks up.
LEMMA LastRow ==
    ASSUME IInv, NEW t \in TableType, rows[t] # << >>
    PROVE  LET g == rows[t][Len(rows[t])].entity
           IN  g \in live /\ TypeOf(g) = t /\ RowOfEntity(g) = Len(rows[t]) - 1
<1>1. rows[t] \in Seq(Row)
  BY DEF IInv, TypeOK
<1>2. Len(rows[t]) \in DOMAIN rows[t]
  BY <1>1
<1> QED  BY <1>2 DEF IInv, RowsBacked

\* Rows left behind when h leaves its table: none is h's, and each belongs to
\* the entity whose row, after the record fix, is this one.
LEMMA RowsAfterRemoval ==
    ASSUME IInv, NEW h \in live,
           NEW j \in 1 .. Len(SwapRemove(rows[TypeOf(h)], RowOfEntity(h) + 1))
    PROVE  LET t == TypeOf(h)
               r == RowOfEntity(h)
               last == rows[t][Len(rows[t])].entity.index
               g == SwapRemove(rows[t], r + 1)[j].entity
           IN  /\ g \in live /\ g # h /\ TypeOf(g) = t
               /\ j - 1 = IF Moves(rows, t, r) /\ g.index = last
                          THEN r ELSE RowOfEntity(g)
<1> DEFINE t == TypeOf(h)
           r == RowOfEntity(h)
           s == rows[t]
           n == Len(s)
           last == s[n].entity.index
           g == SwapRemove(s, r + 1)[j].entity
<1>1. /\ t \in TableType /\ r \in Nat /\ s \in Seq(Row) /\ n \in Nat
      /\ DOMAIN s = 1 .. n
  BY LiveProperties
<1>2. /\ j \in 1 .. n - 1
      /\ SwapRemove(s, r + 1)[j] = IF j = r + 1 THEN s[n] ELSE s[j]
  <2>1. j \in 1 .. Len(SwapRemove(s, r + 1)) /\ s \in Seq(Row) /\ r + 1 \in Nat
    BY <1>1
  <2> HIDE DEF s, r
  <2> QED  BY <2>1, SwapRemoveProperties
<1>3. s # << >>
  BY <1>1, <1>2
<1>4. /\ s[n].entity \in live /\ TypeOf(s[n].entity) = t
      /\ RowOfEntity(s[n].entity) = n - 1
  BY <1>1, <1>3, LastRow
<1>5. CASE j = r + 1
  <2>1. g = s[n].entity /\ r # n - 1
    BY <1>1, <1>2, <1>5
  <2>2. Moves(rows, t, r)
    BY <1>3, <2>1 DEF Moves
  <2>3. g # h
    BY <1>4, <2>1
  <2> QED  BY <1>1, <1>4, <1>5, <2>1, <2>2, <2>3
<1>6. CASE j # r + 1
  <2>1. g = s[j].entity /\ j \in DOMAIN s
    BY <1>1, <1>2, <1>6
  <2>2. g \in live /\ TypeOf(g) = t /\ RowOfEntity(g) = j - 1
    BY <1>1, <2>1 DEF IInv, RowsBacked
  <2>3. g # h
    BY <1>1, <1>2, <1>6, <2>2
  <2>4. g.index # last
    <3> SUFFICES ASSUME g.index = last PROVE FALSE
      OBVIOUS
    <3>1. g = s[n].entity
      BY <1>4, <2>2, LiveUnique
    <3> QED  BY <1>1, <1>2, <1>4, <2>2, <3>1
  <2> QED  BY <2>2, <2>3, <2>4
<1> QED  BY <1>5, <1>6

\* The other entities when h leaves its table: those of other tables keep
\* their rows, those of h's table are listed at their row after the record fix
\* (or are bare, unlisted and at row 0).
LEMMA OthersAfterRemoval ==
    ASSUME IInv, NEW h \in live, NEW g \in live, g # h
    PROVE  LET t == TypeOf(h)
               r == RowOfEntity(h)
               last == rows[t][Len(rows[t])].entity.index
               left == SwapRemove(rows[t], r + 1)
               row == IF Moves(rows, t, r) /\ g.index = last
                      THEN r ELSE RowOfEntity(g)
           IN  /\ TypeOf(g) # t => row = RowOfEntity(g)
               /\ TypeOf(g) = t =>
                     \/ row < Len(left) /\ left[row + 1].entity = g
                     \/ t = RootType /\ row = 0
<1> DEFINE t == TypeOf(h)
           r == RowOfEntity(h)
           s == rows[t]
           n == Len(s)
           last == s[n].entity.index
           left == SwapRemove(s, r + 1)
           q == RowOfEntity(g)
           row == IF Moves(rows, t, r) /\ g.index = last THEN r ELSE q
<1>1. /\ t \in TableType /\ r \in Nat /\ s \in Seq(Row) /\ n \in Nat
      /\ DOMAIN s = 1 .. n
  BY LiveProperties
<1>2. q \in Nat
  BY LiveProperties
<1>3. s # << >> => /\ s[n].entity \in live /\ TypeOf(s[n].entity) = t
                   /\ RowOfEntity(s[n].entity) = n - 1
  BY <1>1, LastRow
<1>4. s # << >> /\ g.index = last => g = s[n].entity
  BY <1>3, LiveUnique
<1>5. ASSUME TypeOf(g) # t
      PROVE  row = q
  BY <1>3, <1>4, <1>5 DEF Moves
<1>6. ASSUME TypeOf(g) = t
      PROVE  \/ row < Len(left) /\ left[row + 1].entity = g
             \/ t = RootType /\ row = 0
  <2>1. \/ r < n /\ s[r + 1].entity = h
        \/ t = RootType /\ r = 0
    BY DEF IInv, LivePlaced, Listed
  <2>2. \/ q < n /\ s[q + 1].entity = g
        \/ t = RootType /\ q = 0
    BY <1>6 DEF IInv, LivePlaced, Listed
  <2>3. CASE q < n /\ s[q + 1].entity = g
    <3>1. s # << >> /\ Len(left) = n - 1
      <4>1. s # << >>
        BY <1>1, <1>2, <2>3
      <4>2. s \in Seq(Row) /\ r + 1 \in Nat
        BY <1>1
      <4> HIDE DEF s, r
      <4> QED  BY <4>1, <4>2, SwapRemoveProperties
    <3>2. \A j \in 1 .. n - 1 : left[j] = IF j = r + 1 THEN s[n] ELSE s[j]
      <4>1. s \in Seq(Row) /\ r + 1 \in Nat /\ Len(left) = n - 1 /\ n \in Nat
        BY <1>1, <3>1
      <4> HIDE DEF s, r
      <4>2. \A j \in 1 .. Len(left) : left[j] = IF j = r + 1 THEN s[n] ELSE s[j]
        BY <4>1, SwapRemoveProperties
      <4> QED  BY <4>1, <4>2
    <3>3. CASE q = n - 1
      <4>1. s[n].entity = g
        BY <1>1, <1>2, <2>3, <3>3
      <4>2. CASE r = n - 1
        <5>1. s[r + 1].entity = g
          BY <1>1, <4>1, <4>2
        <5>2. t = RootType /\ r = 0
          BY <2>1, <5>1
        <5> QED  BY <3>3, <4>2, <5>2
      <4>3. CASE r # n - 1
        <5>1. row = r
          BY <3>1, <4>1, <4>3 DEF Moves
        <5>2. r + 1 \in 1 .. n - 1
          BY <1>1, <1>2, <2>1, <2>3, <4>3
        <5> QED  BY <1>1, <3>1, <3>2, <4>1, <5>1, <5>2
      <4> QED  BY <4>2, <4>3
    <3>4. CASE q # n - 1
      <4>1. row = q
        BY <1>3, <1>4, <3>1, <3>4
      <4>2. q + 1 \in 1 .. n - 1 /\ q < n - 1
        BY <1>1, <1>2, <2>3, <3>4
      <4>3. CASE q = r
        BY <2>1, <2>3, <4>1, <4>3
      <4>4. CASE q # r
        <5>1. left[q + 1] = s[q + 1]
          BY <1>1, <1>2, <3>2, <4>2, <4>4
        <5> QED  BY <2>3, <3>1, <4>1, <4>2, <5>1
      <4> QED  BY <4>3, <4>4
    <3> QED  BY <3>3, <3>4
  <2>4. CASE ~(q < n /\ s[q + 1].entity = g)
    <3>1. t = RootType /\ q = 0
      BY <2>2, <2>4
    <3>2. row = q
      <4> SUFFICES ASSUME Moves(rows, t, r), g.index = last PROVE FALSE
        OBVIOUS
      <4>1. s # << >> /\ g = s[n].entity
        BY <1>4 DEF Moves
      <4>2. n - 1 = q /\ n \in 1 .. n
        BY <1>1, <1>3, <4>1
      <4> QED  BY <1>1, <1>2, <2>4, <4>1, <4>2
    <3> QED  BY <3>1, <3>2
  <2> QED  BY <2>3, <2>4
<1> QED  BY <1>5, <1>6

-----------------------------------------------------------------------------
(* Each operation preserves the invariant *)

\* A live handle is the one its index currently stands for.
LEMMA HandleOfLive ==
    ASSUME IInv, NEW g \in live
    PROVE  HandleOf(g.index) = g
<1>1. g \in Handle /\ g.generation = rec[g.index].generation
  BY DEF IInv, TypeOK, IndicesAccountedFor, IsAlive
<1> QED  BY <1>1 DEF HandleOf, Handle

\* Operations that keep every generation, the free stack and the handles keep
\* the accounting of indices.
LEMMA SameAccounting ==
    ASSUME IInv, rec' \in Seq(Record), Len(rec') = Len(rec),
           \A i \in 1 .. Len(rec) : rec'[i].generation = rec[i].generation,
           UNCHANGED <<free, live, dead>>
    PROVE  IndicesAccountedFor' /\ DeadBehind'
<1>1. \A i \in 1 .. Len(rec) : HandleOf(i)' = HandleOf(i)
  BY DEF HandleOf
<1>2. \A h \in live : h.index \in 1 .. Len(rec)
  BY LiveProperties
<1>3. IndicesAccountedFor'
  BY <1>1, <1>2 DEF IInv, IndicesAccountedFor, IsAlive, Allocated
<1>4. DeadBehind'
  BY DEF IInv, DeadBehind, Allocated
<1> QED  BY <1>3, <1>4

LEMMA NewIndexStep ==
    ASSUME IInv, TypeOK', NewIndex
    PROVE  IInv'
<1>1. rec \in Seq(Record) /\ Len(rec) \in Nat
  BY DEF IInv, TypeOK
<1> PICK n : n = Len(rec) + 1
  OBVIOUS
<1> DEFINE new == [type |-> RootType, row |-> 0, generation |-> 0]
           h == [index |-> n, generation |-> 0]
<1>2. /\ rec' = Append(rec, new) /\ live' = live \cup {h}
      /\ UNCHANGED <<free, rows, dead>> /\ free = << >>
  BY DEF NewIndex
<1>3. /\ Len(rec') = Len(rec) + 1
      /\ \A i \in 1 .. Len(rec) : rec'[i] = rec[i]
      /\ rec'[n] = new
  BY <1>1, <1>2
<1>4. \A g \in live : g.index \in 1 .. Len(rec) /\ rec'[g.index] = rec[g.index]
  BY <1>3, LiveProperties
<1>5. \A g \in live : TypeOf(g)' = TypeOf(g) /\ RowOfEntity(g)' = RowOfEntity(g)
  BY <1>4 DEF TypeOf, RowOfEntity
<1>6. TypeOf(h)' = RootType /\ RowOfEntity(h)' = 0
  BY <1>3 DEF TypeOf, RowOfEntity
<1>7. RowsBacked'
  BY <1>2, <1>5 DEF IInv, RowsBacked
<1>8. LivePlaced'
  BY <1>2, <1>5, <1>6 DEF IInv, LivePlaced, Listed
<1>9. /\ \A i \in 1 .. Len(rec) : HandleOf(i)' = HandleOf(i)
      /\ HandleOf(n)' = h
  BY <1>3 DEF HandleOf
<1>10. DOMAIN free = {} /\ DOMAIN free' = {}
  BY <1>2
<1>11. \A i \in 1 .. Len(rec') : HandleOf(i)' \in live'
  <2>1. \A i \in 1 .. Len(rec) : HandleOf(i) \in live
    BY <1>10 DEF IInv, IndicesAccountedFor, Allocated
  <2> QED  BY <1>1, <1>2, <1>3, <1>9, <2>1
<1>12. \A g \in live' : IsAlive(g)'
  BY <1>1, <1>2, <1>3, <1>4, LiveProperties DEF IsAlive, Allocated
<1>13. IndicesAccountedFor'
  BY <1>10, <1>11, <1>12 DEF IndicesAccountedFor, Allocated
<1>14. DeadBehind'
  BY <1>1, <1>2, <1>3 DEF IInv, DeadBehind, Allocated
<1> QED  BY <1>7, <1>8, <1>13, <1>14 DEF IInv

LEMMA RecycledIndexStep ==
    ASSUME IInv, TypeOK', RecycledIndex
    PROVE  IInv'
<1> PICK i, h : i = free[Len(free)] /\ h = HandleOf(i)
  OBVIOUS
<1>1. /\ rec \in Seq(Record) /\ free \in Seq(1 .. Len(rec)) /\ free # << >>
      /\ Len(free) \in Nat /\ DOMAIN free = 1 .. Len(free)
  BY DEF IInv, TypeOK, RecycledIndex, Allocated
<1>2. /\ i \in 1 .. Len(rec) /\ Len(free) \in DOMAIN free
      /\ Len(free') = Len(free) - 1 /\ free' \in Seq(1 .. Len(rec))
      /\ DOMAIN free' = 1 .. Len(free) - 1
      /\ \A j \in DOMAIN free' : free'[j] = free[j] /\ j \in DOMAIN free /\ j # Len(free)
  <2>1. /\ i \in 1 .. Len(rec) /\ free' \in Seq(1 .. Len(rec))
        /\ Len(free') = Len(free) - 1
        /\ \A j \in 1 .. Len(free) - 1 : free'[j] = free[j]
    BY <1>1, PopProperties DEF RecycledIndex
  <2>2. DOMAIN free' = 1 .. Len(free) - 1
    BY <2>1
  <2> QED  BY <1>1, <2>1, <2>2
<1>3. /\ rec' = Relocate(rec, i, RootType, 0) /\ live' = live \cup {h}
      /\ UNCHANGED <<rows, dead>>
  BY DEF RecycledIndex
<1>4. /\ Len(rec') = Len(rec)
      /\ rec'[i].type = RootType /\ rec'[i].row = 0
      /\ \A k \in 1 .. Len(rec) : rec'[k].generation = rec[k].generation
      /\ \A k \in 1 .. Len(rec) : k # i => rec'[k] = rec[k]
  <2>1. RootType \in TableType /\ 0 \in Nat
    BY DEF RootType, TableType
  <2>2. LET moved == Relocate(rec, i, RootType, 0)
        IN  /\ moved \in Seq(Record) /\ Len(moved) = Len(rec)
            /\ moved[i].type = RootType /\ moved[i].row = 0
            /\ moved[i].generation = rec[i].generation
            /\ \A k \in 1 .. Len(rec) : k # i => moved[k] = rec[k]
    <3>1. rec \in Seq(Record) /\ i \in 1 .. Len(rec)
      BY <1>1, <1>2
    <3> QED  BY <2>1, <3>1, RelocateProperties
  <2> QED  BY <1>3, <2>2
<1>5. h \notin live
  BY <1>2 DEF IInv, IndicesAccountedFor, Allocated
<1>6. \A g \in live : g.index \in 1 .. Len(rec) /\ g.index # i
  BY <1>5, LiveProperties, HandleOfLive
<1>7. \A g \in live : TypeOf(g)' = TypeOf(g) /\ RowOfEntity(g)' = RowOfEntity(g)
  BY <1>4, <1>6 DEF TypeOf, RowOfEntity
<1>8. h.index = i /\ TypeOf(h)' = RootType /\ RowOfEntity(h)' = 0
  BY <1>4 DEF TypeOf, RowOfEntity, HandleOf
<1>9. RowsBacked'
  BY <1>3, <1>7 DEF IInv, RowsBacked
<1>10. LivePlaced'
  BY <1>3, <1>7, <1>8 DEF IInv, LivePlaced, Listed
<1>11. \A k \in 1 .. Len(rec) : HandleOf(k)' = HandleOf(k)
  BY <1>4 DEF HandleOf
<1>12. \A j, k \in DOMAIN free' : free'[j] = free'[k] => j = k
  BY <1>2 DEF IInv, IndicesAccountedFor
<1>13. ASSUME NEW k \in 1 .. Len(rec)
       PROVE  (\E j \in DOMAIN free' : free'[j] = k) <=> HandleOf(k)' \notin live'
  <2>1. (\E j \in DOMAIN free : free[j] = k) <=> HandleOf(k) \notin live
    BY DEF IInv, IndicesAccountedFor, Allocated
  <2>2. CASE k = i
    <3>1. \A j \in DOMAIN free' : free'[j] # i
      BY <1>2 DEF IInv, IndicesAccountedFor
    <3> QED  BY <1>2, <1>3, <1>11, <2>2, <3>1
  <2>3. CASE k # i
    <3>1. (\E j \in DOMAIN free' : free'[j] = k) <=> (\E j \in DOMAIN free : free[j] = k)
      <4>1. \A j \in DOMAIN free : free[j] = k => j \in DOMAIN free'
        BY <1>1, <1>2, <2>3
      <4> QED  BY <1>2, <4>1
    <3>2. HandleOf(k) # h
      BY <2>3 DEF HandleOf
    <3> QED  BY <1>3, <1>11, <2>1, <3>1, <3>2
  <2> QED  BY <2>2, <2>3
<1>14. \A g \in live' : IsAlive(g)'
  BY <1>2, <1>3, <1>4, <1>6, <1>8 DEF IInv, IndicesAccountedFor, IsAlive, Allocated, HandleOf
<1>15. IndicesAccountedFor'
  BY <1>4, <1>12, <1>13, <1>14 DEF IndicesAccountedFor, Allocated
<1>16. DeadBehind'
  BY <1>3, <1>4 DEF IInv, DeadBehind, Allocated
<1> QED  BY <1>9, <1>10, <1>15, <1>16 DEF IInv

\* A migration of a live entity to a table of another type.
LEMMA MigrateStep ==
    ASSUME IInv, TypeOK', NEW h \in live,
           NEW to \in TableType, to # TypeOf(h), NEW fresh,
           \A c \in to \ TypeOf(h) : fresh[c] \in Value,
           Migrate(h, to, fresh)
    PROVE  IInv'
<1> PICK from, r, last :
       /\ from = TypeOf(h) /\ r = RowOfEntity(h)
       /\ last = rows[from][Len(rows[from])].entity.index
  OBVIOUS
<1> PICK left, n : left = SwapRemove(rows[from], r + 1) /\ n = Len(rows[to])
  OBVIOUS
<1>1. /\ from \in TableType /\ r \in Nat /\ rows[from] \in Seq(Row)
      /\ h.index \in 1 .. Len(rec) /\ from # to
      /\ left \in Seq(Row) /\ Len(left) \in Nat /\ DOMAIN left = 1 .. Len(left)
  BY LiveProperties, SwapRemoveProperties
<1>2. /\ \E val : rows'[to] = Append(rows[to], [entity |-> h, value |-> val])
      /\ rows'[from] = left
      /\ \A u \in TableType \ {from, to} : rows'[u] = rows[u]
      /\ rec' \in Seq(Record) /\ Len(rec') = Len(rec)
      /\ rec'[h.index].type = to /\ rec'[h.index].row = n
      /\ \A i \in 1 .. Len(rec) :
            /\ rec'[i].generation = rec[i].generation
            /\ i # h.index =>
                 /\ rec'[i].type = rec[i].type
                 /\ rec'[i].row = IF Moves(rows, from, r) /\ i = last
                                  THEN r ELSE rec[i].row
  <2>1. Migrated(h, from, r, to)
    BY LiveProperties, MigrateEffect DEF IInv
  <2> QED  BY <2>1 DEF Migrated
<1>3. UNCHANGED <<free, live, dead>>
  BY DEF Migrate
<1>4. /\ rows[to] \in Seq(Row) /\ n \in Nat
      /\ DOMAIN rows'[to] = 1 .. n + 1
      /\ rows'[to][n + 1].entity = h
      /\ \A j \in 1 .. n : rows'[to][j] = rows[to][j] /\ j \in DOMAIN rows[to]
      /\ Len(rows'[to]) = n + 1
  <2>1. rows[to] \in Seq(Row)
    BY DEF IInv, TypeOK
  <2>2. PICK val : rows'[to] = Append(rows[to], [entity |-> h, value |-> val])
    BY <1>2
  <2> QED  BY <2>1, <2>2
<1>5. TypeOf(h)' = to /\ RowOfEntity(h)' = n
  BY <1>2 DEF TypeOf, RowOfEntity
<1>6. ASSUME NEW g \in live, g # h
      PROVE  /\ TypeOf(g)' = TypeOf(g)
             /\ RowOfEntity(g)' = IF Moves(rows, from, r) /\ g.index = last
                                  THEN r ELSE RowOfEntity(g)
  BY <1>2, <1>6, LiveProperties, LiveUnique DEF TypeOf, RowOfEntity
<1>7. ASSUME NEW g \in live, g # h
      PROVE  /\ TypeOf(g) # from => RowOfEntity(g)' = RowOfEntity(g)
             /\ TypeOf(g) = from =>
                   \/ RowOfEntity(g)' < Len(left) /\ left[RowOfEntity(g)' + 1].entity = g
                   \/ from = RootType /\ RowOfEntity(g)' = 0
  BY <1>6, <1>7, OthersAfterRemoval
<1>8. ASSUME NEW t \in TableType, NEW j \in DOMAIN rows'[t],
             NEW g, g = rows'[t][j].entity
      PROVE  g \in live /\ TypeOf(g)' = t /\ RowOfEntity(g)' = j - 1
  <2>1. CASE t = from
    <3>1. j \in 1 .. Len(left) /\ g = left[j].entity
      BY <1>1, <1>2, <1>8, <2>1
    <3>2. /\ g \in live /\ g # h /\ TypeOf(g) = from
          /\ j - 1 = IF Moves(rows, from, r) /\ g.index = last THEN r ELSE RowOfEntity(g)
      BY <3>1, RowsAfterRemoval
    <3> QED  BY <1>2, <1>6, <2>1, <3>2
  <2>2. CASE t = to /\ j = n + 1
    BY <1>4, <1>5, <1>8, <2>2
  <2>3. CASE t # from /\ ~(t = to /\ j = n + 1)
    <3>1. j \in DOMAIN rows[t] /\ g = rows[t][j].entity
      <4>1. CASE t = to
        <5>1. j \in 1 .. n
          BY <1>4, <2>3, <4>1
        <5> QED  BY <1>4, <1>8, <4>1, <5>1
      <4>2. CASE t # to
        BY <1>2, <1>8, <2>3, <4>2
      <4> QED  BY <4>1, <4>2
    <3>2. g \in live /\ TypeOf(g) = t /\ RowOfEntity(g) = j - 1
      BY <3>1 DEF IInv, RowsBacked
    <3>3. g # h
      BY <2>3, <3>2
    <3> QED  BY <1>6, <1>7, <2>3, <3>2, <3>3
  <2> QED  BY <1>1, <2>1, <2>2, <2>3
<1>9. RowsBacked'
  BY <1>3, <1>8 DEF RowsBacked
<1>10. ASSUME NEW g \in live
       PROVE  Listed(g)' \/ (TypeOf(g)' = RootType /\ RowOfEntity(g)' = 0)
  <2>1. CASE g = h
    BY <1>4, <1>5, <2>1 DEF Listed
  <2>2. CASE g # h /\ TypeOf(g) = from
    BY <1>2, <1>6, <1>7, <2>2 DEF Listed
  <2>3. CASE g # h /\ TypeOf(g) # from
    <3>1. /\ TypeOf(g)' = TypeOf(g) /\ RowOfEntity(g)' = RowOfEntity(g)
          /\ TypeOf(g) \in TableType /\ RowOfEntity(g) \in Nat
      BY <1>6, <1>7, <2>3, LiveProperties
    <3>2. CASE Listed(g)
      <4>1. CASE TypeOf(g) = to
        <5>1. RowOfEntity(g) < n /\ rows[to][RowOfEntity(g) + 1].entity = g
          BY <3>2, <4>1 DEF Listed
        <5>2. RowOfEntity(g) + 1 \in 1 .. n /\ RowOfEntity(g) < n + 1
          BY <1>4, <3>1, <5>1
        <5> QED  BY <1>4, <3>1, <4>1, <5>1, <5>2 DEF Listed
      <4>2. CASE TypeOf(g) # to
        BY <1>2, <2>3, <3>1, <3>2, <4>2 DEF Listed
      <4> QED  BY <4>1, <4>2
    <3>3. CASE ~Listed(g)
      BY <3>1, <3>3 DEF IInv, LivePlaced
    <3> QED  BY <3>2, <3>3
  <2> QED  BY <2>1, <2>2, <2>3
<1>11. LivePlaced'
  BY <1>3, <1>10 DEF LivePlaced
<1>12. IndicesAccountedFor' /\ DeadBehind'
  BY <1>2, <1>3, SameAccounting
<1> QED  BY <1>9, <1>11, <1>12 DEF IInv

\* Writing a component moves nothing.
LEMMA OverwriteStep ==
    ASSUME IInv, TypeOK', NEW h \in live,
           NEW c \in Component, NEW v \in Value, Overwrite(h, c, v)
    PROVE  IInv'
<1>1. UNCHANGED <<rec, free, live, dead>>
  BY DEF Overwrite
<1>2. \A u \in TableType :
         /\ DOMAIN rows'[u] = DOMAIN rows[u]
         /\ \A j \in DOMAIN rows[u] : rows'[u][j].entity = rows[u][j].entity
  BY LiveProperties, OverwriteEffect DEF IInv
<1>3. \A u \in TableType :
         /\ Len(rows'[u]) = Len(rows[u]) /\ Len(rows[u]) \in Nat
         /\ DOMAIN rows[u] = 1 .. Len(rows[u])
  <2> SUFFICES ASSUME NEW u \in TableType
               PROVE  /\ Len(rows'[u]) = Len(rows[u]) /\ Len(rows[u]) \in Nat
                      /\ DOMAIN rows[u] = 1 .. Len(rows[u])
    OBVIOUS
  <2>1. rows[u] \in Seq(Row) /\ rows'[u] \in Seq(Row)
    BY DEF IInv, TypeOK
  <2>2. DOMAIN rows'[u] = DOMAIN rows[u]
    BY <1>2
  <2> QED  BY <2>1, <2>2
<1>4. \A g \in live : /\ TypeOf(g)' = TypeOf(g) /\ RowOfEntity(g)' = RowOfEntity(g)
                     /\ TypeOf(g) \in TableType /\ RowOfEntity(g) \in Nat
  BY <1>1, LiveProperties DEF TypeOf, RowOfEntity
<1>5. RowsBacked'
  BY <1>1, <1>2, <1>4 DEF IInv, RowsBacked
<1>6. ASSUME NEW g \in live, Listed(g)
      PROVE  Listed(g)'
  <2>1. RowOfEntity(g) + 1 \in DOMAIN rows[TypeOf(g)]
    BY <1>3, <1>4, <1>6 DEF Listed
  <2> QED  BY <1>2, <1>3, <1>4, <1>6, <2>1 DEF Listed
<1>7. LivePlaced'
  BY <1>1, <1>4, <1>6 DEF IInv, LivePlaced
<1>8. IndicesAccountedFor' /\ DeadBehind'
  BY <1>1, SameAccounting DEF IInv, TypeOK
<1> QED  BY <1>5, <1>7, <1>8 DEF IInv

\* Destroying an entity that table 0 does not list, before its generation wraps.
LEMMA DestroyStep ==
    ASSUME IInv, TypeOK', NEW h \in live, ContractDestroy(h)
    PROVE  IInv'
<1> PICK t, r, last :
       /\ t = TypeOf(h) /\ r = RowOfEntity(h)
       /\ last = rows[t][Len(rows[t])].entity.index
  OBVIOUS
<1> PICK left : left = SwapRemove(rows[t], r + 1)
  OBVIOUS
<1>1. /\ t \in TableType /\ r \in Nat /\ rows[t] \in Seq(Row)
      /\ h.index \in 1 .. Len(rec)
      /\ left \in Seq(Row) /\ Len(left) \in Nat /\ DOMAIN left = 1 .. Len(left)
  BY LiveProperties, SwapRemoveProperties
<1>2. /\ DestroyEntity(h) /\ h.generation < Generations - 1
      /\ ~(t = RootType /\ Listed(h))
  BY DEF ContractDestroy
<1>3. /\ rows'[t] = IF t = RootType THEN rows[t] ELSE left
      /\ \A u \in TableType \ {t} : rows'[u] = rows[u]
      /\ rec' \in Seq(Record) /\ Len(rec') = Len(rec)
      /\ rec'[h.index].generation = (rec[h.index].generation + 1) % Generations
      /\ \A i \in 1 .. Len(rec) : i # h.index =>
            /\ rec'[i].generation = rec[i].generation
            /\ rec'[i].type = rec[i].type
            /\ rec'[i].row = IF t # RootType /\ Moves(rows, t, r) /\ i = last
                             THEN r ELSE rec[i].row
  BY <1>2, DestroyEffect DEF IInv
<1>4. /\ free' = Append(free, h.index) /\ live' = live \ {h} /\ dead' = dead \cup {h}
  BY <1>2 DEF DestroyEntity
<1>5. rec[h.index].generation = h.generation /\ rec'[h.index].generation = h.generation + 1
  <2>1. rec[h.index].generation = h.generation /\ h.generation \in 0 .. Generations - 1
    BY LiveProperties DEF IsAlive, Handle
  <2> QED  BY <1>2, <1>3, <2>1, NextGeneration
<1>6. ASSUME NEW g \in live, g # h
      PROVE  /\ g.index \in 1 .. Len(rec) /\ g.index # h.index
             /\ TypeOf(g)' = TypeOf(g)
             /\ RowOfEntity(g)' = IF t # RootType /\ Moves(rows, t, r) /\ g.index = last
                                  THEN r ELSE RowOfEntity(g)
  BY <1>3, <1>6, LiveProperties, LiveUnique DEF TypeOf, RowOfEntity
<1>7. ASSUME NEW g \in live, g # h
      PROVE  /\ TypeOf(g) # t \/ t = RootType => RowOfEntity(g)' = RowOfEntity(g)
             /\ TypeOf(g) = t /\ t # RootType =>
                   RowOfEntity(g)' < Len(left) /\ left[RowOfEntity(g)' + 1].entity = g
  BY <1>6, <1>7, OthersAfterRemoval
<1>8. ASSUME NEW u \in TableType, NEW j \in DOMAIN rows'[u],
             NEW g, g = rows'[u][j].entity
      PROVE  g \in live' /\ TypeOf(g)' = u /\ RowOfEntity(g)' = j - 1
  <2>1. CASE u = t /\ t # RootType
    <3>1. j \in 1 .. Len(left) /\ g = left[j].entity
      BY <1>1, <1>3, <1>8, <2>1
    <3>2. /\ g \in live /\ g # h /\ TypeOf(g) = t
          /\ j - 1 = IF Moves(rows, t, r) /\ g.index = last THEN r ELSE RowOfEntity(g)
      BY <3>1, RowsAfterRemoval
    <3> QED  BY <1>4, <1>6, <2>1, <3>2
  <2>2. CASE ~(u = t /\ t # RootType)
    <3>1. rows'[u] = rows[u]
      BY <1>3, <2>2
    <3>2. g \in live /\ TypeOf(g) = u /\ RowOfEntity(g) = j - 1 /\ j \in DOMAIN rows[u]
      BY <1>8, <3>1 DEF IInv, RowsBacked
    <3>3. g # h
      <4> SUFFICES ASSUME g = h PROVE FALSE
        OBVIOUS
      <4>1. u = t /\ t = RootType
        BY <2>2, <3>2
      <4>2. rows[t] \in Seq(Row) /\ j \in 1 .. Len(rows[t]) /\ r = j - 1
        BY <1>1, <3>2, <4>1
      <4>3. Listed(h)
        BY <1>8, <3>1, <4>1, <4>2 DEF Listed
      <4> QED  BY <1>2, <4>1, <4>3
    <3> QED  BY <1>4, <1>6, <1>7, <2>2, <3>2, <3>3
  <2> QED  BY <2>1, <2>2
<1>9. RowsBacked'
  BY <1>8 DEF RowsBacked
<1>10. ASSUME NEW g \in live, g # h
       PROVE  Listed(g)' \/ (TypeOf(g)' = RootType /\ RowOfEntity(g)' = 0)
  <2>1. CASE TypeOf(g) = t /\ t # RootType
    BY <1>3, <1>6, <1>7, <1>10, <2>1 DEF Listed
  <2>2. CASE ~(TypeOf(g) = t /\ t # RootType)
    <3>1. /\ TypeOf(g)' = TypeOf(g) /\ RowOfEntity(g)' = RowOfEntity(g)
          /\ TypeOf(g) \in TableType
      BY <1>6, <1>7, <1>10, <2>2, LiveProperties
    <3>2. rows'[TypeOf(g)] = rows[TypeOf(g)]
      BY <1>3, <2>2, <3>1
    <3> QED  BY <3>1, <3>2 DEF IInv, LivePlaced, Listed
  <2> QED  BY <2>1, <2>2
<1>11. LivePlaced'
  BY <1>4, <1>10 DEF LivePlaced
<1>12. DeadBehind'
  <2>1. ASSUME NEW g \in dead
        PROVE  g.index \in 1 .. Len(rec) /\ g.generation < rec'[g.index].generation
    <3>1. /\ g.index \in 1 .. Len(rec) /\ g.generation < rec[g.index].generation
          /\ g.generation \in Nat
      BY StorageAssumption DEF IInv, TypeOK, DeadBehind, Allocated, Handle
    <3>2. h.generation \in Nat
      BY StorageAssumption, LiveProperties DEF Handle
    <3> QED  BY <1>3, <1>5, <3>1, <3>2
  <2>2. h.generation < rec'[h.index].generation
    <3>1. h.generation \in Nat
      BY StorageAssumption, LiveProperties DEF Handle
    <3> QED  BY <1>5, <3>1
  <2> QED  BY <1>1, <1>3, <1>4, <2>1, <2>2 DEF DeadBehind, Allocated
<1>13. IndicesAccountedFor'
  <2>1. /\ free \in Seq(1 .. Len(rec)) /\ DOMAIN free = 1 .. Len(free)
        /\ Len(free) \in Nat
    BY DEF IInv, TypeOK, Allocated
  <2> PICK m : m = Len(free) + 1
    OBVIOUS
  <2>2. /\ DOMAIN free' = 1 .. m /\ free'[m] = h.index /\ m \notin DOMAIN free
        /\ \A j \in 1 .. m : j # m => j \in DOMAIN free /\ free'[j] = free[j]
        /\ \A j \in DOMAIN free : j \in DOMAIN free' /\ j # m
        /\ m \in DOMAIN free'
    BY <1>1, <1>4, <2>1
  <2>3. \A j \in DOMAIN free : free[j] # h.index
    <3>1. HandleOf(h.index) \in live
      BY HandleOfLive
    <3> QED  BY <1>1, <3>1 DEF IInv, IndicesAccountedFor, Allocated
  <2>4. \A j, k \in DOMAIN free' : free'[j] = free'[k] => j = k
    BY <2>2, <2>3 DEF IInv, IndicesAccountedFor
  <2>5. ASSUME NEW i \in 1 .. Len(rec)
        PROVE  (\E j \in DOMAIN free' : free'[j] = i) <=> HandleOf(i)' \notin live'
    <3>1. CASE i = h.index
      <4>1. \A g \in live' : g.index # i
        BY <1>4, <1>6, <3>1
      <4>2. HandleOf(i)'.index = i
        BY DEF HandleOf
      <4> QED  BY <2>2, <3>1, <4>1, <4>2
    <3>2. CASE i # h.index
      <4>1. HandleOf(i)' = HandleOf(i) /\ HandleOf(i) # h
        BY <1>3, <3>2 DEF HandleOf
      <4>2. (\E j \in DOMAIN free' : free'[j] = i) <=> (\E j \in DOMAIN free : free[j] = i)
        BY <2>2, <3>2
      <4> QED  BY <1>4, <4>1, <4>2 DEF IInv, IndicesAccountedFor, Allocated
    <3> QED  BY <3>1, <3>2
  <2>6. \A g \in live' : IsAlive(g)'
    BY <1>3, <1>4, <1>6, LiveProperties DEF IsAlive, Allocated
  <2> QED  BY <1>3, <2>4, <2>5, <2>6 DEF IndicesAccountedFor, Allocated
<1> QED  BY <1>9, <1>11, <1>12, <1>13 DEF IInv

-----------------------------------------------------------------------------

LEMMA InitInvariant == Init => IInv
<1> SUFFICES ASSUME Init PROVE IInv
  OBVIOUS
<1>1. TypeOK
  BY InitType
<1>2. /\ \A t \in TableType : DOMAIN rows[t] = {}
      /\ live = {} /\ dead = {} /\ DOMAIN free = {} /\ 1 .. Len(rec) = {}
  BY DEF Init
<1> QED  BY <1>1, <1>2 DEF IInv, RowsBacked, LivePlaced, IndicesAccountedFor,
                           DeadBehind, Allocated

LEMMA InvariantStep ==
    ASSUME IInv, [ContractNext]_vars
    PROVE  IInv'
<1>1. TypeOK'
  BY TypeStep DEF IInv, ContractNext, Next, ContractDestroy
<1>2. CASE NewIndex
  BY <1>1, <1>2, NewIndexStep
<1>3. CASE RecycledIndex
  BY <1>1, <1>3, RecycledIndexStep
<1>4. ASSUME NEW h \in live \cup dead, ContractDestroy(h)
      PROVE  IInv'
  <2>1. h \in live
    BY <1>4, UsableIsLive DEF ContractDestroy, DestroyEntity, Usable
  <2> QED  BY <1>1, <1>4, <2>1, DestroyStep
<1>5. ASSUME NEW h \in live \cup dead, Change(h)
      PROVE  IInv'
  <2>1. IsAlive(h)
    BY <1>5, ChangeCases DEF IInv
  <2>2. h \in live
    BY <2>1, UsableIsLive
  <2>3. CASE \E c \in Component, v \in Value : Overwrite(h, c, v)
    BY <1>1, <2>2, <2>3, OverwriteStep
  <2>4. CASE \E to \in TableType : \E fresh :
                /\ to # TypeOf(h)
                /\ \A c \in to \ TypeOf(h) : fresh[c] \in Value
                /\ Migrate(h, to, fresh)
    BY <1>1, <2>2, <2>4, MigrateStep
  <2> QED  BY <1>5, <2>3, <2>4, ChangeCases DEF IInv
<1>6. CASE UNCHANGED vars
  <2>1. UNCHANGED <<rec, free, rows, live, dead>>
    BY <1>6 DEF vars
  <2> QED  BY <1>1, <2>1 DEF IInv, RowsBacked, LivePlaced, Listed, IndicesAccountedFor,
                         DeadBehind, TypeOf, RowOfEntity, HandleOf, IsAlive, Allocated
<1> QED  BY <1>2, <1>3, <1>4, <1>5, <1>6 DEF ContractNext, CreateEntity

LEMMA Invariance == ContractSpec => []IInv
<1>1. Init => IInv
  BY InitInvariant
<1>2. IInv /\ [ContractNext]_vars => IInv'
  BY InvariantStep
<1> QED  BY <1>1, <1>2, PTL DEF ContractSpec

\* Under the discipline of ContractSpec, records and rows always agree: every
\* entity with components is listed where its record says, and every row of a
\* table belongs to one live entity whose record says so.
THEOREM RecordsAndRowsAgree == ContractSpec => []RecordsAgreeWithRows
<1>1. IInv => RecordsAgreeWithRows
  BY IInvImplies DEF RecordsAgreeWithRows
<1> QED  BY <1>1, Invariance, PTL

\* Under the same discipline every index is on the free stack once or held by
\* one live handle.
THEOREM IndicesNeverShared == ContractSpec => []IndicesAccountedFor
<1>1. IInv => IndicesAccountedFor
  BY DEF IInv
<1> QED  BY <1>1, Invariance, PTL

\* Under the same discipline no handle comes back to life.
THEOREM NoResurrection == ContractSpec => []DestroyedStayDead
<1>1. IInv => DestroyedStayDead
  BY IInvImplies
<1> QED  BY <1>1, Invariance, PTL

-----------------------------------------------------------------------------
(* Storage implements EntityStore: the values of an entity are those of the *)
(* row its record locates, and no operation disturbs those of another.      *)

\* An entity with components has, in its row, one value for each of them.
OwnValues ==
    \A g \in live : TypeOf(g) # RootType =>
        /\ RowOfEntity(g) + 1 \in DOMAIN rows[TypeOf(g)]
        /\ rows[TypeOf(g)][RowOfEntity(g) + 1].entity = g
        /\ Contents(g) \in [TypeOf(g) -> Value]

LEMMA ContentsType == IInv => OwnValues
<1> SUFFICES ASSUME IInv, NEW g \in live, TypeOf(g) # RootType
             PROVE  /\ RowOfEntity(g) + 1 \in DOMAIN rows[TypeOf(g)]
                    /\ rows[TypeOf(g)][RowOfEntity(g) + 1].entity = g
                    /\ Contents(g) \in [TypeOf(g) -> Value]
  BY DEF OwnValues
<1>1. /\ TypeOf(g) \in TableType /\ RowOfEntity(g) \in Nat
      /\ Len(rows[TypeOf(g)]) \in Nat
      /\ DOMAIN rows[TypeOf(g)] = 1 .. Len(rows[TypeOf(g)])
  BY LiveProperties
<1>2. /\ RowOfEntity(g) < Len(rows[TypeOf(g)])
      /\ rows[TypeOf(g)][RowOfEntity(g) + 1].entity = g
  BY DEF IInv, LivePlaced, Listed
<1>3. RowOfEntity(g) + 1 \in DOMAIN rows[TypeOf(g)]
  BY <1>1, <1>2
<1>4. rows[TypeOf(g)][RowOfEntity(g) + 1].value \in [TypeOf(g) -> Value]
  BY <1>1, <1>3 DEF IInv, TypeOK
<1> QED  BY <1>2, <1>3, <1>4 DEF Contents

\* What the abstract store holds for one entity.
LEMMA StoreProperties ==
    ASSUME IInv, NEW g \in live
    PROVE  /\ DOMAIN storeBar = live
           /\ storeBar[g] \in [TypeOf(g) -> Value]
           /\ storeBar[g] = IF TypeOf(g) = RootType THEN << >> ELSE Contents(g)
<1>1. << >> \in [{} -> Value]
  OBVIOUS
<1> QED  BY <1>1, ContentsType DEF OwnValues, storeBar, RootType

\* An operation that keeps the type of g, and lists g only in a row that was
\* there before, keeps its values: wherever that row has moved to, it is the one
\* that the record of g located.
LEMMA ValuesKept ==
    ASSUME IInv, IInv', NEW g \in live, g \in live', TypeOf(g)' = TypeOf(g),
           \A j \in DOMAIN rows'[TypeOf(g)] :
               rows'[TypeOf(g)][j].entity = g =>
                   \E k \in DOMAIN rows[TypeOf(g)] :
                       rows'[TypeOf(g)][j] = rows[TypeOf(g)][k]
    PROVE  storeBar'[g] = storeBar[g]
<1>0. OwnValues'
  BY ContentsType, PTL
<1>1. CASE TypeOf(g) = RootType
  BY <1>1 DEF storeBar
<1>2. CASE TypeOf(g) # RootType
  <2> PICK t, j : t = TypeOf(g) /\ j = RowOfEntity(g)' + 1
    OBVIOUS
  <2>1. t \in TableType
    BY LiveProperties
  <2>2. j \in DOMAIN rows'[t] /\ rows'[t][j].entity = g /\ Contents(g)' = rows'[t][j].value
    BY <1>0, <1>2 DEF OwnValues, Contents
  <2>3. PICK k \in DOMAIN rows[t] : rows'[t][j] = rows[t][k]
    BY <2>2
  <2>4. RowOfEntity(g) = k - 1
    BY <2>1, <2>2, <2>3 DEF IInv, RowsBacked
  <2>5. rows[t] \in Seq(Row)
    BY <2>1 DEF IInv, TypeOK
  <2>6. RowOfEntity(g) + 1 = k
    BY <2>4, <2>5
  <2>7. Contents(g)' = Contents(g)
    BY <2>2, <2>3, <2>6 DEF Contents
  <2> QED  BY <1>2, <2>7 DEF storeBar
<1> QED  BY <1>1, <1>2

\* A migration gives the entity the columns of its new type: those it had with
\* their values, the others with the given ones.  It changes no other entity.
LEMMA MigratedStore ==
    ASSUME IInv, IInv', NEW h \in live,
           NEW to \in TableType, to # TypeOf(h), NEW fresh,
           \A c \in to \ TypeOf(h) : fresh[c] \in Value,
           Migrate(h, to, fresh)
    PROVE  storeBar' = [storeBar EXCEPT ![h] =
                           [c \in to |-> IF c \in TypeOf(h) THEN storeBar[h][c] ELSE fresh[c]]]
<1> PICK from, r, n, left :
       /\ from = TypeOf(h) /\ r = RowOfEntity(h) /\ n = Len(rows[to])
       /\ left = SwapRemove(rows[from], r + 1)
  OBVIOUS
<1> DEFINE new == [c \in to |-> IF c \in TypeOf(h) THEN storeBar[h][c] ELSE fresh[c]]
<1>1. /\ from \in TableType /\ r \in Nat /\ rows[from] \in Seq(Row)
      /\ h.index \in 1 .. Len(rec) /\ from # to
      /\ left \in Seq(Row) /\ Len(left) \in Nat /\ DOMAIN left = 1 .. Len(left)
      /\ rows[to] \in Seq(Row) /\ n \in Nat /\ DOMAIN rows[to] = 1 .. n
      /\ rows \in [TableType -> Seq(Row)]
  BY LiveProperties, SwapRemoveProperties DEF IInv, TypeOK
<1>2. PICK old \in ValuesAt(rows, from, r) :
         rows' = MigrateRows(rows, h, from, to, r, Carried(old, from, to, fresh))
  BY DEF Migrate
<1>3. UNCHANGED <<free, live, dead>>
  BY DEF Migrate
<1>4. rows'[to] = Append(rows[to], [entity |-> h, value |-> Carried(old, from, to, fresh)])
  BY <1>1, <1>2 DEF MigrateRows, AddRow, RemoveRow
<1>5. /\ rows'[from] = left
      /\ \A u \in TableType \ {from, to} : rows'[u] = rows[u]
      /\ rec'[h.index].type = to /\ rec'[h.index].row = n
      /\ \A i \in 1 .. Len(rec) : i # h.index => rec'[i].type = rec[i].type
  <2>1. Migrated(h, from, r, to)
    BY LiveProperties, MigrateEffect DEF IInv
  <2> QED  BY <2>1 DEF Migrated
<1>6. /\ DOMAIN rows'[to] = 1 .. n + 1
      /\ rows'[to][n + 1] = [entity |-> h, value |-> Carried(old, from, to, fresh)]
      /\ \A j \in 1 .. n : rows'[to][j] = rows[to][j] /\ j \in DOMAIN rows[to]
  BY <1>1, <1>4
<1>7. storeBar'[h] = new
  <2>1. TypeOf(h)' = to /\ RowOfEntity(h)' = n
    BY <1>5 DEF TypeOf, RowOfEntity
  <2>2. storeBar'[h] = Carried(old, from, to, fresh)
    <3>1. CASE to = RootType
      <4>1. Carried(old, from, to, fresh) = << >>
        BY <3>1 DEF Carried, RootType
      <4> QED  BY <1>3, <2>1, <3>1, <4>1 DEF storeBar
    <3>2. CASE to # RootType
      BY <1>3, <1>6, <2>1, <3>2 DEF storeBar, Contents
    <3> QED  BY <3>1, <3>2
  <2>3. \A c \in from : old[c] = storeBar[h][c]
    <3>1. CASE from = RootType
      BY <3>1 DEF RootType
    <3>2. CASE from # RootType
      <4>1. r + 1 \in DOMAIN rows[from] /\ storeBar[h] = rows[from][r + 1].value
        BY <3>2, ContentsType, StoreProperties DEF OwnValues, Contents
      <4>2. r < Len(rows[from])
        BY <1>1, <4>1
      <4> QED  BY <4>1, <4>2 DEF ValuesAt
    <3> QED  BY <3>1, <3>2
  <2> QED  BY <2>2, <2>3 DEF Carried
<1>8. ASSUME NEW g \in live, g # h
      PROVE  storeBar'[g] = storeBar[g]
  <2>1. TypeOf(g)' = TypeOf(g) /\ TypeOf(g) \in TableType
    BY <1>5, <1>8, LiveProperties, LiveUnique DEF TypeOf
  <2>2. ASSUME NEW j \in DOMAIN rows'[TypeOf(g)], rows'[TypeOf(g)][j].entity = g
        PROVE  \E k \in DOMAIN rows[TypeOf(g)] : rows'[TypeOf(g)][j] = rows[TypeOf(g)][k]
    <3>1. CASE TypeOf(g) = from
      <4>1. j \in 1 .. Len(left)
        BY <1>1, <1>5, <2>2, <3>1
      <4>2. /\ j \in 1 .. Len(rows[from]) - 1
            /\ left[j] = IF j = r + 1 THEN rows[from][Len(rows[from])] ELSE rows[from][j]
        BY <1>1, <4>1, SwapRemoveProperties
      <4>3. /\ j \in DOMAIN rows[from] /\ Len(rows[from]) \in DOMAIN rows[from]
        BY <1>1, <4>2
      <4> QED  BY <1>5, <3>1, <4>2, <4>3
    <3>2. CASE TypeOf(g) = to
      <4>1. j # n + 1
        BY <1>6, <1>8, <2>2, <3>2
      <4>2. j \in 1 .. n
        BY <1>1, <1>6, <2>2, <3>2, <4>1
      <4> QED  BY <1>6, <3>2, <4>2
    <3>3. CASE TypeOf(g) # from /\ TypeOf(g) # to
      BY <1>5, <2>1, <2>2, <3>3
    <3> QED  BY <3>1, <3>2, <3>3
  <2> QED  BY <1>3, <2>1, <2>2, ValuesKept
<1>9. storeBar' = [g \in live |-> storeBar'[g]]
  BY <1>3 DEF storeBar
<1>10. storeBar = [g \in live |-> storeBar[g]]
  BY DEF storeBar
<1> HIDE DEF new
<1>11. [storeBar EXCEPT ![h] = new] = [g \in live |-> IF g = h THEN new ELSE storeBar[g]]
  BY <1>10
<1>12. \A g \in live : storeBar'[g] = IF g = h THEN new ELSE storeBar[g]
  BY <1>7, <1>8
<1> QED  BY <1>9, <1>11, <1>12 DEF new

\* An overwrite changes one value of one entity.
LEMMA OverwrittenStore ==
    ASSUME IInv, IInv', NEW h \in live,
           NEW c \in Component, NEW v \in Value, Overwrite(h, c, v)
    PROVE  storeBar' = [storeBar EXCEPT ![h] = Abstract!With(h, c, v)]
<1> PICK t, r : t = TypeOf(h) /\ r = RowOfEntity(h)
  OBVIOUS
<1> DEFINE old == rows[t][r + 1]
<1>1. /\ t \in TableType /\ r \in Nat /\ rows[t] \in Seq(Row) /\ c \in t /\ t # RootType
      /\ rows \in [TableType -> Seq(Row)]
  BY LiveProperties DEF IInv, TypeOK, Overwrite, RootType
<1>2. /\ r + 1 \in DOMAIN rows[t] /\ DOMAIN rows[t] = 1 .. Len(rows[t])
      /\ old.entity = h /\ old.value = storeBar[h] /\ storeBar[h] \in [t -> Value]
  BY <1>1, ContentsType, StoreProperties DEF OwnValues, Contents
<1>3. rows' = [rows EXCEPT ![t] = WriteCell(rows[t], r + 1, c, v)]
      /\ UNCHANGED <<rec, free, live, dead>>
  BY DEF Overwrite
<1>4. /\ rows'[t] = WriteCell(rows[t], r + 1, c, v)
      /\ \A u \in TableType \ {t} : rows'[u] = rows[u]
  BY <1>1, <1>3
<1>5. /\ DOMAIN rows'[t] = DOMAIN rows[t]
      /\ rows'[t][r + 1] = [old EXCEPT !.value[c] = v]
      /\ \A j \in DOMAIN rows[t] : j # r + 1 => rows'[t][j] = rows[t][j]
  BY <1>2, <1>4 DEF WriteCell
<1>6. old \in Row
  BY <1>1, <1>2
<1>7. rows'[t][r + 1].value = [storeBar[h] EXCEPT ![c] = v]
  BY <1>2, <1>5, <1>6 DEF Row
<1>8. storeBar'[h] = [storeBar[h] EXCEPT ![c] = v]
  BY <1>1, <1>3, <1>7 DEF storeBar, TypeOf, RowOfEntity, Contents
<1>9. Abstract!With(h, c, v) = [storeBar[h] EXCEPT ![c] = v]
  BY <1>1, <1>2 DEF Abstract!With
<1>10. ASSUME NEW g \in live, g # h
       PROVE  storeBar'[g] = storeBar[g]
  <2>1. TypeOf(g)' = TypeOf(g) /\ TypeOf(g) \in TableType
    BY <1>3, LiveProperties DEF TypeOf
  <2>2. ASSUME NEW j \in DOMAIN rows'[TypeOf(g)], rows'[TypeOf(g)][j].entity = g
        PROVE  \E k \in DOMAIN rows[TypeOf(g)] : rows'[TypeOf(g)][j] = rows[TypeOf(g)][k]
    <3>1. CASE TypeOf(g) = t
      <4>1. j # r + 1
        <5>1. [old EXCEPT !.value[c] = v].entity = h
          BY <1>2, <1>6 DEF Row
        <5> QED  BY <1>5, <1>10, <2>2, <3>1, <5>1
      <4> QED  BY <1>5, <2>2, <3>1, <4>1
    <3>2. CASE TypeOf(g) # t
      BY <1>4, <2>1, <2>2, <3>2
    <3> QED  BY <3>1, <3>2
  <2> QED  BY <1>3, <2>1, <2>2, ValuesKept
<1>11. storeBar' = [g \in live |-> storeBar'[g]]
  BY <1>3 DEF storeBar
<1>12. storeBar = [g \in live |-> storeBar[g]]
  BY DEF storeBar
<1> PICK new : new = Abstract!With(h, c, v)
  OBVIOUS
<1>13. [storeBar EXCEPT ![h] = new] = [g \in live |-> IF g = h THEN new ELSE storeBar[g]]
  BY <1>12
<1>14. \A g \in live : storeBar'[g] = IF g = h THEN new ELSE storeBar[g]
  BY <1>8, <1>9, <1>10
<1> QED  BY <1>11, <1>13, <1>14

\* A handle that createEntity returns was never returned before.
LEMMA CreatedStore ==
    ASSUME IInv, IInv', CreateEntity
    PROVE  \E h \in Handle : Abstract!Create(h)
<1>1. PICK h : /\ h \in Handle /\ h \notin live \cup dead
               /\ live' = live \cup {h} /\ UNCHANGED <<rows, dead>>
               /\ TypeOf(h)' = RootType
               /\ \A g \in live : TypeOf(g)' = TypeOf(g)
  <2>1. CASE NewIndex
    <3> PICK h : h = [index |-> Len(rec) + 1, generation |-> 0]
      OBVIOUS
    <3>1. /\ live' = live \cup {h} /\ UNCHANGED <<rows, dead>>
          /\ rec' = Append(rec, [type |-> RootType, row |-> 0, generation |-> 0])
      BY <2>1 DEF NewIndex
    <3>2. rec \in Seq(Record) /\ Len(rec) \in Nat
      BY DEF IInv, TypeOK
    <3>3. h \in Handle
      BY <3>1 DEF IInv, TypeOK
    <3>4. \A g \in live \cup dead : g.index \in 1 .. Len(rec)
      BY LiveProperties DEF IInv, DeadBehind, Allocated
    <3>5. h \notin live \cup dead
      BY <3>2, <3>4
    <3>6. TypeOf(h)' = RootType /\ \A g \in live : TypeOf(g)' = TypeOf(g)
      BY <3>1, <3>2, <3>4 DEF TypeOf
    <3> QED  BY <3>1, <3>3, <3>5, <3>6
  <2>2. CASE RecycledIndex
    <3> PICK i, h : i = free[Len(free)] /\ h = HandleOf(i)
      OBVIOUS
    <3>1. /\ rec' = Relocate(rec, i, RootType, 0) /\ live' = live \cup {h}
          /\ UNCHANGED <<rows, dead>>
      BY <2>2 DEF RecycledIndex
    <3>2. /\ rec \in Seq(Record) /\ free \in Seq(1 .. Len(rec)) /\ free # << >>
          /\ RootType \in TableType
      BY <2>2 DEF IInv, TypeOK, RecycledIndex, Allocated, RootType, TableType
    <3>3. Len(free) \in DOMAIN free /\ i \in 1 .. Len(rec)
      BY <3>2
    <3>4. h \in Handle
      BY <3>1 DEF IInv, TypeOK
    <3>5. h.index = i /\ h.generation = rec[i].generation
      BY DEF HandleOf
    <3>6. h \notin live
      BY <3>3 DEF IInv, IndicesAccountedFor, Allocated
    <3>7. h \notin dead
      <4> SUFFICES ASSUME h \in dead PROVE FALSE
        OBVIOUS
      <4>1. h.generation < h.generation /\ h.generation \in Nat
        BY <3>4, <3>5, StorageAssumption DEF IInv, DeadBehind, Handle
      <4> QED  BY <4>1
    <3>8. /\ rec'[i].type = RootType
          /\ \A k \in 1 .. Len(rec) : k # i => rec'[k] = rec[k]
      BY <3>1, <3>2, <3>3, RelocateProperties, 0 \in Nat
    <3>9. \A g \in live : g.index \in 1 .. Len(rec) /\ g.index # i
      BY <3>6, LiveProperties, HandleOfLive
    <3>10. TypeOf(h)' = RootType /\ \A g \in live : TypeOf(g)' = TypeOf(g)
      BY <3>5, <3>8, <3>9 DEF TypeOf
    <3> QED  BY <3>1, <3>4, <3>6, <3>7, <3>10
  <2> QED  BY <2>1, <2>2 DEF CreateEntity
<1>2. storeBar'[h] = << >>
  BY <1>1 DEF storeBar
<1>3. ASSUME NEW g \in live
      PROVE  storeBar'[g] = storeBar[g]
  <2>1. TypeOf(g) \in TableType
    BY LiveProperties
  <2>2. g \in live' /\ TypeOf(g)' = TypeOf(g) /\ rows' = rows
    BY <1>1
  <2> QED  BY <2>1, <2>2, ValuesKept
<1>4. storeBar' = [g \in live \cup {h} |-> IF g = h THEN << >> ELSE storeBar[g]]
  <2>1. storeBar' = [g \in live' |-> storeBar'[g]]
    BY DEF storeBar
  <2> QED  BY <1>1, <1>2, <1>3, <2>1
<1>5. DOMAIN storeBar = live
  BY DEF storeBar
<1>6. Abstract!Create(h)
  BY <1>1, <1>4, <1>5 DEF Abstract!Create, Abstract!Live
<1> QED  BY <1>1, <1>6

\* Destroying an entity takes away its values and no others.
LEMMA DestroyedStore ==
    ASSUME IInv, IInv', NEW h \in live, ContractDestroy(h)
    PROVE  Abstract!Destroy(h)
<1> PICK t, r, left : t = TypeOf(h) /\ r = RowOfEntity(h)
                      /\ left = SwapRemove(rows[t], r + 1)
  OBVIOUS
<1>1. /\ t \in TableType /\ r \in Nat /\ rows[t] \in Seq(Row)
      /\ DOMAIN rows[t] = 1 .. Len(rows[t]) /\ Len(rows[t]) \in Nat
      /\ left \in Seq(Row) /\ Len(left) \in Nat /\ DOMAIN left = 1 .. Len(left)
  BY LiveProperties, SwapRemoveProperties
<1>2. DestroyEntity(h)
  BY DEF ContractDestroy
<1>3. live' = live \ {h} /\ dead' = dead \cup {h}
  BY <1>2 DEF DestroyEntity
<1>4. /\ rows'[t] = IF t = RootType THEN rows[t] ELSE left
      /\ \A u \in TableType \ {t} : rows'[u] = rows[u]
      /\ \A i \in 1 .. Len(rec) : i # h.index => rec'[i].type = rec[i].type
  BY <1>2, DestroyEffect DEF IInv
<1>5. ASSUME NEW g \in live'
      PROVE  storeBar'[g] = storeBar[g]
  <2>1. g \in live /\ g # h
    BY <1>3
  <2>2. TypeOf(g)' = TypeOf(g) /\ TypeOf(g) \in TableType
    BY <1>4, <2>1, LiveProperties, LiveUnique DEF TypeOf
  <2>3. ASSUME NEW j \in DOMAIN rows'[TypeOf(g)]
        PROVE  \E k \in DOMAIN rows[TypeOf(g)] : rows'[TypeOf(g)][j] = rows[TypeOf(g)][k]
    <3>1. CASE TypeOf(g) = t /\ t # RootType
      <4>1. j \in 1 .. Len(left)
        BY <1>1, <1>4, <2>3, <3>1
      <4>2. /\ j \in 1 .. Len(rows[t]) - 1
            /\ left[j] = IF j = r + 1 THEN rows[t][Len(rows[t])] ELSE rows[t][j]
        <5>1. rows[t] \in Seq(Row) /\ r + 1 \in Nat
          BY <1>1
        <5> QED  BY <4>1, <5>1, SwapRemoveProperties
      <4>3. /\ j \in DOMAIN rows[t] /\ Len(rows[t]) \in DOMAIN rows[t]
        BY <1>1, <4>2
      <4> QED  BY <1>4, <3>1, <4>2, <4>3
    <3>2. CASE ~(TypeOf(g) = t /\ t # RootType)
      BY <1>4, <2>2, <2>3, <3>2
    <3> QED  BY <3>1, <3>2
  <2> QED  BY <2>1, <2>2, <2>3, ValuesKept
<1>6. storeBar' = [g \in live \ {h} |-> storeBar[g]]
  <2>1. storeBar' = [g \in live' |-> storeBar'[g]]
    BY DEF storeBar
  <2> QED  BY <1>3, <1>5, <2>1
<1>7. DOMAIN storeBar = live
  BY DEF storeBar
<1> QED  BY <1>3, <1>6, <1>7 DEF Abstract!Destroy, Abstract!Live

\* Every step of the storage is a step of the abstract store, or changes nothing
\* that it holds.
LEMMA StoreStep ==
    ASSUME IInv, IInv', [ContractNext]_vars
    PROVE  [Abstract!Next]_(Abstract!vars)
<1>1. CASE CreateEntity
  BY <1>1, CreatedStore DEF Abstract!Next
<1>2. ASSUME NEW h \in live \cup dead, ContractDestroy(h)
      PROVE  Abstract!Next
  <2>1. h \in live /\ h \in Handle
    BY <1>2, UsableIsLive, LiveProperties DEF ContractDestroy, DestroyEntity, Usable
  <2> QED  BY <1>2, <2>1, DestroyedStore DEF Abstract!Next
<1>3. ASSUME NEW h \in live \cup dead, Change(h)
      PROVE  Abstract!Next
  <2>1. IsAlive(h)
    BY <1>3 DEF Change, AddComponent, RemoveComponent, SetComponent, Usable
  <2>2. /\ h \in live /\ h \in Handle /\ TypeOf(h) \in TableType
        /\ DOMAIN storeBar = live /\ DOMAIN storeBar[h] = TypeOf(h)
        /\ storeBar[h] \in [TypeOf(h) -> Value]
    BY <2>1, UsableIsLive, LiveProperties, StoreProperties
  <2>3. ASSUME NEW c \in Component, RemoveComponent(h, c)
        PROVE  Abstract!Remove(h, c)
    <3> PICK to : to = TypeOf(h) \ {c}
      OBVIOUS
    <3>1. /\ to \in TableType /\ to # TypeOf(h) /\ Migrate(h, to, << >>)
          /\ to \ TypeOf(h) = {}
      BY <2>2, <2>3 DEF RemoveComponent, TableType
    <3>2. storeBar' = [storeBar EXCEPT ![h] =
              [d \in to |-> IF d \in TypeOf(h) THEN storeBar[h][d] ELSE << >>[d]]]
      BY <2>2, <3>1, MigratedStore
    <3>3. [d \in to |-> IF d \in TypeOf(h) THEN storeBar[h][d] ELSE << >>[d]]
            = Abstract!Without(h, c)
      BY <2>2 DEF Abstract!Without
    <3>4. UNCHANGED (live \cup dead)
      BY <3>1 DEF Migrate
    <3> QED  BY <2>2, <3>2, <3>3, <3>4 DEF Abstract!Remove, Abstract!Live
  <2>4. ASSUME NEW c \in Component, NEW v \in Value, c \notin TypeOf(h),
               Migrate(h, TypeOf(h) \cup {c}, [d \in {c} |-> v])
        PROVE  /\ storeBar' = [storeBar EXCEPT ![h] = Abstract!With(h, c, v)]
               /\ UNCHANGED (live \cup dead)
    <3> PICK to, fresh : to = TypeOf(h) \cup {c} /\ fresh = [d \in {c} |-> v]
      OBVIOUS
    <3>1. /\ to \in TableType /\ to # TypeOf(h) /\ Migrate(h, to, fresh)
          /\ \A d \in to \ TypeOf(h) : fresh[d] \in Value
      BY <2>2, <2>4 DEF TableType
    <3>2. storeBar' = [storeBar EXCEPT ![h] =
              [d \in to |-> IF d \in TypeOf(h) THEN storeBar[h][d] ELSE fresh[d]]]
      BY <2>2, <3>1, MigratedStore
    <3>3. [d \in to |-> IF d \in TypeOf(h) THEN storeBar[h][d] ELSE fresh[d]]
            = Abstract!With(h, c, v)
      BY <2>2, <2>4 DEF Abstract!With
    <3>4. UNCHANGED (live \cup dead)
      BY <3>1 DEF Migrate
    <3> QED  BY <3>2, <3>3, <3>4
  <2>5. ASSUME NEW c \in Component, NEW v \in Value, AddComponent(h, c, v)
        PROVE  Abstract!Add(h, c, v)
    BY <2>2, <2>4, <2>5 DEF AddComponent, Abstract!Add, Abstract!Live
  <2>6. ASSUME NEW c \in Component, NEW v \in Value, SetComponent(h, c, v)
        PROVE  Abstract!Set(h, c, v)
    <3>1. CASE Overwrite(h, c, v)
      <4>1. UNCHANGED (live \cup dead)
        BY <3>1 DEF Overwrite
      <4> QED  BY <2>2, <3>1, <4>1, OverwrittenStore DEF Abstract!Set, Abstract!Live
    <3>2. CASE ~Overwrite(h, c, v)
      BY <2>2, <2>4, <2>6, <3>2 DEF SetComponent, Abstract!Set, Abstract!Live
    <3> QED  BY <3>1, <3>2
  <2> QED  BY <1>3, <2>2, <2>3, <2>5, <2>6 DEF Change, Abstract!Next
<1>4. CASE UNCHANGED vars
  <2>1. UNCHANGED <<storeBar, live \cup dead>>
    BY <1>4 DEF vars, storeBar, TypeOf, RowOfEntity, Contents
  <2> QED  BY <2>1 DEF Abstract!vars
<1> QED  BY <1>1, <1>2, <1>3, <1>4 DEF ContractNext

\* Under the discipline of ContractSpec the storage implements the map from live
\* handles to component values that its client sees: an operation changes the
\* values of the entity it names and of no other, a migration carries the values
\* that both types have, and no handle is returned twice.
THEOREM StorageImplementsStore == ContractSpec => ImplementsStore
<1>1. Init => Abstract!Init
  <2> SUFFICES ASSUME Init PROVE Abstract!Init
    OBVIOUS
  <2>1. live = {} /\ dead = {}
    BY DEF Init
  <2>2. storeBar = << >>
    BY <2>1 DEF storeBar
  <2> QED  BY <2>1, <2>2 DEF Abstract!Init
<1>2. IInv /\ IInv' /\ [ContractNext]_vars => [Abstract!Next]_(Abstract!vars)
  BY StoreStep
<1> QED  BY <1>1, <1>2, Invariance, PTL DEF ContractSpec, ImplementsStore, Abstract!Spec
=============================================================================
