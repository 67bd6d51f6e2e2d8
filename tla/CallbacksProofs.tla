---------------------------- MODULE CallbacksProofs ----------------------------
(***************************************************************************)
(* Theorems about client code that gets control in the middle of the       *)
(* engine's work.                                                          *)
(*                                                                         *)
(* Loops over queries: what an operation does to the storage is a sequence *)
(* of moves of entities between tables.  A move that does not disturb a    *)
(* loop keeps the loop where it is, so an operation all of whose moves are *)
(* such does, whatever hooks it runs.                                      *)
(*                                                                         *)
(* Component hooks: every operation keeps what the storage has to satisfy  *)
(* and what other entities have, so the operations it runs as hooks do.    *)
(* What is bounded after a call was so all along, because nothing that is  *)
(* counted ever shrinks.                                                   *)
(***************************************************************************)
EXTENDS Hooks, Iteration, RelationsProofs

-----------------------------------------------------------------------------
(* Entities in the rows of a table *)

\* g is in a row of s behind the first n.
Behind(s, n, g) == \E k \in 1 .. Len(s) : k > n /\ s[k].entity = g

SameEntities(s, s2) ==
    Len(s2) = Len(s) /\ \A k \in 1 .. Len(s) : s2[k].entity = s[k].entity

\* g is added at the end of s.
JoinedBy(s, s2, g) ==
    /\ Len(s2) = Len(s) + 1
    /\ \A k \in 1 .. Len(s) : s2[k].entity = s[k].entity
    /\ s2[Len(s) + 1].entity = g

\* g leaves s, the last entity takes its place.
LeftBy(s, s2, g) ==
    /\ Len(s2) = Len(s) - 1
    /\ \E i \in 1 .. Len(s) :
          /\ s[i].entity = g
          /\ \A k \in 1 .. Len(s) - 1 :
                s2[k].entity = IF k = i THEN s[Len(s)].entity ELSE s[k].entity

\* What happens to a table in which no entity comes or goes.
LEMMA BehindSame ==
    ASSUME NEW s, NEW s2, Len(s) \in Nat, SameEntities(s, s2), NEW n \in Nat, NEW g
    PROVE  Behind(s2, n, g) <=> Behind(s, n, g)
BY DEF Behind, SameEntities

\* To another one.
LEMMA BehindJoined ==
    ASSUME NEW s, NEW s2, Len(s) \in Nat, NEW g, JoinedBy(s, s2, g), NEW n \in Nat, NEW h
    PROVE  /\ Behind(s, n, h) => Behind(s2, n, h)
           /\ Behind(s2, n, h) /\ h # g => Behind(s, n, h)
<1>1. 1 .. Len(s2) = (1 .. Len(s)) \cup {Len(s) + 1}
  BY DEF JoinedBy
<1> QED  BY <1>1 DEF Behind, JoinedBy

\* To one that an entity leaves which is not among the first n.
LEMMA BehindLeft ==
    ASSUME NEW s, NEW s2, Len(s) \in Nat, NEW g, LeftBy(s, s2, g),
           NEW n \in Nat, \A k \in 1 .. n : s[k].entity # g, NEW h
    PROVE  /\ Behind(s, n, h) /\ h # g => Behind(s2, n, h)
           /\ Behind(s2, n, h) => Behind(s, n, h)
           /\ n <= Len(s) => n <= Len(s2)
           /\ n <= Len(s) => \A k \in 1 .. n : s2[k].entity = s[k].entity
<1>1. PICK i \in 1 .. Len(s) :
          /\ s[i].entity = g
          /\ \A k \in 1 .. Len(s) - 1 :
                s2[k].entity = IF k = i THEN s[Len(s)].entity ELSE s[k].entity
  BY DEF LeftBy
<1>2. Len(s2) = Len(s) - 1 /\ i > n
  BY <1>1 DEF LeftBy
<1>3. ASSUME Behind(s, n, h), h # g
      PROVE  Behind(s2, n, h)
  <2>1. PICK k \in 1 .. Len(s) : k > n /\ s[k].entity = h
    BY <1>3 DEF Behind
  <2>2. k # i
    BY <1>1, <1>3, <2>1
  <2>3. CASE k = Len(s)
    <3>1. i \in 1 .. Len(s2) /\ i \in 1 .. Len(s) - 1
      BY <1>2, <2>2, <2>3
    <3>2. s2[i].entity = h
      BY <1>1, <2>1, <2>3, <3>1
    <3> QED  BY <1>2, <3>1, <3>2 DEF Behind
  <2>4. CASE k # Len(s)
    <3>1. k \in 1 .. Len(s2) /\ k \in 1 .. Len(s) - 1
      BY <1>2, <2>4
    <3>2. s2[k].entity = h
      BY <1>1, <2>1, <2>2, <3>1
    <3> QED  BY <2>1, <3>1, <3>2 DEF Behind
  <2> QED  BY <2>3, <2>4
<1>4. ASSUME Behind(s2, n, h)
      PROVE  Behind(s, n, h)
  <2>1. PICK k \in 1 .. Len(s2) : k > n /\ s2[k].entity = h
    BY <1>4 DEF Behind
  <2>2. k \in 1 .. Len(s) - 1 /\ k \in 1 .. Len(s) /\ Len(s) \in 1 .. Len(s) /\ Len(s) > n
    BY <1>2, <2>1
  <2> QED  BY <1>1, <2>1, <2>2 DEF Behind
<1>5. ASSUME n <= Len(s)
      PROVE  n <= Len(s2) /\ \A k \in 1 .. n : s2[k].entity = s[k].entity
  <2>1. n <= Len(s2)
    BY <1>2
  <2>2. ASSUME NEW k \in 1 .. n
        PROVE  s2[k].entity = s[k].entity
    <3>1. k \in 1 .. Len(s) - 1 /\ k # i
      BY <1>2, <2>1
    <3> QED  BY <1>1, <3>1
  <2> QED  BY <2>1, <2>2
<1> QED  BY <1>3, <1>4, <1>5

-----------------------------------------------------------------------------
(* Loops and moves *)

Move == [entity : Handle, table : TableType, joins : BOOLEAN]

Parent == [entity : Handle, table : TableType, row : Nat]

Loop == [kind : {"system", "runtime"}, query : Query, todo : SUBSET TableType,
         table : {None} \cup TableType, size : Nat, row : Nat,
         parent : {None} \cup Parent, visited : SUBSET Handle, due : SUBSET Handle]

\* In s, the rows of its table, a loop has called those in the first rows, and
\* nobody it called is in another one.
TableAt(l, s) ==
    /\ l.row <= Len(s)
    /\ l.kind = "system" => l.size = Len(s)
    /\ \A k \in 1 .. l.row : s[k].entity \in l.visited
    /\ \A g \in l.visited : ~Behind(s, l.row, g)

\* The loop will come to g.
ToCome(l, rw, g) ==
    \/ \E t \in l.todo : Behind(rw[t], 0, g)
    \/ l.table # None /\ Behind(rw[l.table], l.row, g)

ParentAt(l, rw) ==
    l.parent # None =>
        /\ l.parent \in Parent
        /\ l.parent.row < Len(rw[l.parent.table])
        /\ rw[l.parent.table][l.parent.row + 1].entity = l.parent.entity

\* A loop goes on as it should when the rows are rw: through tables that match, to
\* everyone in due and to nobody twice.
LoopAt(l, due, rw) ==
    /\ l \in Loop
    /\ \A t \in l.todo : Matches(l.query, t) /\ t # l.table
    /\ l.table = None => l.size = 0
    /\ l.table # None => Matches(l.query, l.table) /\ TableAt(l, rw[l.table])
    /\ \A t \in l.todo : \A g \in l.visited : ~Behind(rw[t], 0, g)
    /\ \A g \in due : g \in l.visited \/ ToCome(l, rw, g)
    /\ ParentAt(l, rw)

\* Move m turns the rows s of table t into s2.
TableMoves(s, s2, t, m) ==
    /\ Len(s) \in Nat
    /\ m.table # t => SameEntities(s, s2)
    /\ m.table = t => IF m.joins THEN JoinedBy(s, s2, m.entity) ELSE LeftBy(s, s2, m.entity)

MoveMade(rw, rw2, m) == \A t \in TableType : TableMoves(rw[t], rw2[t], t, m)

\* An undisturbed loop stays where it is in its table.
LEMMA TableUndisturbed ==
    ASSUME NEW l \in Loop, l.table # None, NEW s, NEW s2, NEW m, TableMoves(s, s2, l.table, m),
           TableAt(l, s), Undisturbed(l, m)
    PROVE  /\ TableAt(l, s2)
           /\ \A g : g # m.entity /\ Behind(s, l.row, g) => Behind(s2, l.row, g)
<1>1. l.row \in Nat /\ Len(s) \in Nat
  BY DEF Loop, TableMoves
<1>2. CASE m.table # l.table
  <2>1. SameEntities(s, s2)
    BY <1>2 DEF TableMoves
  <2>2. \A h : Behind(s2, l.row, h) <=> Behind(s, l.row, h)
    BY <1>1, <2>1, BehindSame
  <2> QED  BY <1>1, <2>1, <2>2 DEF TableAt, SameEntities
<1>3. CASE m.table = l.table /\ m.joins
  <2>1. JoinedBy(s, s2, m.entity) /\ l.kind # "system" /\ m.entity \notin l.visited
    BY <1>3 DEF TableMoves, Undisturbed
  <2>2. \A h : /\ Behind(s, l.row, h) => Behind(s2, l.row, h)
               /\ Behind(s2, l.row, h) /\ h # m.entity => Behind(s, l.row, h)
    BY <1>1, <2>1, BehindJoined
  <2> QED  BY <1>1, <2>1, <2>2 DEF TableAt, JoinedBy
<1>4. CASE m.table = l.table /\ ~m.joins
  <2>1. LeftBy(s, s2, m.entity) /\ l.kind # "system" /\ m.entity \notin l.visited
    BY <1>4 DEF TableMoves, Undisturbed
  <2>0. PICK n, e : n = l.row /\ e = m.entity
    OBVIOUS
  <2>2. n \in Nat /\ n <= Len(s) /\ \A k \in 1 .. n : s[k].entity # e
    BY <1>1, <2>0, <2>1 DEF TableAt
  <2>5. Len(s) \in Nat /\ LeftBy(s, s2, e)
    BY <1>1, <2>0, <2>1
  <2>6. ASSUME NEW h
        PROVE  /\ Behind(s, n, h) /\ h # e => Behind(s2, n, h)
               /\ Behind(s2, n, h) => Behind(s, n, h)
               /\ n <= Len(s2)
               /\ \A k \in 1 .. n : s2[k].entity = s[k].entity
    BY ONLY <2>2, <2>5, BehindLeft
  <2>3. \A h : /\ Behind(s, l.row, h) /\ h # m.entity => Behind(s2, l.row, h)
               /\ Behind(s2, l.row, h) => Behind(s, l.row, h)
    BY ONLY <2>0, <2>6
  <2>4. l.row <= Len(s2) /\ \A k \in 1 .. l.row : s2[k].entity = s[k].entity
    BY ONLY <2>0, <2>6
  <2> QED  BY <2>1, <2>3, <2>4 DEF TableAt
<1> QED  BY <1>2, <1>3, <1>4

\* A table still to come gets nobody who was called and keeps everyone else.
LEMMA TodoUndisturbed ==
    ASSUME NEW l, NEW t \in l.todo, NEW s, NEW s2, NEW m, TableMoves(s, s2, t, m),
           Undisturbed(l, m), \A h \in l.visited : ~Behind(s, 0, h)
    PROVE  /\ \A h \in l.visited : ~Behind(s2, 0, h)
           /\ \A g : g # m.entity /\ Behind(s, 0, g) => Behind(s2, 0, g)
<1>1. Len(s) \in Nat /\ 0 \in Nat
  BY DEF TableMoves
<1>2. CASE m.table # t
  BY <1>1, <1>2, BehindSame DEF TableMoves
<1>3. CASE m.table = t /\ m.joins
  <2>1. JoinedBy(s, s2, m.entity) /\ m.entity \notin l.visited
    BY <1>3 DEF TableMoves, Undisturbed
  <2> QED  BY <1>1, <2>1, BehindJoined
<1>4. CASE m.table = t /\ ~m.joins
  <2>1. LeftBy(s, s2, m.entity)
    BY <1>4 DEF TableMoves
  <2>2. \A h : /\ Behind(s, 0, h) /\ h # m.entity => Behind(s2, 0, h)
               /\ Behind(s2, 0, h) => Behind(s, 0, h)
    BY <1>1, <2>1, BehindLeft
  <2> QED  BY <2>2
<1> QED  BY <1>2, <1>3, <1>4

\* A move that does not disturb a loop leaves it with everyone else to come.
LEMMA LoopUndisturbed ==
    ASSUME NEW rw, NEW rw2, NEW m, MoveMade(rw, rw2, m),
           NEW l, NEW due, LoopAt(l, due, rw), Undisturbed(l, m)
    PROVE  LoopAt(l, due \ {m.entity}, rw2)
<1>1. /\ l \in Loop /\ l.query \in Query /\ l.todo \subseteq TableType
      /\ l.table # None => l.table \in TableType
  BY DEF LoopAt, Loop
<1>2. \A t \in l.todo : TableMoves(rw[t], rw2[t], t, m)
  BY <1>1 DEF MoveMade
<1>3. l.table # None => TableMoves(rw[l.table], rw2[l.table], l.table, m)
  BY <1>1 DEF MoveMade
<1>4. \A t \in l.todo : \A h \in l.visited : ~Behind(rw2[t], 0, h)
  <2>1. ASSUME NEW t \in l.todo
        PROVE  \A h \in l.visited : ~Behind(rw2[t], 0, h)
    <3>1. \A h \in l.visited : ~Behind(rw[t], 0, h)
      BY DEF LoopAt
    <3> QED  BY <1>2, <3>1, TodoUndisturbed
  <2> QED  BY <2>1
<1>5. ASSUME l.table # None
      PROVE  TableAt(l, rw2[l.table])
  <2>1. TableAt(l, rw[l.table])
    BY <1>5 DEF LoopAt
  <2> QED  BY <1>1, <1>3, <1>5, <2>1, TableUndisturbed
<1>6. ASSUME NEW g \in due \ {m.entity}, g \notin l.visited
      PROVE  ToCome(l, rw2, g)
  <2>1. ToCome(l, rw, g)
    BY <1>6 DEF LoopAt
  <2>2. ASSUME NEW t \in l.todo, Behind(rw[t], 0, g)
        PROVE  Behind(rw2[t], 0, g)
    <3>1. \A h \in l.visited : ~Behind(rw[t], 0, h)
      BY DEF LoopAt
    <3> QED  BY <1>2, <1>6, <2>2, <3>1, TodoUndisturbed
  <2>3. ASSUME l.table # None, Behind(rw[l.table], l.row, g)
        PROVE  Behind(rw2[l.table], l.row, g)
    <3>1. TableAt(l, rw[l.table])
      BY <2>3 DEF LoopAt
    <3>2. \A h : h # m.entity /\ Behind(rw[l.table], l.row, h) => Behind(rw2[l.table], l.row, h)
      BY <1>1, <1>3, <2>3, <3>1, TableUndisturbed
    <3> QED  BY <1>6, <2>3, <3>2
  <2> QED  BY <2>1, <2>2, <2>3 DEF ToCome
<1>7. ParentAt(l, rw2)
  <2> SUFFICES ASSUME l.parent # None
               PROVE  /\ l.parent.row < Len(rw2[l.parent.table])
                      /\ rw2[l.parent.table][l.parent.row + 1].entity = l.parent.entity
    BY DEF ParentAt, LoopAt
  <2>0. PICK t, r, s, s2 : /\ t = l.parent.table /\ r = l.parent.row
                           /\ s = rw[t] /\ s2 = rw2[t]
    OBVIOUS
  <2>1. /\ t \in TableType /\ r \in Nat /\ r < Len(s)
        /\ s[r + 1].entity = l.parent.entity
    BY <2>0 DEF LoopAt, ParentAt, Parent
  <2>2. (~m.joins => m.table # t) /\ TableMoves(s, s2, t, m)
    BY <2>0, <2>1 DEF MoveMade, Undisturbed, ParentStays
  <2>3. r + 1 \in 1 .. Len(s) /\ Len(s) \in Nat
    BY <2>1, <2>2 DEF TableMoves
  <2>4. r < Len(s2) /\ s2[r + 1].entity = s[r + 1].entity
    BY <2>1, <2>2, <2>3 DEF TableMoves, SameEntities, JoinedBy
  <2> QED  BY <2>0, <2>1, <2>4
<1> QED  BY <1>1, <1>4, <1>5, <1>6, <1>7 DEF LoopAt

-----------------------------------------------------------------------------
(* Operations as moves *)

Movers(st) == {m.entity : m \in Range(st.moves)}

\* What is done between st and st2 only makes moves, and st2 lists them.
Follows(st, st2) ==
    st.moves \in Seq(Move) =>
        /\ st2.moves \in Seq(Move) /\ Range(st.moves) \subseteq Range(st2.moves)
        /\ \A l, due :
              LoopAt(l, due, st.rows) /\ (\A m \in Range(st2.moves) : Undisturbed(l, m))
                  => LoopAt(l, due \ Movers(st2), st2.rows)

\* A loop that has less to come to.
LEMMA LessDue ==
    ASSUME NEW l, NEW due, NEW rw, LoopAt(l, due, rw), NEW less \in SUBSET due
    PROVE  LoopAt(l, less, rw)
BY DEF LoopAt

\* Nothing is done.
LEMMA FollowsItself ==
    ASSUME NEW st
    PROVE  Follows(st, st)
BY LessDue DEF Follows

\* One thing is done after another.
LEMMA FollowsTwice ==
    ASSUME NEW st, NEW st2, NEW st3, Follows(st, st2), Follows(st2, st3)
    PROVE  Follows(st, st3)
<1> SUFFICES ASSUME st.moves \in Seq(Move)
             PROVE  /\ st3.moves \in Seq(Move) /\ Range(st.moves) \subseteq Range(st3.moves)
                    /\ \A l, due :
                          LoopAt(l, due, st.rows)
                          /\ (\A m \in Range(st3.moves) : Undisturbed(l, m))
                              => LoopAt(l, due \ Movers(st3), st3.rows)
  BY DEF Follows
<1>1. /\ st2.moves \in Seq(Move) /\ Range(st.moves) \subseteq Range(st2.moves)
      /\ \A l, due :
            LoopAt(l, due, st.rows) /\ (\A m \in Range(st2.moves) : Undisturbed(l, m))
                => LoopAt(l, due \ Movers(st2), st2.rows)
  BY DEF Follows
<1>2. /\ st3.moves \in Seq(Move) /\ Range(st2.moves) \subseteq Range(st3.moves)
      /\ \A l, due :
            LoopAt(l, due, st2.rows) /\ (\A m \in Range(st3.moves) : Undisturbed(l, m))
                => LoopAt(l, due \ Movers(st3), st3.rows)
  BY <1>1 DEF Follows
<1>3. Movers(st2) \subseteq Movers(st3)
  BY <1>2 DEF Movers
<1>4. ASSUME NEW l, NEW due, LoopAt(l, due, st.rows),
             \A m \in Range(st3.moves) : Undisturbed(l, m)
      PROVE  LoopAt(l, due \ Movers(st3), st3.rows)
  <2>1. LoopAt(l, due \ Movers(st2), st2.rows)
    BY <1>1, <1>2, <1>4
  <2>2. LoopAt(l, (due \ Movers(st2)) \ Movers(st3), st3.rows)
    BY <1>2, <1>4, <2>1
  <2>3. (due \ Movers(st2)) \ Movers(st3) = due \ Movers(st3)
    BY <1>3
  <2> QED  BY <2>2, <2>3
<1> QED  BY <1>1, <1>2, <1>4

\* One move is made.
LEMMA FollowsMove ==
    ASSUME NEW st, NEW st2, NEW m \in Move,
           MoveMade(st.rows, st2.rows, m), st2.moves = Append(st.moves, m)
    PROVE  Follows(st, st2)
<1> SUFFICES ASSUME st.moves \in Seq(Move)
             PROVE  /\ st2.moves \in Seq(Move) /\ Range(st.moves) \subseteq Range(st2.moves)
                    /\ \A l, due :
                          LoopAt(l, due, st.rows)
                          /\ (\A n \in Range(st2.moves) : Undisturbed(l, n))
                              => LoopAt(l, due \ Movers(st2), st2.rows)
  BY DEF Follows
<1>0. PICK s, s2 : s = st.moves /\ s2 = st2.moves
  OBVIOUS
<1>1. /\ s2 \in Seq(Move) /\ Len(s2) = Len(s) + 1 /\ Len(s) \in Nat
      /\ DOMAIN s = 1 .. Len(s) /\ DOMAIN s2 = 1 .. Len(s) + 1
      /\ \A k \in 1 .. Len(s) : s2[k] = s[k]
      /\ s2[Len(s) + 1] = m
  BY <1>0
<1>2. Range(s) \subseteq Range(s2) /\ m \in Range(s2)
  BY <1>1 DEF Range
<1>3. m.entity \in Movers(st2)
  BY <1>0, <1>2 DEF Movers
<1>4. ASSUME NEW l, NEW due, LoopAt(l, due, st.rows),
             \A n \in Range(st2.moves) : Undisturbed(l, n)
      PROVE  LoopAt(l, due \ Movers(st2), st2.rows)
  <2>1. Undisturbed(l, m)
    BY <1>0, <1>2, <1>4
  <2>2. LoopAt(l, due \ {m.entity}, st2.rows)
    BY <1>4, <2>1, LoopUndisturbed
  <2>3. due \ Movers(st2) \subseteq due \ {m.entity}
    BY <1>3
  <2> QED  BY <2>2, <2>3, LessDue
<1> QED  BY <1>0, <1>1, <1>2, <1>4

\* A component is written: nobody moves.
LEMMA PutFollows ==
    ASSUME NEW st, Sound(st), NEW h \in st.live, NEW c, NEW v
    PROVE  Follows(st, Put(st, h, c, v))
<1>0. PICK t, r, rw2, st2 :
          /\ t = TypeIn(st, h) /\ r = RowIn(st, h)
          /\ rw2 = [st.rows EXCEPT ![t] = WriteCell(@, r + 1, c, v)]
          /\ st2 = Put(st, h, c, v)
  OBVIOUS
<1>1. IsStore(st)
  BY DEF Sound
<1>2. st2.moves = st.moves /\ st2.rows = rw2
  BY <1>0, <1>1 DEF Put, IsStore
<1>3. \A u \in TableType : Len(st.rows[u]) \in Nat /\ SameEntities(st.rows[u], rw2[u])
  <2> SUFFICES ASSUME NEW u \in TableType
               PROVE  Len(st.rows[u]) \in Nat /\ SameEntities(st.rows[u], rw2[u])
    OBVIOUS
  <2>0. PICK s : s = st.rows[u]
    OBVIOUS
  <2>1. s \in Seq(RowsOf(u)) /\ u \in DOMAIN st.rows
    <3>1. Typed(st.rec, st.rows, st.live)
      BY DEF Sound, TablesRight
    <3> QED  BY <2>0, <3>1 DEF Typed
  <2>2. Len(s) \in Nat /\ \A k \in 1 .. Len(s) : s[k] \in RowsOf(u)
    BY <2>1
  <2>3. CASE u # t
    <3>1. rw2[u] = s
      BY <1>0, <2>0, <2>1, <2>3
    <3> QED  BY <2>0, <2>2, <3>1 DEF SameEntities
  <2>4. CASE u = t
    <3>1. rw2[u] = WriteCell(s, r + 1, c, v)
      BY <1>0, <2>0, <2>1, <2>4
    <3>2. Len(rw2[u]) = Len(s) /\ \A k \in 1 .. Len(s) : rw2[u][k].entity = s[k].entity
      BY <2>2, <3>1 DEF WriteCell, RowsOf
    <3> QED  BY <2>0, <2>2, <3>2 DEF SameEntities
  <2> QED  BY <2>3, <2>4
<1>4. ASSUME NEW l, NEW due, LoopAt(l, due, st.rows)
      PROVE  LoopAt(l, due, rw2)
  <2>1. /\ l \in Loop /\ l.todo \subseteq TableType /\ l.row \in Nat /\ 0 \in Nat
        /\ l.table # None => l.table \in TableType
    BY <1>4 DEF LoopAt, Loop
  <2>2. \A u \in TableType : \A n \in Nat : \A g :
            Behind(rw2[u], n, g) <=> Behind(st.rows[u], n, g)
    BY <1>3, BehindSame
  <2>3. ASSUME l.table # None
        PROVE  TableAt(l, rw2[l.table])
    <3>0. PICK s, s2 : s = st.rows[l.table] /\ s2 = rw2[l.table]
      OBVIOUS
    <3>1. TableAt(l, s) /\ SameEntities(s, s2) /\ Len(s) \in Nat
      BY <1>3, <1>4, <2>1, <2>3, <3>0 DEF LoopAt
    <3>2. \A g : Behind(s2, l.row, g) <=> Behind(s, l.row, g)
      BY <2>1, <2>2, <2>3, <3>0
    <3>3. TableAt(l, s2)
      BY ONLY <2>1, <3>1, <3>2 DEF TableAt, SameEntities
    <3> QED  BY <3>0, <3>3
  <2>4. \A t1 \in l.todo : \A g \in l.visited : ~Behind(rw2[t1], 0, g)
    BY <1>4, <2>1, <2>2 DEF LoopAt
  <2>5. \A g \in due : g \in l.visited \/ ToCome(l, rw2, g)
    BY <1>4, <2>1, <2>2 DEF LoopAt, ToCome
  <2>6. ParentAt(l, rw2)
    <3> SUFFICES ASSUME l.parent # None
                 PROVE  /\ l.parent.row < Len(rw2[l.parent.table])
                        /\ rw2[l.parent.table][l.parent.row + 1].entity = l.parent.entity
      BY <1>4 DEF ParentAt, LoopAt
    <3>1. /\ l.parent.table \in TableType /\ l.parent.row \in Nat
          /\ l.parent.row < Len(st.rows[l.parent.table])
          /\ st.rows[l.parent.table][l.parent.row + 1].entity = l.parent.entity
      BY <1>4 DEF LoopAt, ParentAt, Parent
    <3>2. PICK s, s2, j : s = st.rows[l.parent.table] /\ s2 = rw2[l.parent.table]
                          /\ j = l.parent.row
      OBVIOUS
    <3>3. SameEntities(s, s2) /\ Len(s) \in Nat /\ j \in Nat /\ j < Len(s)
          /\ s[j + 1].entity = l.parent.entity
      BY <1>3, <3>1, <3>2
    <3>4. j + 1 \in 1 .. Len(s) /\ Len(s2) = Len(s)
      BY ONLY <3>3 DEF SameEntities
    <3> QED  BY <3>2, <3>3, <3>4 DEF SameEntities
  <2> QED  BY <1>4, <2>1, <2>3, <2>4, <2>5, <2>6 DEF LoopAt
<1> QED  BY <1>0, <1>2, <1>4, LessDue DEF Follows

\* Moves that are listed alike, between rows that are alike.
LEMMA FollowsAlike ==
    ASSUME NEW st, NEW st2, NEW st3, Follows(st, st2), st3.moves = st2.moves, st3.rows = st2.rows
    PROVE  Follows(st, st3)
BY DEF Follows, Movers

\* The table h comes to, and the others.
LEMMA RowAdded ==
    ASSUME NEW rw, DOMAIN rw = TableType, NEW t \in TableType, \A u \in TableType : rw[u] \in Seq(RowsOf(u)),
           NEW h, NEW val, NEW rw2, rw2 = AddRow(rw, t, h, val)
    PROVE  MoveMade(rw, rw2, [entity |-> h, table |-> t, joins |-> TRUE])
<1> PICK m : m = [entity |-> h, table |-> t, joins |-> TRUE]
  OBVIOUS
<1>1. m.entity = h /\ m.table = t /\ m.joins = TRUE
  OBVIOUS
<1>2. ASSUME NEW u \in TableType
      PROVE  TableMoves(rw[u], rw2[u], u, m)
  <2>0. PICK s, s2 : s = rw[u] /\ s2 = rw2[u]
    OBVIOUS
  <2>1. s \in Seq(RowsOf(u)) /\ Len(s) \in Nat
    BY <2>0
  <2>2. CASE u # t
    <3>1. s2 = s
      BY <2>0, <2>2 DEF AddRow
    <3> QED  BY <1>1, <2>0, <2>1, <2>2, <3>1 DEF TableMoves, SameEntities
  <2>3. CASE u = t
    <3>1. s2 = Append(s, [entity |-> h, value |-> val])
      BY <2>0, <2>3 DEF AddRow
    <3>2. JoinedBy(s, s2, h)
      BY <2>1, <3>1 DEF JoinedBy
    <3> QED  BY <1>1, <2>0, <2>1, <2>3, <3>2 DEF TableMoves
  <2> QED  BY <2>2, <2>3
<1> QED  BY <1>2 DEF MoveMade

\* The table a row is taken out of, and the others.
LEMMA RowTaken ==
    ASSUME NEW rw, NEW rw2, NEW t \in TableType, NEW r \in Nat, r < Len(rw[t]),
           \A u \in TableType : Len(rw[u]) \in Nat,
           \A u \in TableType : u # t => rw2[u] = rw[u],
           NEW T, rw[t] \in Seq(T), rw2[t] = SwapRemove(rw[t], r + 1),
           NEW e, e = rw[t][r + 1].entity
    PROVE  MoveMade(rw, rw2, [entity |-> e, table |-> t, joins |-> FALSE])
<1> PICK m : m = [entity |-> e, table |-> t, joins |-> FALSE]
  OBVIOUS
<1>1. m.entity = e /\ m.table = t /\ m.joins = FALSE
  OBVIOUS
<1>2. ASSUME NEW u \in TableType
      PROVE  TableMoves(rw[u], rw2[u], u, m)
  <2>0. PICK s, s2 : s = rw[u] /\ s2 = rw2[u]
    OBVIOUS
  <2>1. Len(s) \in Nat
    BY <2>0
  <2>2. CASE u # t
    BY <1>1, <2>0, <2>1, <2>2 DEF TableMoves, SameEntities
  <2>3. CASE u = t
    <3>1. s \in Seq(T) /\ s2 = SwapRemove(s, r + 1)
      BY <2>0, <2>3
    <3>2. r + 1 \in 1 .. Len(s) /\ s[r + 1].entity = e
      BY <2>0, <2>1, <2>3
    <3>3. IsLeft(s2, s, r)
      BY ONLY <3>1, r \in Nat, LeftRows
    <3>4. s # << >>
      BY <3>2
    <3>5. LeftBy(s, s2, e)
      <4>1. Len(s2) = Len(s) - 1
        BY ONLY <3>3, <3>4 DEF IsLeft
      <4>2. \A k \in 1 .. Len(s) - 1 :
                s2[k].entity = IF k = r + 1 THEN s[Len(s)].entity ELSE s[k].entity
        BY ONLY <3>3, <4>1 DEF IsLeft
      <4> QED  BY <3>2, <4>1, <4>2 DEF LeftBy
    <3> QED  BY <1>1, <2>0, <2>1, <2>3, <3>5 DEF TableMoves
  <2> QED  BY <2>2, <2>3
<1> QED  BY <1>2 DEF MoveMade

\* A migration is two moves: to a table and from a table, unless h is bare and
\* table 0 empty.  When h is bare and not listed it is another that leaves table 0.
LEMMA MoveFollows ==
    ASSUME NEW st, Sound(st), NEW h \in st.live,
           NEW to \in TableType, to # TypeIn(st, h)
    PROVE  Follows(st, MoveTo(st, h, to))
<1>0. PICK from, r, old, val, rc2, rw2, st2, m, mid :
          /\ from = TypeIn(st, h) /\ r = RowIn(st, h)
          /\ old = (IF from = RootType THEN << >> ELSE st.rows[from][r + 1].value)
          /\ val = Carried(old, from, to, [c \in to \ from |-> Unspecified])
          /\ rc2 = MigrateRec(st.rec, st.rows, h, from, to, r)
          /\ rw2 = MigrateRows(st.rows, h, from, to, r, val)
          /\ st2 = MoveTo(st, h, to)
          /\ m = [entity |-> h, table |-> to, joins |-> TRUE]
          /\ mid = [rows |-> AddRow(st.rows, to, h, val), moves |-> Append(st.moves, m)]
  OBVIOUS
<1>1. TablesRight(st.rec, st.rows, st.live) /\ IsStore(st)
  BY DEF Sound
<1>2. st2 = [st EXCEPT !.rec = rc2, !.rows = rw2,
                       !.moves = RowLeft(Append(@, m), st.rows, from, r)]
  BY <1>0 DEF MoveTo, MigrateIn
<1>3. st2.rows = rw2 /\ st2.moves = RowLeft(mid.moves, st.rows, from, r)
  BY Zenon, <1>0, <1>1, <1>2 DEF IsStore
<1>4. from = st.rec[h.index].type /\ r = st.rec[h.index].row
  BY Zenon, <1>0 DEF TypeIn, RowIn
<1>5. EntityAt(st.rec, st.rows, st.live, h, from, r)
  BY ONLY <1>1, <1>4, h \in st.live, LiveEntity
<1>6. MoveEffects(st.rec, st.rows, rc2, rw2, h, from, r, to, val)
  BY ONLY Zenon, <1>0, <1>1, <1>4, h \in st.live, to \in TableType, to # TypeIn(st, h), MoveHasEffects
<1>7. /\ from \in TableType /\ from # to /\ r \in Nat /\ h \in Handle
      /\ DOMAIN st.rows = TableType
      /\ \A u \in TableType : st.rows[u] \in Seq(RowsOf(u))
  BY <1>0, <1>1, <1>5 DEF EntityAt, TablesRight, Typed
<1>8. m \in Move
  BY <1>0, <1>7 DEF Move
<1>9. mid.rows = AddRow(st.rows, to, h, val) /\ mid.moves = Append(st.moves, m)
  BY <1>0
<1>10. MoveMade(st.rows, mid.rows, m)
  BY ONLY <1>0, <1>7, <1>9, to \in TableType, RowAdded
<1>11. Follows(st, mid)
  BY <1>8, <1>9, <1>10, FollowsMove
<1>12. /\ \A u \in TableType : u # to => mid.rows[u] = st.rows[u]
       /\ mid.rows[to] = Append(st.rows[to], [entity |-> h, value |-> val])
  BY <1>7, <1>9 DEF AddRow
<1>13. /\ \A u \in TableType : u # from => rw2[u] = mid.rows[u]
       /\ rw2[from] = SwapRemove(mid.rows[from], r + 1)
       /\ mid.rows[from] = st.rows[from]
  BY <1>6, <1>7, <1>12 DEF MoveEffects
<1>14. CASE r < Len(st.rows[from])
  <2>0. PICK e, n : e = st.rows[from][r + 1].entity
                    /\ n = [entity |-> e, table |-> from, joins |-> FALSE]
    OBVIOUS
  <2>1. Len(st.rows[from]) \in Nat
    BY <1>7
  <2>2. r + 1 \in 1 .. Len(st.rows[from])
    BY <1>7, <1>14, <2>1
  <2>3. e \in Handle
    <3>1. st.rows[from][r + 1] \in RowsOf(from)
      BY <1>7, <2>2
    <3> QED  BY <2>0, <3>1 DEF RowsOf
  <2>4. n \in Move
    BY <1>7, <2>0, <2>3 DEF Move
  <2>5. st2.moves = Append(mid.moves, n)
    BY <1>3, <1>14, <2>0 DEF RowLeft
  <2>6. \A u \in TableType : Len(mid.rows[u]) \in Nat
    <3>1. \A u \in TableType : Len(st.rows[u]) \in Nat
      BY <1>7
    <3>2. Len(mid.rows[to]) \in Nat
      <4>1. MoveMade(st.rows, mid.rows, m) /\ m.table = to /\ m.joins
        BY <1>0, <1>10
      <4>2. Len(mid.rows[to]) = Len(st.rows[to]) + 1
        BY <4>1 DEF MoveMade, TableMoves, JoinedBy
      <4> QED  BY <3>1, <4>2
    <3> QED  BY <1>12, <3>1, <3>2
  <2>7. r < Len(mid.rows[from]) /\ mid.rows[from] \in Seq(RowsOf(from))
        /\ e = mid.rows[from][r + 1].entity
    BY <1>7, <1>13, <1>14, <2>0
  <2>8. MoveMade(mid.rows, rw2, n)
    BY ONLY <1>7, <1>13, <2>0, <2>6, <2>7, RowTaken
  <2>9. Follows(mid, st2)
    BY <1>3, <2>4, <2>5, <2>8, FollowsMove
  <2> QED  BY <1>0, <1>11, <2>9, FollowsTwice
<1>15. CASE ~(r < Len(st.rows[from]))
  <2>1. st.rows[from] = << >>
    <3>1. ~At(st.rec, st.rows, h)
      BY <1>4, <1>15 DEF At
    <3>2. r = 0
      BY <1>1, <1>4, <3>1 DEF TablesRight, Placed
    <3>3. Len(st.rows[from]) \in Nat
      BY <1>7
    <3>4. Len(st.rows[from]) = 0
      BY <1>15, <3>2, <3>3
    <3> QED  BY <1>7, <3>4
  <2>2. rw2[from] = mid.rows[from]
    <3>1. rw2[from] = SwapRemove(<< >>, r + 1)
      BY <1>13, <2>1
    <3>2. SwapRemove(<< >>, r + 1) = << >>
      BY <1>7 DEF SwapRemove
    <3> QED  BY <1>13, <2>1, <3>1, <3>2
  <2>3. rw2 = mid.rows
    <3>1. rw2 = [u \in TableType |-> rw2[u]]
      BY <1>6 DEF MoveEffects
    <3>2. mid.rows = [u \in TableType |-> mid.rows[u]]
      BY <1>7, <1>9 DEF AddRow
    <3>3. \A u \in TableType : rw2[u] = mid.rows[u]
      BY <1>13, <2>2
    <3> QED  BY ONLY <3>1, <3>2, <3>3
  <2>4. st2.moves = mid.moves
    BY <1>3, <1>15 DEF RowLeft
  <2> QED  BY <1>0, <1>3, <1>11, <2>3, <2>4, FollowsAlike
<1> QED  BY <1>14, <1>15

\* A component is added unless it is there.
LEMMA AddFollows ==
    ASSUME NEW st, Sound(st), NEW h \in st.live, NEW c \in Component
    PROVE  Follows(st, AddIn(st, h, c))
<1>1. CASE c \in TypeIn(st, h)
  BY <1>1, FollowsItself DEF AddIn
<1>2. CASE c \notin TypeIn(st, h)
  <2>1. TypeIn(st, h) \in TableType
    BY ReadsContents
  <2>2. TypeIn(st, h) \cup {c} \in TableType /\ TypeIn(st, h) \cup {c} # TypeIn(st, h)
    BY <1>2, <2>1 DEF TableType
  <2> QED  BY <1>2, <2>2, MoveFollows DEF AddIn
<1> QED  BY <1>1, <1>2

\* It keeps the store in order.
LEMMA AddKeepsSound ==
    ASSUME NEW st, Sound(st), NEW h \in st.live, NEW c \in Component
    PROVE  Sound(AddIn(st, h, c)) /\ AddIn(st, h, c).live = st.live
<1>1. CASE c \in TypeIn(st, h)
  BY <1>1 DEF AddIn
<1>2. CASE c \notin TypeIn(st, h)
  <2>1. TypeIn(st, h) \in TableType
    BY ReadsContents
  <2>2. TypeIn(st, h) \cup {c} \in TableType /\ TypeIn(st, h) \cup {c} # TypeIn(st, h)
    BY <1>2, <2>1 DEF TableType
  <2> QED  BY <1>2, <2>2, MoveYields DEF AddIn, Yields
<1> QED  BY <1>1, <1>2

\* A component is added and written.
LEMMA AddPutFollows ==
    ASSUME NEW st, Sound(st), NEW h \in st.live, NEW c \in Component, NEW v
    PROVE  Follows(st, Put(AddIn(st, h, c), h, c, v))
<1>0. PICK st2 : st2 = AddIn(st, h, c)
  OBVIOUS
<1>1. Follows(st, st2) /\ Sound(st2) /\ h \in st2.live
  BY <1>0, AddFollows, AddKeepsSound
<1>2. Follows(st2, Put(st2, h, c, v))
  BY <1>1, PutFollows
<1> QED  BY <1>0, <1>1, <1>2, FollowsTwice

\* A list is removed.
LEMMA RemoveSourceFollows ==
    ASSUME NEW st, Sound(st), NEW p \in st.live,
           RelationSource \in TypeIn(st, p)
    PROVE  Follows(st, RemoveSource(st, p))
<1>0. PICK st1, t : st1 = Put(st, p, RelationSource, << >>) /\ t = TypeIn(st, p)
  OBVIOUS
<1>1. << >> \in Payload
  BY DEF Payload
<1>2. /\ Sound(st1) /\ p \in st1.live
      /\ Bar(st1) = [Bar(st) EXCEPT ![p] = Having(@, RelationSource, << >>)]
  BY <1>0, <1>1, PutYields DEF Yields
<1>3. p \in DOMAIN Bar(st) /\ t = DOMAIN Bar(st)[p] /\ t \in TableType
  BY <1>0, ReadsContents
<1>4. TypeIn(st1, p) = t
  <2>1. TypeIn(st1, p) = DOMAIN Bar(st1)[p]
    BY <1>2, TypeIsDomain
  <2>2. Bar(st1)[p] = Having(Bar(st)[p], RelationSource, << >>)
    BY <1>2, <1>3
  <2>3. RelationSource \in t
    BY <1>0
  <2> QED  BY <1>3, <2>1, <2>2, <2>3 DEF Having
<1>5. t \ {RelationSource} \in TableType /\ t \ {RelationSource} # t
  BY <1>0, <1>3 DEF TableType
<1>6. Follows(st1, MoveTo(st1, p, t \ {RelationSource}))
  BY <1>2, <1>4, <1>5, MoveFollows
<1>7. Follows(st, st1)
  BY <1>0, PutFollows
<1>8. RemoveSource(st, p) = MoveTo(st1, p, t \ {RelationSource})
  BY <1>0 DEF RemoveSource
<1> QED  BY <1>6, <1>7, <1>8, FollowsTwice

\* A child leaves its parent's list.
LEMMA LeaveFollows ==
    ASSUME NEW st, Sound(st), Linked(Bar(st)), NEW c \in st.live,
           RelationTarget \in TypeIn(st, c)
    PROVE  Follows(st, LeaveParent(st, c))
<1>0. PICK w, p, list, st1 :
          /\ w = Bar(st) /\ p = w[c][RelationTarget]
          /\ list = RemoveFrom(w[p][RelationSource], c)
          /\ st1 = Put(st, p, RelationSource, list)
  OBVIOUS
<1>1. DOMAIN w = st.live /\ RelationTarget \in DOMAIN w[c]
  BY <1>0, ReadsContents, TypeIsDomain
<1>2. /\ p \in st.live /\ RelationSource \in DOMAIN w[p]
      /\ Names(w[p][RelationSource], Kids(w, p))
  BY <1>0, <1>1, ParentListed
<1>3. /\ Readable(st, c, RelationTarget) /\ Get(st, c, RelationTarget) = p
  BY <1>0, ReadsContents
<1>4. RelationSource \in TypeIn(st, p)
  BY <1>0, <1>2, TypeIsDomain
<1>5. Readable(st, p, RelationSource) /\ Get(st, p, RelationSource) = w[p][RelationSource]
  BY <1>0, <1>2, <1>4, ReadsContents
<1>6. LeaveParent(st, c) = IF list = << >> THEN RemoveSource(st1, p) ELSE st1
  BY <1>0, <1>3, <1>5 DEF LeaveParent
<1>7. Follows(st, st1)
  BY <1>0, <1>2, PutFollows
<1>8. CASE list # << >>
  BY <1>6, <1>7, <1>8
<1>9. CASE list = << >>
  <2>1. list \in Payload
    BY <1>9 DEF Payload
  <2>2. Yields(st, st1, [w EXCEPT ![p] = Having(@, RelationSource, list)])
    BY <1>0, <1>2, <1>4, <2>1, PutYields
  <2>3. Sound(st1) /\ p \in st1.live /\ Bar(st1) = [w EXCEPT ![p] = Having(@, RelationSource, list)]
    BY <1>2, <2>2 DEF Yields
  <2>4. Bar(st1)[p] = Having(w[p], RelationSource, list)
    BY <1>1, <1>2, <2>3
  <2>5. RelationSource \in TypeIn(st1, p)
    <3>1. RelationSource \in DOMAIN Bar(st1)[p]
      BY <2>4 DEF Having
    <3> QED  BY <2>3, <3>1, TypeIsDomain
  <2>6. Follows(st1, RemoveSource(st1, p))
    BY <2>3, <2>5, RemoveSourceFollows
  <2> QED  BY <1>6, <1>7, <1>9, <2>6, FollowsTwice
<1> QED  BY <1>8, <1>9

\* Whoever had no parent leaves none.
LEMMA LeavingFollows ==
    ASSUME NEW st, Sound(st), Linked(Bar(st)), NEW c \in st.live
    PROVE  Follows(st, Leaving(st, c))
BY LeaveFollows, FollowsItself DEF Leaving

\* A child joins the list of a parent.
LEMMA JoinFollows ==
    ASSUME NEW st, Sound(st), NEW c \in st.live, NEW p \in st.live
    PROVE  Follows(st, JoinParent(st, c, p))
<1>1. AliveIn(st, p) /\ st.ok
  BY ReadsContents DEF Sound
<1>2. CASE RelationSource \in TypeIn(st, p)
  BY <1>1, <1>2, PutFollows DEF JoinParent
<1>3. CASE RelationSource \notin TypeIn(st, p)
  BY <1>1, <1>3, AddPutFollows, RelationsAssumption DEF JoinParent
<1> QED  BY <1>2, <1>3

\* World::relate, with the migrations of both parents and of the child.
LEMMA RelateFollows ==
    ASSUME NEW st, Sound(st), Linked(Bar(st)),
           NEW c \in st.live, NEW p \in st.live
    PROVE  Follows(st, RelateIn(st, c, p))
<1>0. PICK left, joined, done :
          /\ left = Leaving(st, c)
          /\ joined = JoinParent(left, c, p)
          /\ done = Put(AddIn(joined, c, RelationTarget), c, RelationTarget, p)
  OBVIOUS
<1>1. DOMAIN Bar(st) = st.live
  BY ReadsContents
<1>2. Yields(st, left, Bar(left)) /\ Delisted(Bar(st), Bar(left), c) /\ Follows(st, left)
  BY <1>0, LeavingYields, LeavingFollows
<1>3. /\ Sound(left) /\ c \in left.live /\ p \in left.live
      /\ HasList(Bar(left)[p], Kids(Bar(st), p) \ {c})
  BY <1>1, <1>2 DEF Yields, Delisted
<1>4. Yields(left, joined, Joined(Bar(left), c, p)) /\ Follows(left, joined)
  BY <1>0, <1>3, JoinYields, JoinFollows
<1>5. Sound(joined) /\ c \in joined.live /\ joined.ok
  BY <1>3, <1>4 DEF Yields, Sound
<1>6. Follows(joined, done)
  BY <1>0, <1>5, AddPutFollows, RelationsAssumption
<1>7. RelateIn(st, c, p) = done
  BY <1>0, <1>5 DEF RelateIn, Leaving
<1> QED  BY <1>2, <1>4, <1>6, <1>7, FollowsTwice

\* World::unrelate, where rows stay put.
LEMMA UnrelateFollows ==
    ASSUME NEW st, Sound(st), Linked(Bar(st)), NEW c \in st.live,
           RelationTarget \in TypeIn(st, c),
           NEW st2, st2 = RemoveTargetIn(st, c), st2.steady
    PROVE  Follows(st, st2)
<1>0. PICK hooked, from, r, old, moved, stays :
          /\ hooked = LeaveParent(st, c)
          /\ from = TypeIn(st, c) /\ r = RowIn(st, c)
          /\ old = (IF r < Len(hooked.rows[from]) THEN hooked.rows[from][r + 1].value
                    ELSE st.rows[from][r + 1].value)
          /\ moved = MigrateIn(hooked, c, from, from \ {RelationTarget}, r, old)
          /\ stays = (TypeIn(hooked, c) = from /\ RowIn(hooked, c) = r)
  OBVIOUS
<1>1. st2 = [moved EXCEPT !.steady = @ /\ stays]
  BY Zenon, <1>0 DEF RemoveTargetIn, RemoveIn
<1>2. hooked = Leaving(st, c) /\ RelationTarget \in from
  BY <1>0 DEF Leaving
<1>3. Yields(st, hooked, Bar(hooked)) /\ Follows(st, hooked)
  BY <1>2, LeavingYields, LeavingFollows
<1>4. Sound(hooked) /\ IsStore(hooked) /\ c \in hooked.live
  BY <1>3 DEF Yields, Sound
<1>5. IsStore(moved)
  BY <1>0, <1>4 DEF MigrateIn, IsStore
<1>6. /\ st2.rows = moved.rows /\ st2.moves = moved.moves
      /\ st2.steady = (moved.steady /\ stays)
  BY <1>1, <1>5 DEF IsStore
<1>7. TypeIn(hooked, c) = from /\ RowIn(hooked, c) = r
  BY <1>0, <1>6
<1>8. moved = MoveTo(hooked, c, from \ {RelationTarget})
  <2>1. r < Len(hooked.rows[from])
    BY <1>2, <1>4, <1>7, ReadsContents DEF Readable
  <2>2. from # RootType
    BY <1>2 DEF RootType
  <2> QED  BY <1>0, <1>7, <2>1, <2>2 DEF MoveTo
<1>9. from \ {RelationTarget} \in TableType /\ from \ {RelationTarget} # from
  <2>1. from \in TableType
    BY <1>0, ReadsContents
  <2> QED  BY <1>2, <2>1 DEF TableType
<1>10. Follows(hooked, moved)
  BY <1>4, <1>7, <1>8, <1>9, MoveFollows
<1>11. Follows(st, moved)
  BY <1>3, <1>10, FollowsTwice
<1> QED  BY <1>6, <1>11 DEF Follows, Movers

\* An entity that is destroyed makes one move; table 0 is left alone.
LEMMA RetireFollows ==
    ASSUME NEW st, Sound(st), NEW h \in st.live, NEW t, NEW r,
           t = TypeIn(st, h), r = RowIn(st, h), NEW st2, st2 = RetireFrom(st, h, t, r)
    PROVE  Follows(st, st2)
<1>0. PICK rw, rw2, mv2 :
          /\ rw = st.rows
          /\ rw2 = (IF t = RootType THEN rw ELSE RemoveRow(rw, t, r))
          /\ mv2 = (IF t = RootType THEN st.moves ELSE RowLeft(st.moves, rw, t, r))
  OBVIOUS
<1>1. TablesRight(st.rec, rw, st.live) /\ IsStore(st)
  BY <1>0 DEF Sound
<1>2. st2.rows = rw2 /\ st2.moves = mv2
  BY <1>0, <1>1 DEF RetireFrom, IsStore
<1>3. EntityAt(st.rec, rw, st.live, h, t, r)
  <2>1. t = st.rec[h.index].type /\ r = st.rec[h.index].row
    BY DEF TypeIn, RowIn
  <2> QED  BY ONLY <1>1, <2>1, h \in st.live, LiveEntity
<1>4. CASE t = RootType
  BY <1>0, <1>2, <1>4, FollowsItself, FollowsAlike
<1>5. CASE t # RootType
  <2>1. /\ t \in TableType /\ r \in Nat /\ h \in Handle /\ DOMAIN rw = TableType
        /\ \A u \in TableType : rw[u] \in Seq(RowsOf(u))
        /\ r + 1 \in 1 .. Len(rw[t]) /\ rw[t][r + 1].entity = h
    BY <1>1, <1>3, <1>5 DEF EntityAt, TablesRight, Typed
  <2>2. \A u \in TableType : Len(rw[u]) \in Nat
    BY <2>1
  <2>3. r < Len(rw[t])
    BY <2>1, <2>2
  <2>4. PICK m : m = [entity |-> h, table |-> t, joins |-> FALSE]
    OBVIOUS
  <2>5. m \in Move
    BY <2>1, <2>4 DEF Move
  <2>6. mv2 = Append(st.moves, m)
    BY <1>0, <1>5, <2>1, <2>3, <2>4 DEF RowLeft
  <2>7. /\ \A u \in TableType : u # t => rw2[u] = rw[u]
        /\ rw2[t] = SwapRemove(rw[t], r + 1)
    BY <1>0, <1>5, <2>1 DEF RemoveRow
  <2>8. MoveMade(rw, rw2, m)
    BY ONLY <2>1, <2>2, <2>3, <2>4, <2>7, RowTaken
  <2> QED  BY <1>0, <1>2, <2>5, <2>6, <2>8, FollowsMove
<1> QED  BY <1>4, <1>5

\* destroyEntity of an entity that is no parent, with its parent's migration.
LEMMA DestroyFollows ==
    ASSUME NEW st, Sound(st), Linked(Bar(st)), NEW h \in st.live,
           RelationSource \notin TypeIn(st, h)
    PROVE  Follows(st, DestroyIn(st, h))
<1>0. PICK left, t, r : left = Leaving(st, h) /\ t = TypeIn(st, h) /\ r = RowIn(left, h)
  OBVIOUS
<1>1. /\ Yields(st, left, Bar(left)) /\ Delisted(Bar(st), Bar(left), h)
      /\ Follows(st, left)
  BY <1>0, LeavingYields, LeavingFollows
<1>2. Sound(left) /\ left.live = st.live /\ h \in left.live
  BY <1>1 DEF Yields
<1>3. DOMAIN Bar(st) = st.live /\ t = DOMAIN Bar(st)[h]
  BY <1>0, ReadsContents
<1>4. TypeIn(left, h) = t
  <2>1. Bar(left)[h] = Bar(st)[h]
    BY <1>0, <1>1, <1>3 DEF Delisted
  <2>2. TypeIn(left, h) = DOMAIN Bar(left)[h]
    BY <1>2, TypeIsDomain
  <2> QED  BY <1>3, <2>1, <2>2
<1>5. DestroyIn(st, h) = RetireFrom(left, h, t, r)
  BY <1>0 DEF DestroyIn, RetireIn, Leaving
<1>6. Follows(left, DestroyIn(st, h))
  BY <1>0, <1>2, <1>4, <1>5, RetireFollows
<1> QED  BY <1>1, <1>6, FollowsTwice

-----------------------------------------------------------------------------
(* The inductive invariant of loops *)

\* Every running loop goes on as it should in the storage as it is.
LoopInv ==
    /\ RelInv
    /\ tables \subseteq TableType
    /\ loops \in Seq(Loop)
    /\ \A k \in 1 .. Len(loops) : LoopAt(loops[k], loops[k].due, rows)

\* The due of a loop is told apart from the loop where it is shortened.
LEMMA DueShortened ==
    ASSUME NEW l, NEW gone, NEW rw, LoopAt(l, l.due \ gone, rw),
           NEW l2, l2 = [l EXCEPT !.due = @ \ gone]
    PROVE  LoopAt(l2, l2.due, rw)
<1>1. l \in Loop
  BY DEF LoopAt
<1>2. l2 \in Loop /\ l2.due = l.due \ gone
  BY <1>1 DEF Loop
<1>3. /\ l2.kind = l.kind /\ l2.query = l.query /\ l2.todo = l.todo /\ l2.table = l.table
      /\ l2.size = l.size /\ l2.row = l.row /\ l2.parent = l.parent /\ l2.visited = l.visited
  BY <1>1 DEF Loop
<1> QED  BY <1>2, <1>3 DEF LoopAt, TableAt, ToCome, ParentAt

\* Nothing is moved yet.
LEMMA StoreUnmoved == Store.moves = << >> /\ Store.moves \in Seq(Move) /\ Store.rows = rows
BY DEF Store

\* An operation that keeps the storage in order, and disturbs no loop, keeps
\* every loop where it is.
LEMMA OperationKeeps ==
    ASSUME LoopInv, NEW st, Sound(st), Linked(Bar(st)), Follows(Store, st), Operation(st)
    PROVE  LoopInv'
<1>0. PICK n, gone : n = Len(loops) /\ gone = Movers(st)
  OBVIOUS
<1>1. RelInv'
  BY BecomesKeeps DEF LoopInv, Operation
<1>2. /\ st.moves \in Seq(Move)
      /\ \A l, due : LoopAt(l, due, rows) /\ (\A m \in Range(st.moves) : Undisturbed(l, m))
                         => LoopAt(l, due \ gone, st.rows)
  BY <1>0, StoreUnmoved DEF Follows
<1>3. rows' = st.rows
  BY DEF Operation, Becomes, Sound
<1>4. loops \in Seq(Loop) /\ n \in Nat /\ DOMAIN loops = 1 .. n
  BY <1>0 DEF LoopInv
<1>5. loops' = [k \in 1 .. n |-> [loops[k] EXCEPT !.due = @ \ gone]]
  BY <1>0, <1>4 DEF Operation, Movers
<1>6. \A k \in 1 .. n : loops[k] \in Range(loops)
  BY <1>4 DEF Range
<1>7. \A k \in 1 .. n : LoopAt(loops'[k], loops'[k].due, rows')
  <2>1. ASSUME NEW k \in 1 .. n
        PROVE  LoopAt(loops'[k], loops'[k].due, rows')
    <3>0. PICK l, l2 : l = loops[k] /\ l2 = loops'[k]
      OBVIOUS
    <3>1. LoopAt(l, l.due, rows)
      BY <1>0, <3>0 DEF LoopInv
    <3>2. \A m \in Range(st.moves) : Undisturbed(l, m)
      BY <1>6, <3>0 DEF Operation, Harmless
    <3>3. LoopAt(l, l.due \ gone, st.rows)
      BY <1>2, <3>1, <3>2
    <3>4. l2 = [l EXCEPT !.due = @ \ gone]
      BY <1>5, <3>0
    <3> QED  BY <1>3, <3>0, <3>3, <3>4, DueShortened
  <2> QED  BY <2>1
<1>8. loops' \in Seq(Loop) /\ Len(loops') = n
  <2>1. \A k \in 1 .. n : loops'[k] \in Loop
    BY <1>7 DEF LoopAt
  <2>2. DOMAIN loops' = 1 .. n
    BY <1>5
  <2> QED  BY <1>4, <1>5, <2>1, <2>2
<1>9. tables' \subseteq TableType
  <2>1. \A m \in Range(st.moves) : m \in Move
    BY <1>2 DEF Range
  <2>2. \A m \in Range(st.moves) : m.table \in TableType
    BY <2>1 DEF Move
  <2> QED  BY <2>2 DEF Operation, LoopInv
<1>10. (\A k \in 1 .. Len(loops) : LoopAt(loops[k], loops[k].due, rows))'
  BY <1>7, <1>8
<1> QED  BY <1>1, <1>8, <1>9, <1>10 DEF LoopInv

\* What the invariant says while only loops change.
LEMMA StorageRests ==
    ASSUME LoopInv, UNCHANGED <<opVars, tables>>
    PROVE  RelInv' /\ rows' = rows /\ tables' \subseteq TableType
<1>1. (/\ TablesRight(rec, rows, live) /\ FreeRight(rec, free, live)
       /\ Linked(ContentsOf(rec, rows, live)) /\ ~aborted)'
  BY InvariantParts DEF LoopInv, opVars
<1>2. RelInv'
  BY <1>1, InvariantParts, PTL
<1> QED  BY <1>2 DEF LoopInv, opVars

\* The innermost loop goes on to where it should be.
LEMMA InnermostKeeps ==
    ASSUME LoopInv, UNCHANGED <<opVars, tables>>, loops # << >>,
           NEW l2, LoopAt(l2, l2.due, rows), loops' = [loops EXCEPT ![Len(loops)] = l2]
    PROVE  LoopInv'
<1>0. PICK n : n = Len(loops)
  OBVIOUS
<1>1. RelInv' /\ rows' = rows /\ tables' \subseteq TableType
  BY StorageRests
<1>2. loops \in Seq(Loop) /\ n \in Nat /\ n \in 1 .. n /\ DOMAIN loops = 1 .. n
  BY <1>0 DEF LoopInv
<1>3. l2 \in Loop
  BY DEF LoopAt
<1>4. loops' \in Seq(Loop) /\ Len(loops') = n
  BY <1>0, <1>2, <1>3
<1>5. \A k \in 1 .. n : loops'[k] = IF k = n THEN l2 ELSE loops[k]
  BY <1>0, <1>2
<1>6. (\A k \in 1 .. Len(loops) : LoopAt(loops[k], loops[k].due, rows))'
  BY <1>0, <1>1, <1>4, <1>5 DEF LoopInv
<1> QED  BY <1>1, <1>4, <1>6 DEF LoopInv

\* The innermost loop is where it should be.
LEMMA InnermostAt ==
    ASSUME LoopInv, loops # << >>
    PROVE  LoopAt(Innermost, Innermost.due, rows) /\ Innermost = loops[Len(loops)]
<1>1. Innermost = loops[Len(loops)]
  BY DEF Innermost, Last
<1>2. loops \in Seq(Loop) /\ Len(loops) \in 1 .. Len(loops)
  BY DEF LoopInv
<1> QED  BY <1>1, <1>2 DEF LoopInv

\* The rows of a table belong to live entities of the type.
LEMMA RowOwner ==
    ASSUME RelInv, NEW t \in TableType, NEW k \in 1 .. Len(rows[t]), NEW g, g = rows[t][k].entity
    PROVE  g \in live /\ rec[g.index].type = t /\ rec[g.index].row = k - 1 /\ k \in Nat
<1>1. TablesRight(rec, rows, live)
  BY InvariantParts
<1> QED  BY <1>1 DEF TablesRight, Backed, RecordedAt

\* Live entities are in the rows, but for bare ones that table 0 does not list.
LEMMA RowFound ==
    ASSUME RelInv, NEW g \in live, TypeOf(g) # RootType \/ Listed(g)
    PROVE  /\ Behind(rows[TypeOf(g)], 0, g) /\ TypeOf(g) \in TableType
           /\ rec[g.index].row \in Nat /\ rec[g.index].row < Len(rows[TypeOf(g)])
           /\ rows[TypeOf(g)][rec[g.index].row + 1].entity = g
<1>0. PICK t, r : t = rec[g.index].type /\ r = rec[g.index].row
  OBVIOUS
<1>1. TablesRight(rec, rows, live)
  BY InvariantParts
<1>2. EntityAt(rec, rows, live, g, t, r)
  BY <1>0, <1>1, LiveEntity
<1>3. t = TypeOf(g) /\ r \in Nat /\ t \in TableType /\ Len(rows[t]) \in Nat
  BY <1>0, <1>2 DEF TypeOf, EntityAt
<1>a. r + 1 \in 1 .. Len(rows[t]) /\ rows[t][r + 1].entity = g
  <2>1. CASE t # RootType
    BY <1>2, <2>1 DEF EntityAt
  <2>2. CASE Listed(g)
    <3>1. r < Len(rows[t]) /\ rows[t][r + 1].entity = g
      BY <1>0, <1>3, <2>2 DEF Listed, RowOfEntity
    <3> QED  BY <1>3, <3>1
  <2> QED  BY <1>3, <2>1, <2>2
<1>4. r < Len(rows[t]) /\ r + 1 > 0
  BY <1>3, <1>a
<1> QED  BY <1>0, <1>3, <1>a, <1>4 DEF Behind

\* A loop begins: everyone who matches is to come.
LEMMA BeginKeeps ==
    ASSUME IterationAssumption, LoopInv, NEW kind \in {"system", "runtime"},
           NEW q \in Query, BeginLoop(kind, q)
    PROVE  LoopInv'
<1>0. PICK l : l = [kind |-> kind, query |-> q, todo |-> ToVisit(q),
                    table |-> None, size |-> 0, row |-> 0, parent |-> None,
                    visited |-> {},
                    due |-> {h \in live : TypeOf(h) \in ToVisit(q) /\ Listed(h)}]
  OBVIOUS
<1>1. loops' = Append(loops, l) /\ UNCHANGED <<opVars, tables>>
  BY <1>0 DEF BeginLoop
<1>2. RelInv /\ tables \subseteq TableType /\ loops \in Seq(Loop) /\ live \subseteq Handle
  <2>1. TablesRight(rec, rows, live)
    BY InvariantParts DEF LoopInv
  <2> QED  BY <2>1 DEF LoopInv, TablesRight, Typed
<1>3. l \in Loop
  BY <1>0, <1>2 DEF Loop, ToVisit
<1>4. \A t \in l.todo : t \in TableType /\ Matches(q, t) /\ t # l.table
  BY <1>0, <1>2 DEF ToVisit, IterationAssumption
<1>5. \A g \in l.due : ToCome(l, rows, g)
  <2>1. ASSUME NEW g \in l.due
        PROVE  ToCome(l, rows, g)
    <3>1. g \in live /\ TypeOf(g) \in l.todo /\ Listed(g)
      BY <1>0
    <3> QED  BY <1>2, <3>1, RowFound DEF ToCome
  <2> QED  BY <2>1
<1>6. LoopAt(l, l.due, rows)
  BY <1>0, <1>3, <1>4, <1>5 DEF LoopAt, ParentAt
<1>7. RelInv' /\ rows' = rows /\ tables' \subseteq TableType
  BY <1>1, StorageRests
<1>8. PICK n : n = Len(loops)
  OBVIOUS
<1>9. loops' \in Seq(Loop) /\ Len(loops') = n + 1 /\ n \in Nat
      /\ \A k \in 1 .. n + 1 : loops'[k] = IF k = n + 1 THEN l ELSE loops[k]
  BY <1>1, <1>2, <1>3, <1>8
<1>10. (\A k \in 1 .. Len(loops) : LoopAt(loops[k], loops[k].due, rows))'
  <2>1. \A k \in 1 .. n : LoopAt(loops[k], loops[k].due, rows)
    BY <1>8 DEF LoopInv
  <2>2. \A k \in 1 .. n + 1 : k = n + 1 \/ k \in 1 .. n
    BY <1>9
  <2> QED  BY <1>6, <1>7, <1>9, <2>1, <2>2
<1> QED  BY <1>7, <1>9, <1>10 DEF LoopInv

\* It ends.
LEMMA EndKeeps ==
    ASSUME LoopInv, EndLoop
    PROVE  LoopInv'
<1>0. PICK n : n = Len(loops)
  OBVIOUS
<1>1. RelInv' /\ rows' = rows /\ tables' \subseteq TableType
  BY StorageRests DEF EndLoop
<1>2. loops \in Seq(Loop) /\ loops # << >> /\ loops' = SubSeq(loops, 1, n - 1)
  BY <1>0 DEF LoopInv, EndLoop, Front
<1>3. n \in Nat /\ n # 0 /\ loops' \in Seq(Loop) /\ Len(loops') = n - 1
      /\ \A k \in 1 .. n - 1 : k \in 1 .. n /\ loops'[k] = loops[k]
  BY <1>0, <1>2
<1>4. (\A k \in 1 .. Len(loops) : LoopAt(loops[k], loops[k].due, rows))'
  BY <1>0, <1>1, <1>3 DEF LoopInv
<1> QED  BY <1>1, <1>3, <1>4 DEF LoopInv

\* In its table, a loop asks for as many rows as there are.
LEMMA SizeIsLength ==
    ASSUME NEW l, NEW due, LoopAt(l, due, rows)
    PROVE  /\ l.table = None => Size(l) = 0
           /\ l.table # None => Size(l) = Len(rows[l.table])
           /\ l.row \in Nat
BY DEF LoopAt, Loop, Size, TableAt

\* When the loop has called all rows of its table, nobody there is to come.
LEMMA NobodyBehind ==
    ASSUME RelInv, NEW l, NEW due, LoopAt(l, due, rows), l.row >= Size(l), l.table # None, NEW g
    PROVE  ~Behind(rows[l.table], l.row, g)
<1>0. PICK s, r : s = rows[l.table] /\ r = l.row
  OBVIOUS
<1>1. r >= Len(s) /\ r \in Nat
  BY <1>0, SizeIsLength
<1>2. l.table \in TableType
  BY DEF LoopAt, Loop
<1>3. s \in Seq(RowsOf(l.table))
  BY <1>0, <1>2, InvariantParts DEF TablesRight, Typed
<1>4. Len(s) \in Nat
  BY <1>3
<1>5. \A k \in 1 .. Len(s) : ~(k > r)
  BY <1>1, <1>4
<1> QED  BY <1>0, <1>5 DEF Behind

\* It comes to the next table.
LEMMA NextKeeps ==
    ASSUME IterationAssumption, LoopInv, NextTable
    PROVE  LoopInv'
<1>0. PICK l : l = Innermost
  OBVIOUS
<1>1. LoopAt(l, l.due, rows) /\ l = loops[Len(loops)] /\ loops # << >> /\ l.row >= Size(l)
  BY <1>0, InnermostAt DEF NextTable, EndOfTable
<1>2. PICK t \in l.todo :
          loops' = [loops EXCEPT ![Len(loops)] =
                       [l EXCEPT !.todo = @ \ {t}, !.table = t, !.parent = None,
                                 !.size = SizeFound(t), !.row = 0]]
  BY <1>0 DEF NextTable
<1>3. PICK l2, s : /\ l2 = [l EXCEPT !.todo = @ \ {t}, !.table = t, !.parent = None,
                                     !.size = SizeFound(t), !.row = 0]
                   /\ s = rows[t]
  OBVIOUS
<1>4. loops' = [loops EXCEPT ![Len(loops)] = l2]
  BY <1>2, <1>3
<1>5. l \in Loop /\ t \in TableType /\ RelInv
  BY <1>1 DEF LoopAt, Loop, LoopInv
<1>6. Len(s) \in Nat
  <2>1. s \in Seq(RowsOf(t))
    BY <1>3, <1>5, InvariantParts DEF TablesRight, Typed
  <2> QED  BY <2>1
<1>7. /\ l2 \in Loop /\ l2.todo = l.todo \ {t} /\ l2.table = t /\ l2.parent = None
      /\ l2.size = Len(s) /\ l2.row = 0 /\ l2.kind = l.kind /\ l2.query = l.query
      /\ l2.visited = l.visited /\ l2.due = l.due
  BY <1>3, <1>5, <1>6 DEF Loop, SizeFound
<1>8. TableAt(l2, s)
  <2>1. \A g \in l.visited : ~Behind(s, 0, g)
    BY <1>1, <1>3 DEF LoopAt
  <2> QED  BY <1>6, <1>7, <2>1 DEF TableAt
<1>9. \A g \in l.due : g \in l.visited \/ ToCome(l2, rows, g)
  <2>1. ASSUME NEW g \in l.due, g \notin l.visited
        PROVE  ToCome(l2, rows, g)
    <3>1. ToCome(l, rows, g)
      BY <1>1, <2>1 DEF LoopAt
    <3>2. ~(l.table # None /\ Behind(rows[l.table], l.row, g))
      BY <1>1, <1>5, NobodyBehind
    <3>3. PICK u \in l.todo : Behind(rows[u], 0, g)
      BY <3>1, <3>2 DEF ToCome
    <3>4. CASE u = t
      <4>1. t # None
        BY <1>5 DEF IterationAssumption
      <4> QED  BY <1>7, <3>3, <3>4, <4>1 DEF ToCome
    <3>5. CASE u # t
      BY <1>7, <3>3, <3>5 DEF ToCome
    <3> QED  BY <3>4, <3>5
  <2> QED  BY <2>1
<1>10. LoopAt(l2, l2.due, rows)
  <2>1. \A u \in l2.todo : Matches(l2.query, u) /\ u # l2.table
    BY <1>1, <1>7 DEF LoopAt
  <2>2. Matches(l2.query, l2.table)
    BY <1>1, <1>7 DEF LoopAt
  <2>3. \A u \in l2.todo : \A g \in l2.visited : ~Behind(rows[u], 0, g)
    BY <1>1, <1>7 DEF LoopAt
  <2>4. l2.table # None
    BY <1>5, <1>7 DEF IterationAssumption
  <2> QED  BY <1>3, <1>7, <1>8, <1>9, <2>1, <2>2, <2>3, <2>4 DEF LoopAt, ParentAt
<1> QED  BY <1>1, <1>4, <1>10, InnermostKeeps DEF NextTable

\* The row that Related gives for an entity with a target is the target's.
LEMMA RelatedFound ==
    ASSUME RelInv, NEW t \in TableType, NEW k \in 1 .. Len(rows[t]), RelationTarget \in t,
           NEW p, p = RelatedOf(t, k)
    PROVE  /\ p \in Parent
           /\ p.row < Len(rows[p.table]) /\ rows[p.table][p.row + 1].entity = p.entity
<1>0. PICK e, w, g : e = rows[t][k].entity /\ w = Bar(Store) /\ g = w[e][RelationTarget]
  OBVIOUS
<1>1. e \in live /\ rec[e.index].type = t /\ rec[e.index].row = k - 1 /\ k \in Nat
  BY <1>0, RowOwner
<1>2. TypeIn(Store, e) = t /\ RowIn(Store, e) + 1 = k /\ TypeOf(e) = t
  BY <1>1, StoreFields DEF TypeIn, RowIn, TypeOf
<1>3. DOMAIN w = live /\ DOMAIN w[e] = t /\ Linked(w) /\ Get(Store, e, RelationTarget) = g
  BY <1>0, <1>1, <1>2, ReadsStore
<1>4. g = rows[t][k].value[RelationTarget]
  BY <1>2, <1>3, StoreFields DEF Get
<1>5. g \in live /\ RelationSource \in DOMAIN w[g]
  BY <1>0, <1>1, <1>3, ParentListed
<1>6. TypeOf(g) # RootType /\ g \in Handle
  <2>1. TypeOf(g) = DOMAIN w[g]
    BY <1>0, <1>5, ReadsStore
  <2>2. g \in Handle
    BY <1>5, InvariantParts DEF TablesRight, Typed
  <2> QED  BY <1>5, <2>1, <2>2 DEF RootType
<1>7. /\ TypeOf(g) \in TableType /\ rec[g.index].row \in Nat
      /\ rec[g.index].row < Len(rows[TypeOf(g)])
      /\ rows[TypeOf(g)][rec[g.index].row + 1].entity = g
  BY <1>5, <1>6, RowFound
<1>8. p = [entity |-> g, table |-> TypeOf(g), row |-> rec[g.index].row]
  BY <1>4 DEF RelatedOf, TypeOf
<1> QED  BY <1>6, <1>7, <1>8 DEF Parent

\* A call: the entity in the next row is live and matches, and was not called before.
LEMMA NextEntity ==
    ASSUME RelInv, NEW l, NEW due, LoopAt(l, due, rows), ~(l.row >= Size(l)),
           NEW r, r = l.row + 1, NEW s, s = rows[l.table], NEW e, e = s[r].entity
    PROVE  /\ l.table \in TableType /\ l.table # None /\ Len(s) \in Nat /\ Matches(l.query, l.table)
           /\ r \in 1 .. Len(s) /\ l.row \in Nat
           /\ e \in live /\ e \in Handle /\ TypeOf(e) = l.table
           /\ e \notin l.visited
           /\ ~Behind(s, r, e)
           /\ \A t \in TableType : t # l.table => ~Behind(rows[t], 0, e)
<1>1. l.table # None /\ l.row \in Nat
  BY SizeIsLength
<1>2. l.table \in TableType /\ TableAt(l, s) /\ Matches(l.query, l.table)
  BY <1>1 DEF LoopAt, Loop
<1>3. l.row < Len(s) /\ Len(s) \in Nat
  <2>1. s \in Seq(RowsOf(l.table))
    BY <1>2, InvariantParts DEF TablesRight, Typed
  <2>2. Len(s) \in Nat
    BY <2>1
  <2> QED  BY <1>1, <2>2, SizeIsLength
<1>4. r \in 1 .. Len(s) /\ r > l.row
  BY <1>1, <1>3
<1>5. e \in live /\ rec[e.index].type = l.table /\ rec[e.index].row = r - 1
  BY <1>2, <1>4, RowOwner
<1>6. e \notin l.visited
  <2>1. Behind(s, l.row, e)
    BY <1>4 DEF Behind
  <2> QED  BY <1>2, <2>1 DEF TableAt
<1>7. ~Behind(s, r, e)
  <2> SUFFICES ASSUME NEW k \in 1 .. Len(s), k > r, s[k].entity = e
               PROVE  FALSE
    BY DEF Behind
  <2>1. rec[e.index].row = k - 1
    BY <1>2, RowOwner
  <2> QED  BY <1>4, <1>5, <2>1
<1>8. ASSUME NEW t \in TableType, t # l.table
      PROVE  ~Behind(rows[t], 0, e)
  <2> SUFFICES ASSUME NEW k \in 1 .. Len(rows[t]), rows[t][k].entity = e
               PROVE  FALSE
    BY DEF Behind
  <2>1. rec[e.index].type = t
    BY RowOwner
  <2> QED  BY <1>5, <1>8, <2>1
<1>9. e \in Handle /\ TypeOf(e) = l.table
  BY <1>5, InvariantParts DEF TablesRight, Typed, TypeOf
<1> QED  BY <1>1, <1>2, <1>3, <1>4, <1>5, <1>6, <1>7, <1>8, <1>9

\* It calls the next row.
LEMMA CallKeeps ==
    ASSUME LoopInv, CallRow
    PROVE  LoopInv'
<1>0. PICK l, r, s, e, l2 :
          /\ l = Innermost /\ r = l.row + 1 /\ s = rows[l.table] /\ e = s[r].entity
          /\ l2 = [l EXCEPT !.row = r, !.visited = @ \cup {e},
                            !.parent = IF RelationTarget \in l.query.with
                                       THEN RelatedOf(l.table, r) ELSE None]
  OBVIOUS
<1>1. /\ loops # << >> /\ ~(l.row >= Size(l)) /\ UNCHANGED <<opVars, tables>>
      /\ loops' = [loops EXCEPT ![Len(loops)] = l2]
  BY Zenon, <1>0 DEF CallRow, EndOfTable
<1>2. LoopAt(l, l.due, rows) /\ RelInv
  BY <1>0, <1>1, InnermostAt DEF LoopInv
<1>3. /\ l.table \in TableType /\ l.table # None /\ Len(s) \in Nat /\ Matches(l.query, l.table)
      /\ r \in 1 .. Len(s) /\ l.row \in Nat
      /\ e \in live /\ e \in Handle /\ TypeOf(e) = l.table
      /\ e \notin l.visited
      /\ ~Behind(s, r, e)
      /\ \A t \in TableType : t # l.table => ~Behind(rows[t], 0, e)
  BY ONLY <1>0, <1>1, <1>2, NextEntity
<1>4. PICK p : p = IF RelationTarget \in l.query.with THEN RelatedOf(l.table, r) ELSE None
  OBVIOUS
<1>5. p # None => /\ p \in Parent
                  /\ p.row < Len(rows[p.table]) /\ rows[p.table][p.row + 1].entity = p.entity
  <2> SUFFICES ASSUME p # None
               PROVE  /\ p \in Parent
                      /\ p.row < Len(rows[p.table])
                      /\ rows[p.table][p.row + 1].entity = p.entity
    OBVIOUS
  <2>1. RelationTarget \in l.table /\ p = RelatedOf(l.table, r)
    BY <1>3, <1>4 DEF Matches
  <2>2. r \in 1 .. Len(rows[l.table])
    BY <1>0, <1>3
  <2> QED  BY ONLY <1>2, <1>3, <2>1, <2>2, RelatedFound
<1>6. l \in Loop
  BY <1>2 DEF LoopAt
<1>7. l2 = [l EXCEPT !.row = r, !.visited = @ \cup {e}, !.parent = p]
  BY <1>0, <1>4
<1>b. r \in Nat /\ (l.visited \cup {e}) \in SUBSET Handle /\ p \in {None} \cup Parent
  BY <1>3, <1>5, <1>6 DEF Loop
<1>8. /\ l2 \in Loop /\ l2.todo = l.todo /\ l2.table = l.table /\ l2.parent = p
      /\ l2.size = l.size /\ l2.row = r /\ l2.kind = l.kind /\ l2.query = l.query
      /\ l2.visited = l.visited \cup {e} /\ l2.due = l.due
  BY <1>6, <1>7, <1>b DEF Loop
<1>9. \A n \in 1 .. Len(s) : n > r <=> n > l.row /\ n # r
  BY <1>0, <1>3
<1>10. TableAt(l2, s)
  <2>1. TableAt(l, s)
    BY <1>0, <1>2, <1>3 DEF LoopAt
  <2>2. \A k \in 1 .. r : k = r \/ k \in 1 .. l.row
    BY <1>0, <1>3
  <2>3. \A g \in l.visited : ~Behind(s, r, g)
    BY <1>9, <2>1 DEF TableAt, Behind
  <2>4. \A k \in 1 .. r : s[k].entity \in l2.visited
    BY <1>0, <1>8, <2>1, <2>2 DEF TableAt
  <2>5. \A g \in l2.visited : ~Behind(s, r, g)
    BY <1>3, <1>8, <2>3
  <2> QED  BY <1>3, <1>8, <2>1, <2>4, <2>5 DEF TableAt
<1>11. \A t \in l2.todo : \A g \in l2.visited : ~Behind(rows[t], 0, g)
  <2>1. \A t \in l.todo : t \in TableType /\ t # l.table
    BY <1>2, <1>6 DEF LoopAt, Loop
  <2>2. \A t \in l.todo : \A g \in l.visited : ~Behind(rows[t], 0, g)
    BY <1>2 DEF LoopAt
  <2> QED  BY <1>3, <1>8, <2>1, <2>2
<1>12. \A g \in l2.due : g \in l2.visited \/ ToCome(l2, rows, g)
  <2>1. ASSUME NEW g \in l.due, g \notin l2.visited
        PROVE  ToCome(l2, rows, g)
    <3>1. ToCome(l, rows, g)
      BY <1>2, <1>8, <2>1 DEF LoopAt
    <3>2. Behind(s, l.row, g) => Behind(s, r, g)
      BY <1>0, <1>8, <1>9, <2>1 DEF Behind
    <3> QED  BY <1>0, <1>8, <3>1, <3>2 DEF ToCome
  <2> QED  BY <1>8, <2>1
<1>13. LoopAt(l2, l2.due, rows)
  <2>1. \A t \in l2.todo : Matches(l2.query, t) /\ t # l2.table
    BY <1>2, <1>8 DEF LoopAt
  <2>2. l2.table # None /\ Matches(l2.query, l2.table) /\ TableAt(l2, rows[l2.table])
    BY <1>0, <1>3, <1>8, <1>10
  <2>3. ParentAt(l2, rows)
    BY <1>5, <1>8 DEF ParentAt
  <2> QED  BY <1>8, <1>11, <1>12, <2>1, <2>2, <2>3 DEF LoopAt
<1> QED  BY <1>1, <1>13, InnermostKeeps

\* A component without hooks comes or goes.
LEMMA ChangePlainKeeps ==
    ASSUME LoopInv, NEW h \in live, ChangePlain(h)
    PROVE  LoopInv'
<1>1. PICK c \in Component \ {RelationTarget, RelationSource} :
          Operation(IF c \in TypeOf(h) THEN MoveTo(Store, h, TypeOf(h) \ {c})
                    ELSE AddIn(Store, h, c))
  BY DEF ChangePlain
<1>2. RelInv
  BY DEF LoopInv
<1>3. /\ Sound(Store) /\ Linked(Bar(Store)) /\ h \in Store.live
      /\ TypeIn(Store, h) = TypeOf(h) /\ TypeOf(h) \in TableType
  BY <1>2, ReadsStore
<1>4. PICK to : to = IF c \in TypeOf(h) THEN TypeOf(h) \ {c} ELSE TypeOf(h) \cup {c}
  OBVIOUS
<1>5. PICK st : st = MoveTo(Store, h, to)
  OBVIOUS
<1>6. Operation(st)
  BY <1>1, <1>3, <1>4, <1>5 DEF AddIn
<1>7. /\ to \in {TypeIn(Store, h) \cup {c}, TypeIn(Store, h) \ {c}}
      /\ to # TypeIn(Store, h) /\ to \in TableType
  BY <1>3, <1>4 DEF TableType
<1>8. Sound(st) /\ Linked(Bar(st))
  BY <1>3, <1>5, <1>7, PlainKeeps
<1>9. Follows(Store, st)
  BY <1>3, <1>5, <1>7, MoveFollows
<1> QED  BY <1>6, <1>8, <1>9, OperationKeeps

\* Entities are related, and unrelated where rows stay put.
LEMMA ChangeRelationKeeps ==
    ASSUME LoopInv, NEW h \in live, ChangeRelation(h)
    PROVE  LoopInv'
<1>1. PICK p \in live : \/ Operation(RelateIn(Store, h, p))
                        \/ HasTarget(h, p) /\ Operation(RemoveTargetIn(Store, h))
  BY DEF ChangeRelation
<1>2. RelInv
  BY DEF LoopInv
<1>3. /\ Sound(Store) /\ Linked(Bar(Store)) /\ h \in Store.live /\ p \in Store.live
  BY <1>2, ReadsStore
<1>4. ASSUME Operation(RelateIn(Store, h, p))
      PROVE  LoopInv'
  <2>1. PICK st : st = RelateIn(Store, h, p)
    OBVIOUS
  <2>2. Sound(st) /\ Linked(Bar(st))
    BY <1>3, <2>1, RelateKeeps DEF Yields
  <2>3. Follows(Store, st)
    BY <1>3, <2>1, RelateFollows
  <2> QED  BY <1>4, <2>1, <2>2, <2>3, OperationKeeps
<1>5. ASSUME HasTarget(h, p), Operation(RemoveTargetIn(Store, h))
      PROVE  LoopInv'
  <2>1. PICK st : st = RemoveTargetIn(Store, h)
    OBVIOUS
  <2>2. Operation(st) /\ st.steady /\ RelationTarget \in TypeIn(Store, h)
    BY <1>5, <2>1 DEF HasTarget, Readable, Operation
  <2>3. Sound(st) /\ Linked(Bar(st))
    BY <1>3, <2>1, <2>2, UnrelateKeeps DEF Yields
  <2>4. Follows(Store, st)
    BY <1>3, <2>1, <2>2, UnrelateFollows
  <2> QED  BY <2>2, <2>3, <2>4, OperationKeeps
<1> QED  BY <1>1, <1>4, <1>5

\* An entity that is no parent is destroyed.
LEMMA DestroyKeepsLoops ==
    ASSUME LoopInv, NEW h \in live, MayDestroy(h),
           Operation(DestroyIn(Store, h))
    PROVE  LoopInv'
<1>0. PICK st : st = DestroyIn(Store, h)
  OBVIOUS
<1>1. RelInv
  BY DEF LoopInv
<1>2. /\ Sound(Store) /\ Linked(Bar(Store)) /\ h \in Store.live /\ TypeIn(Store, h) = TypeOf(h)
  BY <1>1, ReadsStore
<1>3. RelationSource \notin TypeIn(Store, h)
  BY <1>2 DEF MayDestroy, IsParent
<1>4. ~(TypeIn(Store, h) = RootType /\ At(Store.rec, Store.rows, h))
  BY <1>2, StoreFields DEF MayDestroy, Listed, TypeOf, RowOfEntity, At
<1>5. Sound(st) /\ Linked(Bar(st))
  BY <1>0, <1>2, <1>3, <1>4, DestroyKeeps
<1>6. Follows(Store, st)
  BY <1>0, <1>2, <1>3, DestroyFollows
<1> QED  BY <1>0, <1>5, <1>6, OperationKeeps

\* An entity is created: it is in no table that a loop goes through.
LEMMA CreateKeepsLoops ==
    ASSUME LoopInv, Create, UNCHANGED <<tables, loops>>
    PROVE  LoopInv'
<1>1. RelInv'
  BY NewIndexKeeps, RecycledIndexKeeps DEF LoopInv, Create, CreateEntity
<1>2. rows' = rows
  BY DEF Create, CreateEntity, NewIndex, RecycledIndex
<1> QED  BY <1>1, <1>2 DEF LoopInv

\* The invariant is inductive.
LEMMA LoopStep ==
    ASSUME IterationAssumption, LoopInv, [LoopNext]_loopVars
    PROVE  LoopInv'
<1>1. ASSUME Create, UNCHANGED <<tables, loops>>
      PROVE  LoopInv'
  BY <1>1, CreateKeepsLoops
<1>2. ASSUME NEW h \in live, ChangePlain(h) \/ ChangeRelation(h)
      PROVE  LoopInv'
  BY <1>2, ChangePlainKeeps, ChangeRelationKeeps
<1>3. ASSUME NEW h \in live, MayDestroy(h), Operation(DestroyIn(Store, h))
      PROVE  LoopInv'
  BY <1>3, DestroyKeepsLoops
<1>4. ASSUME NEW kind \in {"system", "runtime"}, NEW q \in Query, BeginLoop(kind, q)
      PROVE  LoopInv'
  BY <1>4, BeginKeeps
<1>5. CASE NextTable \/ CallRow \/ EndLoop
  BY <1>5, NextKeeps, CallKeeps, EndKeeps
<1>6. CASE UNCHANGED loopVars
  <2>1. UNCHANGED <<opVars, tables>> /\ loops' = loops
    BY <1>6 DEF loopVars
  <2>2. RelInv' /\ rows' = rows /\ tables' \subseteq TableType
    BY <2>1, StorageRests
  <2> QED  BY <2>1, <2>2 DEF LoopInv
<1> QED  BY <1>1, <1>2, <1>3, <1>4, <1>5, <1>6 DEF LoopNext

\* It holds at the start and for ever.
LEMMA LoopInvariance ==
    ASSUME IterationAssumption
    PROVE  LoopSpec => []LoopInv
<1>1. LoopInit => LoopInv
  <2> SUFFICES ASSUME LoopInit PROVE LoopInv
    OBVIOUS
  <2>1. RelInv
    BY RelationInit DEF LoopInit
  <2> QED  BY <2>1 DEF LoopInit, LoopInv, IterationAssumption
<1>2. LoopInv /\ [LoopNext]_loopVars => LoopInv'
  BY LoopStep
<1> QED  BY <1>1, <1>2, PTL DEF LoopSpec

-----------------------------------------------------------------------------
(* Theorems about loops *)

\* Loops read rows that are there, and those behind them are of the entities they
\* called, whatever their callbacks do under the discipline: for every number of
\* entities, depth of loops and number of changes.
THEOREM LoopsAreSafe ==
    ASSUME IterationAssumption
    PROVE  LoopSpec => []LoopsReadLiveRows
<1>1. LoopInv => LoopsReadLiveRows
  <2> SUFFICES ASSUME LoopInv, NEW l \in Range(loops), l.table # None
               PROVE  /\ Size(l) <= Len(rows[l.table]) /\ l.row <= Len(rows[l.table])
                      /\ \A k \in 1 .. l.row : rows[l.table][k].entity \in l.visited
    BY DEF LoopsReadLiveRows
  <2>1. PICK k \in 1 .. Len(loops) : l = loops[k]
    BY DEF Range, LoopInv
  <2>2. LoopAt(l, l.due, rows)
    BY <2>1 DEF LoopInv
  <2>3. Size(l) = Len(rows[l.table])
    BY <2>2, SizeIsLength
  <2>4. l.table \in TableType /\ TableAt(l, rows[l.table])
    BY <2>2 DEF LoopAt, Loop
  <2>5. rows[l.table] \in Seq(RowsOf(l.table))
    BY <2>4, InvariantParts DEF LoopInv, TablesRight, Typed
  <2>6. Len(rows[l.table]) <= Len(rows[l.table])
    BY <2>5
  <2> QED  BY <2>3, <2>4, <2>6 DEF TableAt
<1> QED  BY <1>1, LoopInvariance, PTL

\* While a callback runs, its Related is the row of a live entity, although
\* operations of the callback move others.
THEOREM RelatedIsSafe ==
    ASSUME IterationAssumption
    PROVE  LoopSpec => []RelatedIsParent
<1>1. LoopInv => RelatedIsParent
  <2> SUFFICES ASSUME LoopInv, NEW l \in Range(loops), l.parent # None
               PROVE  /\ l.parent.entity \in live
                      /\ l.parent.row < Len(rows[l.parent.table])
                      /\ rows[l.parent.table][l.parent.row + 1].entity = l.parent.entity
    BY DEF RelatedIsParent
  <2>1. PICK k \in 1 .. Len(loops) : l = loops[k]
    BY DEF Range, LoopInv
  <2>0. PICK p, s, r : p = l.parent /\ s = rows[p.table] /\ r = p.row
    OBVIOUS
  <2>2. /\ p \in Parent /\ r < Len(s) /\ s[r + 1].entity = p.entity /\ RelInv
    BY <2>0, <2>1 DEF LoopInv, LoopAt, ParentAt
  <2>3. p.table \in TableType /\ r \in Nat
    BY <2>0, <2>2 DEF Parent
  <2>4. s \in Seq(RowsOf(p.table))
    BY <2>0, <2>2, <2>3, InvariantParts DEF TablesRight, Typed
  <2>5. r + 1 \in 1 .. Len(s)
    BY <2>2, <2>3, <2>4
  <2>6. p.entity \in live
    <3>1. PICK t, j, g : t = p.table /\ j = r + 1 /\ g = p.entity
      OBVIOUS
    <3>2. t \in TableType /\ j \in 1 .. Len(rows[t]) /\ g = rows[t][j].entity
      BY <2>0, <2>2, <2>3, <2>5, <3>1
    <3>3. g \in live
      BY ONLY <2>2, <3>2, RowOwner
    <3> QED  BY <3>1, <3>3
  <2> QED  BY <2>0, <2>2, <2>6
<1> QED  BY <1>1, LoopInvariance, PTL

\* A step that moves a loop on to a row calls it.
LEMMA OnlyCallsMoveOn ==
    ASSUME LoopInv, [LoopNext]_loopVars, NEW k \in DOMAIN loops \cap DOMAIN loops',
           loops'[k].row > loops[k].row
    PROVE  CallRow /\ k = Len(loops)
<1>0. PICK n : n = Len(loops)
  OBVIOUS
<1>1. loops \in Seq(Loop) /\ n \in Nat /\ DOMAIN loops = 1 .. n
  BY <1>0 DEF LoopInv
<1>2. loops[k] \in Loop /\ k \in 1 .. n
  BY <1>1
<1>3. loops[k].row \in Nat /\ ~(loops[k].row > loops[k].row) /\ ~(0 > loops[k].row)
  BY <1>2 DEF Loop
<1>4. loops' # loops
  BY <1>3
<1>5. ASSUME NEW st, Operation(st)
      PROVE  FALSE
  <2>1. loops'[k] = [loops[k] EXCEPT !.due = @ \ {m.entity : m \in Range(st.moves)}]
    BY <1>5 DEF Operation
  <2>2. loops'[k].row = loops[k].row
    BY <1>2, <2>1 DEF Loop
  <2> QED  BY <1>3, <2>2
<1>6. ASSUME NEW kind, NEW q, BeginLoop(kind, q)
      PROVE  FALSE
  <2>1. PICK l : loops' = Append(loops, l)
    BY <1>6 DEF BeginLoop
  <2>2. loops'[k] = loops[k]
    BY <1>0, <1>1, <1>2, <2>1
  <2> QED  BY <1>3, <2>2
<1>7. ~NextTable
  <2> SUFFICES ASSUME NextTable PROVE FALSE
    OBVIOUS
  <2>1. PICK t : loops' = [loops EXCEPT ![Len(loops)] =
                              [Innermost EXCEPT !.todo = @ \ {t}, !.table = t, !.parent = None,
                                                !.size = SizeFound(t), !.row = 0]]
    BY DEF NextTable
  <2>2. Innermost \in Loop
    BY InnermostAt DEF NextTable, LoopAt
  <2>3. loops'[k] = IF k = n THEN [Innermost EXCEPT !.todo = @ \ {t}, !.table = t,
                                       !.parent = None, !.size = SizeFound(t), !.row = 0]
                    ELSE loops[k]
    BY <1>0, <1>1, <1>2, <2>1
  <2>4. k = n => loops'[k].row = 0
    BY <2>2, <2>3 DEF Loop
  <2> QED  BY <1>3, <2>3, <2>4
<1>8. ~EndLoop
  <2> SUFFICES ASSUME EndLoop PROVE FALSE
    OBVIOUS
  <2>1. loops' = SubSeq(loops, 1, n - 1) /\ loops # << >>
    BY <1>0 DEF EndLoop, Front
  <2>2. n # 0 /\ DOMAIN loops' = 1 .. n - 1
    BY <1>0, <1>1, <2>1
  <2>3. loops'[k] = loops[k]
    BY <1>0, <1>1, <2>1, <2>2
  <2> QED  BY <1>3, <2>3
<1>9. CallRow
  BY <1>4, <1>5, <1>6, <1>7, <1>8 DEF LoopNext, loopVars, ChangePlain, ChangeRelation
<1>10. k = n
  <2>1. PICK l2 : loops' = [loops EXCEPT ![Len(loops)] = l2]
    BY <1>9 DEF CallRow
  <2>2. k # n => loops'[k] = loops[k]
    BY <1>0, <1>1, <1>2, <2>1
  <2> QED  BY <1>3, <2>2
<1> QED  BY <1>0, <1>9, <1>10

\* Only a loop that ends makes them fewer.
LEMMA OnlyEndsMakeFewer ==
    ASSUME LoopInv, [LoopNext]_loopVars, Len(loops') < Len(loops)
    PROVE  EndLoop
<1>0. PICK n : n = Len(loops)
  OBVIOUS
<1>1. loops \in Seq(Loop) /\ n \in Nat /\ DOMAIN loops = 1 .. n
  BY <1>0 DEF LoopInv
<1>2. Len(loops') # n /\ Len(loops') # n + 1
  BY <1>0, <1>1
<1>3. ASSUME NEW st, Operation(st)
      PROVE  FALSE
  <2>1. loops' = [k \in 1 .. n |-> [loops[k] EXCEPT !.due = @ \ {m.entity : m \in Range(st.moves)}]]
    BY <1>1, <1>3 DEF Operation
  <2>2. \A k \in 1 .. n : loops'[k] \in {loops'[j] : j \in 1 .. n}
    OBVIOUS
  <2>3. loops' \in Seq({loops'[j] : j \in 1 .. n}) /\ DOMAIN loops' = 1 .. n
    BY <1>1, <2>1, <2>2
  <2> QED  BY <1>1, <1>2, <2>3
<1>4. ASSUME NEW kind, NEW q, BeginLoop(kind, q)
      PROVE  FALSE
  <2>1. PICK l : loops' = Append(loops, l)
    BY <1>4 DEF BeginLoop
  <2> QED  BY <1>0, <1>1, <1>2, <2>1
<1>5. ~(NextTable \/ CallRow)
  <2> SUFFICES ASSUME NextTable \/ CallRow PROVE FALSE
    OBVIOUS
  <2>1. PICK l2 : loops' = [loops EXCEPT ![Len(loops)] = l2]
    BY DEF NextTable, CallRow
  <2>2. Len(loops') = n
    BY <1>0, <1>1, <2>1
  <2> QED  BY <1>2, <2>2
<1> QED  BY <1>0, <1>2, <1>3, <1>4, <1>5 DEF LoopNext, loopVars, ChangePlain, ChangeRelation

\* A loop calls entities that match, none twice, and before it ends everyone who
\* was in a row of a table that matched when it began and was left there since.
THEOREM LoopsVisitEveryoneOnce ==
    ASSUME IterationAssumption
    PROVE  LoopSpec => EveryoneVisitedOnce
<1>1. LoopInv /\ [LoopNext]_loopVars => VisitsOnce
  <2> SUFFICES ASSUME LoopInv, [LoopNext]_loopVars PROVE VisitsOnce
    OBVIOUS
  <2>1. ASSUME NEW k \in DOMAIN loops \cap DOMAIN loops', loops'[k].row > loops[k].row
        PROVE  LET h == rows[loops[k].table][loops'[k].row].entity
               IN  h \notin loops[k].visited /\ Matches(loops[k].query, TypeOf(h))
    <3>0. PICK l, r, s, e : /\ l = Innermost /\ r = l.row + 1 /\ s = rows[l.table]
                            /\ e = s[r].entity
      OBVIOUS
    <3>1. CallRow /\ k = Len(loops)
      BY <2>1, OnlyCallsMoveOn
    <3>2. LoopAt(l, l.due, rows) /\ l = loops[k] /\ RelInv
      BY <3>0, <3>1, InnermostAt DEF CallRow, LoopInv
    <3>3. ~(l.row >= Size(l))
      BY <3>0, <3>1 DEF CallRow, EndOfTable
    <3>4. e \notin l.visited /\ TypeOf(e) = l.table /\ Matches(l.query, l.table)
      BY ONLY <3>0, <3>2, <3>3, NextEntity
    <3>5. loops'[k].row = r
      <4>1. l \in Loop
        BY <3>2 DEF LoopAt
      <4>2. PICK v, p : loops' = [loops EXCEPT ![k] = [l EXCEPT !.row = r, !.visited = v, !.parent = p]]
        BY Zenon, <3>0, <3>1 DEF CallRow
      <4>3. loops'[k] = [l EXCEPT !.row = r, !.visited = v, !.parent = p]
        BY <2>1, <4>2
      <4> QED  BY <4>1, <4>3 DEF Loop
    <3> QED  BY <3>0, <3>2, <3>4, <3>5
  <2>2. ASSUME Len(loops') < Len(loops)
        PROVE  Innermost.due \subseteq Innermost.visited
    <3>1. EndLoop
      BY <2>2, OnlyEndsMakeFewer
    <3>2. PICK l : l = Innermost
      OBVIOUS
    <3>3. LoopAt(l, l.due, rows) /\ RelInv /\ l.row >= Size(l) /\ l.todo = {}
      BY <3>1, <3>2, InnermostAt DEF EndLoop, EndOfTable, LoopInv
    <3>4. \A g \in l.due : g \in l.visited \/ ToCome(l, rows, g)
      BY <3>3 DEF LoopAt
    <3>5. \A g : ~ToCome(l, rows, g)
      BY <3>3, NobodyBehind DEF ToCome
    <3> QED  BY <3>2, <3>4, <3>5
  <2> QED  BY <2>1, <2>2 DEF VisitsOnce
<1>2. LoopSpec => [][VisitsOnce]_loopVars
  BY <1>1, LoopInvariance, PTL DEF LoopSpec
<1> QED  BY <1>2 DEF EveryoneVisitedOnce

-----------------------------------------------------------------------------
(* Component hooks: what a call runs through until it is known to have gone well *)

\* A sequence, whatever its elements are.
IsSeq(s) == Len(s) \in Nat /\ s = [k \in 1 .. Len(s) |-> s[k]]

Shaped(st) == IsStore(st) /\ IsSeq(st.rec)

\* The limits of Storage are kept, and no removal has gone wrong.
Bounded(st) ==
    /\ st.ok /\ st.steady
    /\ Len(st.rec) <= MaxEntities
    /\ \A g \in st.dead : g.generation < Generations - 1

\* What is bounded after a call was so before it.
Grows(st, st2) ==
    Shaped(st) => /\ Shaped(st2) /\ st.dead \subseteq st2.dead
                  /\ Bounded(st2) => Bounded(st)

\* A sequence some of whose elements are replaced.
LEMMA SameLength ==
    ASSUME NEW s, IsSeq(s), NEW s2, s2 = [k \in DOMAIN s |-> s2[k]]
    PROVE  IsSeq(s2) /\ Len(s2) = Len(s)
<1>1. PICK n : n = Len(s)
  OBVIOUS
<1>2. n \in Nat /\ DOMAIN s = 1 .. n
  BY <1>1 DEF IsSeq
<1>3. s2 \in Seq({s2[k] : k \in 1 .. n}) /\ DOMAIN s2 = 1 .. n
  BY <1>2
<1>4. Len(s2) = n
  BY <1>2, <1>3
<1> QED  BY <1>1, <1>2, <1>4 DEF IsSeq

\* A sequence with one more element.
LEMMA OneLonger ==
    ASSUME NEW s, IsSeq(s), NEW e
    PROVE  IsSeq(Append(s, e)) /\ Len(Append(s, e)) = Len(s) + 1
<1>1. PICK n, s2 : n = Len(s) /\ s2 = Append(s, e)
  OBVIOUS
<1>2. n \in Nat /\ DOMAIN s = 1 .. n /\ s = [k \in 1 .. n |-> s[k]]
  BY <1>1 DEF IsSeq
<1>3. s \in Seq({s[k] : k \in 1 .. n} \cup {e})
  BY <1>2
<1>4. s2 \in Seq({s[k] : k \in 1 .. n} \cup {e}) /\ Len(s2) = n + 1
  BY <1>1, <1>3
<1>5. s2 = [k \in 1 .. n + 1 |-> s2[k]] /\ n + 1 \in Nat
  BY <1>2, <1>4
<1> QED  BY <1>1, <1>4, <1>5 DEF IsSeq

\* Nothing happens.
LEMMA GrowsItself ==
    ASSUME NEW st
    PROVE  Grows(st, st)
BY DEF Grows

\* One thing after another.
LEMMA GrowsTwice ==
    ASSUME NEW st, NEW st2, NEW st3, Grows(st, st2), Grows(st2, st3)
    PROVE  Grows(st, st3)
BY DEF Grows

\* An assertion fails.
LEMMA AbortGrows ==
    ASSUME NEW st
    PROVE  Grows(st, Abort(st)) /\ (IsStore(st) => ~Bounded(Abort(st)))
<1> SUFFICES ASSUME IsStore(st) PROVE Grows(st, Abort(st)) /\ ~Bounded(Abort(st))
  BY DEF Grows, Shaped
<1>1. PICK st2 : st2 = Abort(st)
  OBVIOUS
<1>2. /\ IsStore(st2) /\ st2.rec = st.rec /\ st2.dead = st.dead /\ st2.ok = FALSE
  BY <1>1 DEF Abort, IsStore
<1> QED  BY <1>1, <1>2 DEF Grows, Shaped, Bounded

\* A component is written.
LEMMA PutGrows ==
    ASSUME NEW st, NEW h, NEW c, NEW v
    PROVE  Grows(st, Put(st, h, c, v))
<1> SUFFICES ASSUME Shaped(st) PROVE Grows(st, Put(st, h, c, v))
  BY DEF Grows
<1>1. PICK st2 : st2 = Put(st, h, c, v)
  OBVIOUS
<1>2. PICK rw : st2 = [st EXCEPT !.rows = rw]
  BY <1>1 DEF Put, Shaped, IsStore
<1>3. /\ IsStore(st2) /\ st2.rec = st.rec /\ st2.dead = st.dead
      /\ st2.ok = st.ok /\ st2.steady = st.steady
  BY <1>2 DEF Shaped, IsStore
<1> QED  BY <1>1, <1>3 DEF Grows, Shaped, Bounded

\* The records are changed, not their number.
LEMMA RecordsChange ==
    ASSUME NEW rc, NEW rw, NEW i, NEW t, NEW r, NEW u
    PROVE  /\ FixSwapped(rc, rw, t, r) = [k \in DOMAIN rc |-> FixSwapped(rc, rw, t, r)[k]]
              \/ FixSwapped(rc, rw, t, r) = rc
           /\ Relocate(rc, i, u, r) = [k \in DOMAIN rc |-> Relocate(rc, i, u, r)[k]]
           /\ Retire(rc, i) = [k \in DOMAIN rc |-> Retire(rc, i)[k]]
BY DEF FixSwapped, Relocate, Retire

\* So there are as many.
LEMMA RecordsCount ==
    ASSUME NEW rc, IsSeq(rc), NEW rw, NEW i, NEW t, NEW r, NEW u
    PROVE  /\ IsSeq(FixSwapped(rc, rw, t, r)) /\ Len(FixSwapped(rc, rw, t, r)) = Len(rc)
           /\ IsSeq(Relocate(rc, i, u, r)) /\ Len(Relocate(rc, i, u, r)) = Len(rc)
           /\ IsSeq(Retire(rc, i)) /\ Len(Retire(rc, i)) = Len(rc)
<1>0. PICK fixed, placed, retired :
          /\ fixed = FixSwapped(rc, rw, t, r) /\ placed = Relocate(rc, i, u, r)
          /\ retired = Retire(rc, i)
  OBVIOUS
<1>1. /\ fixed = [k \in DOMAIN rc |-> fixed[k]] \/ fixed = rc
      /\ placed = [k \in DOMAIN rc |-> placed[k]]
      /\ retired = [k \in DOMAIN rc |-> retired[k]]
  BY <1>0, RecordsChange
<1>2. IsSeq(fixed) /\ Len(fixed) = Len(rc)
  BY <1>1, SameLength
<1>3. IsSeq(placed) /\ Len(placed) = Len(rc)
  BY <1>1, SameLength
<1>4. IsSeq(retired) /\ Len(retired) = Len(rc)
  BY <1>1, SameLength
<1> QED  BY <1>0, <1>2, <1>3, <1>4

\* A migration.
LEMMA MigrateGrows ==
    ASSUME NEW st, NEW h, NEW from, NEW to, NEW r, NEW old
    PROVE  Grows(st, MigrateIn(st, h, from, to, r, old))
<1> SUFFICES ASSUME Shaped(st) PROVE Grows(st, MigrateIn(st, h, from, to, r, old))
  BY DEF Grows
<1>1. PICK st2, rc, fixed : /\ st2 = MigrateIn(st, h, from, to, r, old)
                            /\ rc = MigrateRec(st.rec, st.rows, h, from, to, r)
                            /\ fixed = FixSwapped(st.rec, st.rows, from, r)
  OBVIOUS
<1>2. IsSeq(fixed) /\ Len(fixed) = Len(st.rec)
  BY <1>1, RecordsCount DEF Shaped
<1>3. IsSeq(rc) /\ Len(rc) = Len(st.rec)
  <2>1. rc = Relocate(fixed, h.index, to, Len(st.rows[to]))
    BY <1>1 DEF MigrateRec
  <2>2. LET u == Relocate(fixed, h.index, to, Len(st.rows[to]))
        IN  IsSeq(u) /\ Len(u) = Len(fixed)
    BY ONLY <1>2, RecordsCount
  <2> QED  BY ONLY <1>2, <2>1, <2>2
<1>4. PICK rw, mv : st2 = [st EXCEPT !.rec = rc, !.rows = rw, !.moves = mv]
  BY <1>1 DEF MigrateIn, Shaped, IsStore
<1>5. /\ IsStore(st2) /\ st2.rec = rc /\ st2.dead = st.dead
      /\ st2.ok = st.ok /\ st2.steady = st.steady
  BY <1>4 DEF Shaped, IsStore
<1> QED  BY <1>1, <1>3, <1>5 DEF Grows, Shaped, Bounded

\* One before which no hook has run.
LEMMA MoveGrows ==
    ASSUME NEW st, NEW h, NEW to
    PROVE  Grows(st, MoveTo(st, h, to))
BY MigrateGrows DEF MoveTo

\* A removal.
LEMMA RemoveGrows ==
    ASSUME NEW st, NEW hooked, NEW h, NEW c
    PROVE  Grows(hooked, RemoveIn(st, hooked, h, c))
<1> SUFFICES ASSUME Shaped(hooked) PROVE Grows(hooked, RemoveIn(st, hooked, h, c))
  BY DEF Grows
<1>1. PICK from, to, r, old, stays, moved, st2 :
          /\ from = TypeIn(st, h) /\ to = from \ {c} /\ r = RowIn(st, h)
          /\ old = (IF r < Len(hooked.rows[from]) THEN hooked.rows[from][r + 1].value
                    ELSE st.rows[from][r + 1].value)
          /\ stays = (TypeIn(hooked, h) = from /\ RowIn(hooked, h) = r)
          /\ moved = MigrateIn(hooked, h, from, to, r, old)
          /\ st2 = RemoveIn(st, hooked, h, c)
  OBVIOUS
<1>2. Grows(hooked, moved)
  BY <1>1, MigrateGrows
<1>3. st2 = [moved EXCEPT !.steady = @ /\ stays]
  BY Zenon, <1>1 DEF RemoveIn
<1>4. Shaped(moved) /\ hooked.dead \subseteq moved.dead /\ (Bounded(moved) => Bounded(hooked))
  BY <1>2 DEF Grows
<1>5. /\ IsStore(st2) /\ st2.rec = moved.rec /\ st2.dead = moved.dead
      /\ st2.ok = moved.ok /\ st2.steady = (moved.steady /\ stays)
  BY <1>3, <1>4 DEF Shaped, IsStore
<1> QED  BY <1>1, <1>4, <1>5 DEF Grows, Shaped, Bounded

\* A destruction, after which h is dead.
LEMMA RetireGrows ==
    ASSUME NEW st, NEW h, NEW t, NEW r
    PROVE  /\ Grows(st, RetireFrom(st, h, t, r))
           /\ Shaped(st) => h \in RetireFrom(st, h, t, r).dead
<1> SUFFICES ASSUME Shaped(st)
             PROVE  /\ Grows(st, RetireFrom(st, h, t, r))
                    /\ h \in RetireFrom(st, h, t, r).dead
  BY DEF Grows
<1>1. PICK st2, rc, fixed : /\ st2 = RetireFrom(st, h, t, r)
                            /\ fixed = (IF t = RootType THEN st.rec
                                        ELSE FixSwapped(st.rec, st.rows, t, r))
                            /\ rc = Retire(fixed, h.index)
  OBVIOUS
<1>2. IsSeq(fixed) /\ Len(fixed) = Len(st.rec)
  BY <1>1, RecordsCount DEF Shaped
<1>3. IsSeq(rc) /\ Len(rc) = Len(st.rec)
  BY <1>1, <1>2, RecordsCount
<1>4. /\ IsStore(st2) /\ st2.rec = rc /\ st2.dead = st.dead \cup {h}
      /\ st2.ok = st.ok /\ st2.steady = (st.steady /\ TypeIn(st, h) = t)
  BY <1>1 DEF RetireFrom, Shaped, IsStore
<1> QED  BY <1>1, <1>3, <1>4 DEF Grows, Shaped, Bounded

\* A creation.
LEMMA CreateGrows ==
    ASSUME NEW st
    PROVE  Grows(st, CreateIn(st))
<1> SUFFICES ASSUME Shaped(st) PROVE Grows(st, CreateIn(st))
  BY DEF Grows
<1>1. PICK st2, rc, i : /\ st2 = CreateIn(st) /\ i = Last(st.free)
                        /\ rc = IF st.free = << >>
                                THEN Append(st.rec, [type |-> RootType, row |-> 0, generation |-> 0])
                                ELSE Relocate(st.rec, i, RootType, 0)
  OBVIOUS
<1>2. IsSeq(rc) /\ Len(rc) >= Len(st.rec)
  <2>1. IsSeq(st.rec) /\ Len(st.rec) \in Nat
    BY DEF Shaped, IsSeq
  <2>2. CASE st.free = << >>
    BY <1>1, <2>1, <2>2, OneLonger
  <2>3. CASE st.free # << >>
    BY <1>1, <2>1, <2>3, RecordsCount
  <2> QED  BY <2>2, <2>3
<1>3. /\ IsStore(st2) /\ st2.rec = rc /\ st2.dead = st.dead
      /\ st2.ok = st.ok /\ st2.steady = st.steady
  BY <1>1 DEF CreateIn, Shaped, IsStore
<1>4. Len(rc) \in Nat /\ Len(st.rec) \in Nat
  BY <1>2 DEF IsSeq, Shaped
<1> QED  BY <1>1, <1>2, <1>3, <1>4, StorageAssumption DEF Grows, Shaped, Bounded

\* What an onRemove hook does.
LEMMA SimpleGrows ==
    ASSUME NEW st, NEW h, NEW action \in OnRemove
    PROVE  Grows(st, Simple(st, h, action))
<1>1. CASE ~Passes(st, h)
  BY <1>1, AbortGrows DEF Simple
<1>2. \A p : Grows(st, AddIn(st, p, Other))
  BY MoveGrows, GrowsItself DEF AddIn
<1>3. \A p : Grows(st, RemoveOther(st, p))
  BY MoveGrows, GrowsItself DEF RemoveOther
<1>4. Grows(st, ChangeAnother(st, h))
  BY <1>2, <1>3, GrowsItself DEF ChangeAnother
<1>5. CASE Passes(st, h)
  <2>1. CASE action = "none"
    BY <1>5, <2>1, GrowsItself DEF Simple
  <2>2. CASE action = "create"
    BY <1>5, <2>2, CreateGrows DEF Simple
  <2>3. CASE action = "addOther"
    BY <1>2, <1>5, <2>3 DEF Simple
  <2>4. CASE action = "removeOther"
    BY <1>3, <1>5, <2>4 DEF Simple
  <2>5. CASE action = "changeAnother"
    BY <1>4, <1>5, <2>5 DEF Simple
  <2> QED  BY <2>1, <2>2, <2>3, <2>4, <2>5 DEF OnRemove
<1> QED  BY <1>1, <1>5

\* A removal goes well unless the records have moved, and then it is done.
LEMMA WrittenGrows ==
    ASSUME NEW st, NEW after, NEW done, NEW h, NEW st2, st2 = Written(st, after, done, h)
    PROVE  Grows(done, st2) /\ (Shaped(done) /\ Bounded(st2) => st2 = done)
<1>1. CASE ~Reallocated(st, after)
  BY <1>1, GrowsItself DEF Written
<1>2. CASE Reallocated(st, after)
  <2> SUFFICES ASSUME Shaped(done)
               PROVE  Grows(done, st2) /\ ~Bounded(st2)
    BY DEF Grows
  <2>1. PICK rc : /\ st2 = [done EXCEPT !.rec = rc, !.steady = FALSE]
                  /\ rc = [k \in DOMAIN done.rec |-> rc[k]]
    <3>1. PICK t, r : st2 = [done EXCEPT !.rec[h.index].type = t, !.rec[h.index].row = r,
                                         !.steady = FALSE]
      BY <1>2 DEF Written
    <3>2. PICK rc : rc = [done.rec EXCEPT ![h.index].type = t, ![h.index].row = r]
      OBVIOUS
    <3>3. st2 = [done EXCEPT !.rec = rc, !.steady = FALSE]
      BY <3>1, <3>2 DEF Shaped, IsStore
    <3>4. rc = [k \in DOMAIN done.rec |-> rc[k]]
      BY <3>2
    <3> QED  BY Zenon, <3>3, <3>4
  <2>2. IsSeq(rc) /\ Len(rc) = Len(done.rec)
    BY <2>1, SameLength DEF Shaped
  <2>3. IsStore(st2) /\ st2.rec = rc /\ st2.dead = done.dead /\ st2.steady = FALSE
    BY <2>1 DEF Shaped, IsStore
  <2> QED  BY <2>2, <2>3 DEF Grows, Shaped, Bounded
<1> QED  BY <1>1, <1>2

\* removeComponent.
LEMMA RemoveHookedGrows ==
    ASSUME NEW st, NEW h, hooks.onRemove \in OnRemove
    PROVE  Grows(st, RemoveHooked(st, h))
<1>0. PICK after, done, st2 :
          /\ after = Simple(st, h, hooks.onRemove) /\ done = RemoveIn(st, after, h, Hooked)
          /\ st2 = Written(st, after, done, h)
  OBVIOUS
<1>1. Grows(st, after)
  BY <1>0, SimpleGrows
<1>2. Grows(after, done)
  BY <1>0, RemoveGrows
<1>3. Grows(done, st2)
  BY <1>0, WrittenGrows
<1>4. Grows(st, st2)
  BY <1>1, <1>2, <1>3, GrowsTwice
<1>5. RemoveHooked(st, h) \in {Abort(st), st, st2}
  BY <1>0 DEF RemoveHooked
<1> QED  BY <1>4, <1>5, AbortGrows, GrowsItself

\* destroyEntity, after which h is dead.
LEMMA DestroyHookedGrows ==
    ASSUME NEW st, NEW h, hooks.onRemove \in OnRemove,
           NEW st2, st2 = DestroyHooked(st, h)
    PROVE  /\ Grows(st, st2)
           /\ Shaped(st) /\ Bounded(st2) => h \in st2.dead
<1>0. PICK after, done :
          /\ after = (IF Hooked \in TypeIn(st, h) THEN Simple(st, h, hooks.onRemove) ELSE st)
          /\ done = RetireIn(st, after, h)
  OBVIOUS
<1>1. Grows(st, after)
  BY <1>0, SimpleGrows, GrowsItself
<1>2. Grows(after, done) /\ (Shaped(after) => h \in done.dead)
  BY <1>0, RetireGrows DEF RetireIn
<1>3. CASE Passes(st, h)
  <2>1. st2 = Written(st, after, done, h)
    BY <1>0, <1>3 DEF DestroyHooked
  <2>2. Grows(done, st2) /\ (Shaped(done) /\ Bounded(st2) => st2 = done)
    BY <2>1, WrittenGrows
  <2>3. Grows(st, st2)
    BY <1>1, <1>2, <2>2, GrowsTwice
  <2> QED  BY <1>1, <1>2, <2>2, <2>3 DEF Grows
<1>4. CASE ~Passes(st, h)
  <2>1. st2 = Abort(st)
    BY <1>4 DEF DestroyHooked
  <2> QED  BY <2>1, AbortGrows DEF Shaped
<1> QED  BY <1>3, <1>4

\* What an onAdd or onSet hook does.
LEMMA RunGrows ==
    ASSUME NEW st, NEW h, NEW action \in OnAddOrSet, hooks.onRemove \in OnRemove
    PROVE  Grows(st, Run(st, h, action))
<1>1. CASE action \in OnRemove
  <2>1. action # "removeSelf" /\ action # "destroy"
    BY <1>1 DEF OnRemove
  <2>2. Run(st, h, action) = Simple(st, h, action)
    BY <1>1, <2>1 DEF Run
  <2> QED  BY <1>1, <2>2, SimpleGrows
<1>2. CASE action = "removeSelf"
  <2>1. Run(st, h, action) = RemoveHooked(st, h)
    BY <1>2 DEF Run, OnRemove
  <2> QED  BY <2>1, RemoveHookedGrows
<1>3. CASE action = "destroy"
  <2>1. Run(st, h, action) = DestroyHooked(st, h)
    BY <1>3 DEF Run, OnRemove
  <2> QED  BY <2>1, DestroyHookedGrows
<1> QED  BY <1>1, <1>2, <1>3 DEF OnAddOrSet

\* addComponent.
LEMMA AddHookedGrows ==
    ASSUME NEW st, NEW h, hooks.onAdd \in OnAddOrSet, hooks.onRemove \in OnRemove
    PROVE  Grows(st, AddHooked(st, h))
<1>0. PICK moved, st2 : /\ moved = MoveTo(st, h, TypeIn(st, h) \cup {Hooked})
                        /\ st2 = Run(moved, h, hooks.onAdd)
  OBVIOUS
<1>1. Grows(st, moved)
  BY <1>0, MoveGrows
<1>2. Grows(moved, st2)
  BY <1>0, RunGrows
<1>3. AddHooked(st, h) \in {Abort(st), st, st2}
  BY <1>0 DEF AddHooked
<1> QED  BY <1>1, <1>2, <1>3, AbortGrows, GrowsItself, GrowsTwice

-----------------------------------------------------------------------------
(* Stores in good order, with the indices that are not in use *)

\* An index not on the free stack is that of a live entity.
Held(rc, fr, lv) ==
    \A i \in 1 .. Len(rc) :
        \/ \E j \in 1 .. Len(fr) : fr[j] = i
        \/ [index |-> i, generation |-> rc[i].generation] \in lv

\* The generation of an index is past those of the entities that are dead.
Buried(rc, dd) ==
    \A g \in dd : /\ g \in Handle /\ g.index \in 1 .. Len(rc)
                  /\ g.generation < rc[g.index].generation

Kept(st) == Sound(st) /\ Held(st.rec, st.free, st.live) /\ Buried(st.rec, st.dead)

SameGenerations(rc, rc2) ==
    Len(rc2) = Len(rc) /\ \A i \in 1 .. Len(rc) : rc2[i].generation = rc[i].generation

\* Indices are in use as they were when no generation changes.
LEMMA UseStays ==
    ASSUME NEW rc, NEW rc2, SameGenerations(rc, rc2), NEW fr, NEW lv, NEW dd,
           Held(rc, fr, lv), Buried(rc, dd)
    PROVE  Held(rc2, fr, lv) /\ Buried(rc2, dd)
BY DEF SameGenerations, Held, Buried

\* Migrations do not.
LEMMA MoveKept ==
    ASSUME NEW st, Kept(st), NEW h \in st.live, NEW to \in TableType, to # TypeIn(st, h),
           NEW st2, st2 = MoveTo(st, h, to)
    PROVE  /\ Kept(st2) /\ st2.live = st.live
           /\ Bar(st2) = [Bar(st) EXCEPT ![h] =
                 [c \in to |-> IF c \in TypeIn(st, h) THEN Bar(st)[h][c] ELSE Unspecified]]
<1>0. PICK from, r, old, val, rc2, rw2 :
          /\ from = TypeIn(st, h) /\ r = RowIn(st, h)
          /\ old = (IF from = RootType THEN << >> ELSE st.rows[from][r + 1].value)
          /\ val = Carried(old, from, to, [c \in to \ from |-> Unspecified])
          /\ rc2 = MigrateRec(st.rec, st.rows, h, from, to, r)
          /\ rw2 = MigrateRows(st.rows, h, from, to, r, val)
  OBVIOUS
<1>1. Sound(st) /\ TablesRight(st.rec, st.rows, st.live) /\ IsStore(st)
  BY DEF Kept, Sound
<1>2. st2 = [st EXCEPT !.rec = rc2, !.rows = rw2,
                       !.moves = RowLeft(Append(@, [entity |-> h, table |-> to, joins |-> TRUE]),
                                         st.rows, from, r)]
  BY <1>0 DEF MoveTo, MigrateIn
<1>3. st2.rec = rc2
  BY Zenon, <1>1, <1>2 DEF IsStore
<1>4. from = st.rec[h.index].type /\ r = st.rec[h.index].row
  BY Zenon, <1>0 DEF TypeIn, RowIn
<1>5. MoveEffects(st.rec, st.rows, rc2, rw2, h, from, r, to, val)
  BY ONLY Zenon, <1>0, <1>1, <1>4, h \in st.live, to \in TableType, to # TypeIn(st, h), MoveHasEffects
<1>6. SameGenerations(st.rec, st2.rec)
  BY <1>3, <1>5 DEF MoveEffects, OthersMoved, SameGenerations
<1>7. Yields(st, st2, [Bar(st) EXCEPT ![h] =
          [c \in to |-> IF c \in TypeIn(st, h) THEN Bar(st)[h][c] ELSE Unspecified]])
  BY <1>1, MoveYields
<1>8. Sound(st2) /\ st2.free = st.free /\ st2.live = st.live /\ st2.dead = st.dead
  BY <1>7 DEF Yields
<1>9. Held(st2.rec, st2.free, st2.live) /\ Buried(st2.rec, st2.dead)
  BY <1>6, <1>8, UseStays DEF Kept
<1> QED  BY <1>7, <1>8, <1>9 DEF Kept, Yields

\* Nor do writes.
LEMMA PutKept ==
    ASSUME NEW st, Kept(st), NEW h \in st.live, NEW c \in TypeIn(st, h), NEW v \in Payload,
           NEW st2, st2 = Put(st, h, c, v)
    PROVE  /\ Kept(st2) /\ st2.live = st.live
           /\ Bar(st2) = [Bar(st) EXCEPT ![h] = Having(@, c, v)]
<1>1. Sound(st) /\ IsStore(st)
  BY DEF Kept, Sound
<1>2. Yields(st, st2, [Bar(st) EXCEPT ![h] = Having(@, c, v)])
  BY <1>1, PutYields
<1>3. st2.rec = st.rec
  BY <1>1 DEF Put, IsStore
<1> QED  BY <1>2, <1>3 DEF Kept, Yields

\* A destruction adds to the free stack.
LEMMA RetireKept ==
    ASSUME NEW st, Kept(st), NEW h \in st.live, NEW t, NEW r,
           t = TypeIn(st, h), r = RowIn(st, h),
           ~(t = RootType /\ At(st.rec, st.rows, h)), h.generation < Generations - 1,
           NEW st2, st2 = RetireFrom(st, h, t, r)
    PROVE  /\ Kept(st2) /\ st2.live = st.live \ {h}
           /\ Remaining(Bar(st), Bar(st2), h)
           /\ TypeIn(st2, h) = RootType /\ ~AliveIn(st2, h)
<1>0. PICK rc, fixed, rc2, i :
          /\ rc = st.rec /\ i = h.index
          /\ fixed = (IF t = RootType THEN rc ELSE FixSwapped(rc, st.rows, t, r))
          /\ rc2 = Retire(fixed, i)
  OBVIOUS
<1>1. Sound(st) /\ TablesRight(rc, st.rows, st.live) /\ IsStore(st)
      /\ Held(rc, st.free, st.live) /\ Buried(rc, st.dead)
  BY <1>0 DEF Kept, Sound
<1>2. /\ st2.rec = rc2 /\ st2.free = Append(st.free, i) /\ st2.dead = st.dead \cup {h}
  BY <1>0, <1>1 DEF RetireFrom, IsStore
<1>3. Sound(st2) /\ st2.live = st.live \ {h} /\ Remaining(Bar(st), Bar(st2), h)
  BY ONLY <1>1, h \in st.live, t = TypeIn(st, h), r = RowIn(st, h),
          ~(t = RootType /\ At(st.rec, st.rows, h)), st2 = RetireFrom(st, h, t, r), RetireYields
<1>4. /\ h \in Handle /\ i \in 1 .. Len(rc) /\ rc \in Seq(Record) /\ Len(rc) \in Nat
      /\ rc[i].generation = h.generation /\ r \in Nat
  <2>1. EntityAt(rc, st.rows, st.live, h, t, r)
    <3>1. t = rc[h.index].type /\ r = rc[h.index].row
      BY <1>0 DEF TypeIn, RowIn
    <3> QED  BY ONLY <1>1, <3>1, h \in st.live, LiveEntity
  <2> QED  BY <1>0, <2>1 DEF EntityAt
<1>5. /\ fixed \in Seq(Record) /\ Len(fixed) = Len(rc)
      /\ \A k \in 1 .. Len(rc) : fixed[k].generation = rc[k].generation
  BY <1>0, <1>4, FixSwappedProperties
<1>6. /\ rc2 \in Seq(Record) /\ Len(rc2) = Len(rc)
      /\ rc2[i].type = RootType
      /\ rc2[i].generation = (fixed[i].generation + 1) % Generations
      /\ \A k \in 1 .. Len(rc) : k # i => rc2[k] = fixed[k]
  <2>1. i \in 1 .. Len(fixed) /\ fixed \in Seq(Record)
    BY <1>4, <1>5
  <2>2. LET left == Retire(fixed, i)
        IN  /\ left \in Seq(Record)
            /\ Len(left) = Len(fixed)
            /\ left[i].type = RootType /\ left[i].row = 0
            /\ left[i].generation = (fixed[i].generation + 1) % Generations
            /\ \A k \in 1 .. Len(fixed) : k # i => left[k] = fixed[k]
    BY ONLY <2>1, RetireProperties
  <2>3. rc2 = Retire(fixed, i) /\ Len(fixed) = Len(rc)
    BY <1>0, <1>5
  <2> QED  BY ONLY <2>2, <2>3
<1>7. rc2[i].generation = h.generation + 1 /\ h.generation \in Nat
  <2>1. h.generation \in 0 .. Generations - 1
    BY <1>4 DEF Handle
  <2>2. (h.generation + 1) % Generations = h.generation + 1
    BY <2>1, NextGeneration
  <2> QED  BY <1>4, <1>5, <1>6, <2>1, <2>2
<1>8. Buried(st2.rec, st2.dead)
  <2>1. ASSUME NEW g \in st2.dead
        PROVE  /\ g \in Handle /\ g.index \in 1 .. Len(rc2)
               /\ g.generation < rc2[g.index].generation
    <3>1. CASE g = h
      BY <1>0, <1>4, <1>6, <1>7, <3>1
    <3>2. CASE g # h
      <4>1. g \in Handle /\ g.index \in 1 .. Len(rc) /\ g.generation < rc[g.index].generation
        BY <1>1, <1>2, <3>2 DEF Buried
      <4>2. g.generation \in Nat
        BY <4>1, StorageAssumption DEF Handle
      <4>3. CASE g.index = i
        BY <1>4, <1>6, <1>7, <4>1, <4>2, <4>3
      <4>4. CASE g.index # i
        BY <1>5, <1>6, <4>1, <4>4
      <4> QED  BY <4>3, <4>4
    <3> QED  BY <3>1, <3>2
  <2> QED  BY <1>2, <2>1 DEF Buried
<1>9. Held(st2.rec, st2.free, st2.live)
  <2>0. PICK fr, n, new : fr = st.free /\ n = Len(fr) /\ new = Append(fr, i)
    OBVIOUS
  <2>1. fr \in Seq(1 .. Len(rc)) /\ n \in Nat
    BY <1>0, <1>1, <2>0 DEF Sound, FreeRight
  <2>2. Len(new) = n + 1 /\ new[n + 1] = i /\ \A j \in 1 .. n : new[j] = fr[j]
    BY <1>4, <2>0, <2>1
  <2>3. ASSUME NEW k \in 1 .. Len(rc)
        PROVE  \/ \E j \in 1 .. n + 1 : new[j] = k
               \/ [index |-> k, generation |-> rc2[k].generation] \in st.live \ {h}
    <3>1. CASE k = i
      BY <2>1, <2>2, <3>1
    <3>2. CASE k # i
      <4>1. rc2[k].generation = rc[k].generation
        BY <1>5, <1>6, <3>2
      <4>2. [index |-> k, generation |-> rc2[k].generation] # h
        BY <1>0, <3>2
      <4>3. \/ \E j \in 1 .. n : fr[j] = k
            \/ [index |-> k, generation |-> rc[k].generation] \in st.live
        BY <1>1, <2>0 DEF Held
      <4>4. \A j \in 1 .. n : j \in 1 .. n + 1
        BY <2>1
      <4> QED  BY <2>2, <4>1, <4>2, <4>3, <4>4
    <3> QED  BY <3>1, <3>2
  <2>4. Len(rc2) = Len(rc) /\ Len(new) = n + 1
    BY <1>6, <2>2
  <2>5. Held(rc2, new, st.live \ {h})
    BY ONLY <2>3, <2>4 DEF Held
  <2> QED  BY ONLY <1>2, <1>3, <2>0, <2>5
<1>10. TypeIn(st2, h) = RootType /\ ~AliveIn(st2, h)
  <2>1. rc2[h.index].type = RootType /\ rc2[h.index].generation # h.generation
    BY <1>0, <1>6, <1>7
  <2> QED  BY ONLY <1>2, <2>1 DEF TypeIn, AliveIn
<1> QED  BY <1>3, <1>8, <1>9, <1>10 DEF Kept

\* Other entities keep what they have of Hooked.
Spares(st, st2, S) ==
    \A p \in st.live \ S : p \in st2.live /\ SameAt(Hooked, Bar(st)[p], Bar(st2)[p])

\* So do they in two steps.
LEMMA SparesTwice ==
    ASSUME NEW st, NEW st2, NEW st3, NEW S, Spares(st, st2, S), Spares(st2, st3, S)
    PROVE  Spares(st, st3, S)
BY DEF Spares, SameAt

\* And when some of them need not.
LEMMA SparesFewer ==
    ASSUME NEW st, NEW st2, NEW S, Spares(st, st2, {})
    PROVE  Spares(st, st2, S)
BY DEF Spares

\* And when nothing happens.
LEMMA SparesItself ==
    ASSUME NEW st, NEW S
    PROVE  Spares(st, st, S)
BY DEF Spares, SameAt

\* An entity comes, bare.
LEMMA SparesBare ==
    ASSUME NEW st, NEW st2, NEW h, DOMAIN Bar(st) = st.live, st2.live = st.live \cup {h},
           h \notin st.live, AddsBare(Bar(st), Bar(st2), h)
    PROVE  Spares(st, st2, {})
BY DEF Spares, SameAt, AddsBare

\* A store in good order has this form.
LEMMA KeptIsShaped ==
    ASSUME NEW st, Kept(st)
    PROVE  Shaped(st) /\ st.rec \in Seq(Record) /\ Len(st.rec) \in Nat
<1>1. st.rec \in Seq(Record) /\ IsStore(st)
  BY DEF Kept, Sound, TablesRight, Typed
<1>2. IsSeq(st.rec)
  BY <1>1 DEF IsSeq
<1> QED  BY <1>1, <1>2 DEF Shaped

\* A new index is that of the new entity.
LEMMA NewKept ==
    ASSUME NEW st, Kept(st), st.free = << >>,
           NEW st2, st2 = CreateIn(st), Len(st2.rec) <= MaxEntities
    PROVE  Kept(st2) /\ Spares(st, st2, {})
<1>0. PICK rc, n, bare, h, rc2, lv :
          /\ rc = st.rec /\ n = Len(rc) /\ lv = st.live
          /\ bare = [type |-> RootType, row |-> 0, generation |-> 0]
          /\ h = [index |-> n + 1, generation |-> 0] /\ rc2 = Append(rc, bare)
  OBVIOUS
<1>1. /\ TablesRight(rc, st.rows, lv) /\ FreeRight(rc, st.free, lv) /\ IsStore(st) /\ st.ok = TRUE
      /\ Held(rc, st.free, lv) /\ Buried(rc, st.dead)
  BY <1>0 DEF Kept, Sound
<1>2. /\ IsStore(st2) /\ st2.rec = rc2 /\ st2.free = st.free /\ st2.rows = st.rows
      /\ st2.live = lv \cup {h} /\ st2.dead = st.dead /\ st2.ok = TRUE
  BY <1>0, <1>1 DEF CreateIn, IsStore
<1>3. rc \in Seq(Record) /\ n \in Nat
  BY <1>0, <1>1 DEF TablesRight, Typed
<1>4. 0 \in 0 .. Generations - 1 /\ RootType \in TableType
  BY StorageAssumption DEF RootType, TableType
<1>5. bare \in Record
  BY <1>0, <1>4 DEF Record
<1>6. /\ rc2 \in Seq(Record) /\ Len(rc2) = n + 1 /\ rc2[n + 1] = bare
      /\ \A i \in 1 .. n : rc2[i] = rc[i]
  BY <1>0, <1>3, <1>5
<1>7. h \in Handle /\ h.index = n + 1 /\ h.generation = 0 /\ n + 1 <= MaxEntities
  <2>1. n + 1 \in Index
    BY <1>2, <1>3, <1>6, StorageAssumption DEF Index
  <2> QED  BY <1>0, <1>2, <1>4, <1>6, <2>1 DEF Handle
<1>8. \A g \in lv : g.index # h.index /\ g.index \in 1 .. Len(rc2)
                    /\ rc2[g.index] = rc[g.index]
  <2>1. \A g \in lv : g.index \in 1 .. n
    BY <1>0, <1>1 DEF TablesRight, Placed
  <2> QED  BY <1>3, <1>6, <1>7, <2>1
<1>9. AddsRecord(rc, rc2, lv, h)
  <2>1. /\ h.index \in 1 .. Len(rc2)
        /\ rc2[h.index] = [type |-> RootType, row |-> 0, generation |-> h.generation]
    BY <1>0, <1>3, <1>6, <1>7
  <2> QED  BY <1>6, <1>7, <1>8, <2>1 DEF AddsRecord
<1>10. /\ TablesRight(rc2, st.rows, lv \cup {h}) /\ h \notin lv
       /\ AddsBare(ContentsOf(rc, st.rows, lv), ContentsOf(rc2, st.rows, lv \cup {h}), h)
  BY ONLY <1>1, <1>9, Enlisted
<1>11. FreeRight(rc2, st.free, lv \cup {h})
  <2>1. st.free \in Seq(1 .. Len(rc2)) /\ Len(st.free) = 0
    OBVIOUS
  <2> QED  BY <2>1 DEF FreeRight
<1>12. Held(rc2, st.free, lv \cup {h})
  <2>1. ASSUME NEW i \in 1 .. Len(rc2)
        PROVE  \/ \E j \in 1 .. Len(st.free) : st.free[j] = i
               \/ [index |-> i, generation |-> rc2[i].generation] \in lv \cup {h}
    <3>1. CASE i = n + 1
      BY <1>0, <1>6, <3>1
    <3>2. CASE i # n + 1
      <4>1. i \in 1 .. n
        BY <1>3, <1>6, <3>2
      <4> QED  BY <1>0, <1>1, <1>6, <4>1 DEF Held
    <3> QED  BY <3>1, <3>2
  <2> QED  BY <2>1 DEF Held
<1>13. Buried(rc2, st.dead)
  <2>1. \A i \in 1 .. n : i \in 1 .. Len(rc2)
    BY <1>3, <1>6
  <2> QED  BY <1>0, <1>1, <1>6, <2>1 DEF Buried
<1>14. Spares(st, st2, {})
  <2>1. DOMAIN Bar(st) = st.live
    BY DEF Bar, ContentsOf
  <2> QED  BY <1>0, <1>2, <1>10, <2>1, SparesBare DEF Bar
<1>15. Sound(st2)
  BY <1>2, <1>10, <1>11 DEF Sound
<1> QED  BY <1>2, <1>12, <1>13, <1>14, <1>15 DEF Kept

\* A recycled index leaves the free stack.
LEMMA RecycledKept ==
    ASSUME NEW st, Kept(st), st.free # << >>, NEW st2, st2 = CreateIn(st)
    PROVE  Kept(st2) /\ Spares(st, st2, {})
<1>0. PICK rc, lv, fr, n, i, h, rc2, fr2 :
          /\ rc = st.rec /\ lv = st.live /\ fr = st.free /\ n = Len(fr) /\ i = fr[n]
          /\ h = [index |-> i, generation |-> rc[i].generation]
          /\ rc2 = Relocate(rc, i, RootType, 0) /\ fr2 = SubSeq(fr, 1, n - 1)
  OBVIOUS
<1>1. /\ TablesRight(rc, st.rows, lv) /\ FreeRight(rc, fr, lv) /\ IsStore(st) /\ st.ok = TRUE
      /\ Held(rc, fr, lv) /\ Buried(rc, st.dead)
  BY <1>0 DEF Kept, Sound
<1>2. /\ IsStore(st2) /\ st2.rec = rc2 /\ st2.free = fr2 /\ st2.rows = st.rows
      /\ st2.live = lv \cup {h} /\ st2.dead = st.dead /\ st2.ok = TRUE
  BY <1>0, <1>1 DEF CreateIn, IsStore, Last, Front
<1>3. /\ rc \in Seq(Record) /\ Len(rc) \in Nat /\ Len(rc) <= MaxEntities
      /\ fr \in Seq(1 .. Len(rc)) /\ fr # << >>
  BY <1>0, <1>1 DEF TablesRight, Typed, FreeRight
<1>4. /\ i \in 1 .. Len(rc) /\ fr2 \in Seq(1 .. Len(rc)) /\ n \in Nat /\ n # 0
      /\ Len(fr2) = n - 1 /\ \A j \in 1 .. n - 1 : fr2[j] = fr[j]
  <2>1. LET rest == SubSeq(fr, 1, Len(fr) - 1)
        IN  /\ fr[Len(fr)] \in 1 .. Len(rc)
            /\ rest \in Seq(1 .. Len(rc))
            /\ Len(rest) = Len(fr) - 1
            /\ \A j \in 1 .. Len(fr) - 1 : rest[j] = fr[j]
    BY ONLY <1>3, PopProperties
  <2>2. n = Len(fr) /\ i = fr[n] /\ fr2 = SubSeq(fr, 1, n - 1)
    BY <1>0
  <2>3. n \in Nat /\ n # 0
    BY ONLY <1>3, <2>2
  <2> QED  BY ONLY <2>1, <2>2, <2>3
<1>5. RootType \in TableType
  BY DEF RootType, TableType
<1>6. /\ rc2 \in Seq(Record) /\ Len(rc2) = Len(rc)
      /\ rc2[i].type = RootType /\ rc2[i].row = 0
      /\ rc2[i].generation = rc[i].generation
      /\ \A k \in 1 .. Len(rc) : k # i => rc2[k] = rc[k]
  <2>1. rc2 = Relocate(rc, i, RootType, 0) /\ rc \in Seq(Record) /\ i \in 1 .. Len(rc) /\ 0 \in Nat
    BY <1>0, <1>3, <1>4
  <2> QED  BY ONLY <1>5, <2>1, RelocateProperties
<1>7. h \in Handle /\ h.index = i /\ h.generation = rc[i].generation
  <2>1. i \in Index
    BY <1>3, <1>4, StorageAssumption DEF Index
  <2>2. rc[i] \in Record
    BY <1>3, <1>4
  <2>3. rc[i].generation \in 0 .. Generations - 1
    BY <2>2 DEF Record
  <2> QED  BY <1>0, <2>1, <2>3 DEF Handle
<1>8. \A j \in 1 .. n - 1 : j \in 1 .. n /\ j # n
  BY <1>4
<1>9. \A g \in lv : g.index # h.index /\ g.index \in 1 .. Len(rc2)
                    /\ rc2[g.index] = rc[g.index]
  <2>1. \A g \in lv : g.index \in 1 .. Len(rc)
    BY <1>1 DEF TablesRight, Placed
  <2>2. n \in 1 .. Len(fr)
    BY <1>0, <1>4
  <2>3. \A g \in lv : g.index # i
    BY <1>0, <1>1, <2>2 DEF FreeRight
  <2> QED  BY <1>6, <1>7, <2>1, <2>3
<1>10. AddsRecord(rc, rc2, lv, h)
  <2>1. rc2[i] \in Record
    BY <1>4, <1>6
  <2>2. Len(rc2) <= MaxEntities /\ h.index \in 1 .. Len(rc2)
        /\ rc2[h.index] = [type |-> RootType, row |-> 0, generation |-> h.generation]
    BY <1>3, <1>4, <1>6, <1>7, <2>1 DEF Record
  <2> QED  BY <1>6, <1>7, <1>9, <2>2 DEF AddsRecord
<1>11. /\ TablesRight(rc2, st.rows, lv \cup {h}) /\ h \notin lv
       /\ AddsBare(ContentsOf(rc, st.rows, lv), ContentsOf(rc2, st.rows, lv \cup {h}), h)
  BY ONLY <1>1, <1>10, Enlisted
<1>12. FreeRight(rc2, fr2, lv \cup {h})
  <2>1. n \in 1 .. n
    BY <1>4
  <2>2. \A j, k \in 1 .. n : fr[j] = fr[k] => j = k
    BY <1>0, <1>1 DEF FreeRight
  <2>3. \A g \in lv : \A j \in 1 .. n : fr[j] # g.index
    BY <1>0, <1>1 DEF FreeRight
  <2>4. \A j, k \in 1 .. n - 1 : fr2[j] = fr2[k] => j = k
    BY <1>4, <1>8, <2>2
  <2>5. \A j \in 1 .. n - 1 : fr2[j] # h.index
    <3>1. \A j \in 1 .. n - 1 : fr2[j] = fr[j] /\ fr[j] # fr[n]
      BY ONLY <1>4, <1>8, <2>1, <2>2
    <3> QED  BY <1>0, <1>7, <3>1
  <2>6. \A g \in lv : \A j \in 1 .. n - 1 : fr2[j] # g.index
    BY <1>4, <1>8, <2>3
  <2> QED  BY <1>4, <1>6, <2>4, <2>5, <2>6 DEF FreeRight
<1>13. Held(rc2, fr2, lv \cup {h})
  <2>1. ASSUME NEW k \in 1 .. Len(rc)
        PROVE  \/ \E j \in 1 .. n - 1 : fr2[j] = k
               \/ [index |-> k, generation |-> rc2[k].generation] \in lv \cup {h}
    <3>1. CASE k = i
      BY <1>0, <1>6, <3>1
    <3>2. CASE k # i
      <4>1. CASE [index |-> k, generation |-> rc[k].generation] \in lv
        BY <1>6, <3>2, <4>1
      <4>2. CASE \E j \in 1 .. n : fr[j] = k
        <5>1. PICK j \in 1 .. n : fr[j] = k
          BY <4>2
        <5>2. j # n
          BY <1>0, <3>2, <5>1
        <5>3. j \in 1 .. n - 1
          BY <1>4, <5>2
        <5> QED  BY <1>4, <5>1, <5>3
      <4> QED  BY <1>0, <1>1, <4>1, <4>2 DEF Held
    <3> QED  BY <3>1, <3>2
  <2> QED  BY <1>4, <1>6, <2>1 DEF Held
<1>14. Buried(rc2, st.dead)
  <2>1. ASSUME NEW g \in st.dead
        PROVE  /\ g \in Handle /\ g.index \in 1 .. Len(rc2)
               /\ g.generation < rc2[g.index].generation
    <3>1. g \in Handle /\ g.index \in 1 .. Len(rc) /\ g.generation < rc[g.index].generation
      BY <1>1 DEF Buried
    <3>2. rc2[g.index].generation = rc[g.index].generation
      BY <1>6, <3>1
    <3> QED  BY <1>6, <3>1, <3>2
  <2> QED  BY <2>1 DEF Buried
<1>15. Spares(st, st2, {})
  <2>1. DOMAIN Bar(st) = st.live
    BY DEF Bar, ContentsOf
  <2> QED  BY <1>0, <1>2, <1>11, <2>1, SparesBare DEF Bar
<1>16. Sound(st2)
  BY <1>2, <1>11, <1>12 DEF Sound
<1> QED  BY <1>2, <1>13, <1>14, <1>15, <1>16 DEF Kept

\* Create.
LEMMA CreateKept ==
    ASSUME NEW st, Kept(st), NEW st2, st2 = CreateIn(st), Bounded(st2)
    PROVE  Kept(st2) /\ Spares(st, st2, {})
BY NewKept, RecycledKept DEF Bounded

\* A migration that neither adds nor removes Hooked.
LEMMA MoveSpares ==
    ASSUME NEW st, Kept(st), NEW h \in st.live, NEW to \in TableType, to # TypeIn(st, h),
           NEW st2, st2 = MoveTo(st, h, to), NEW S,
           h \in S \/ (Hooked \in to <=> Hooked \in TypeIn(st, h))
    PROVE  Kept(st2) /\ st2.live = st.live /\ TypeIn(st2, h) = to /\ Spares(st, st2, S)
<1>0. PICK w, w2, from : w = Bar(st) /\ w2 = Bar(st2) /\ from = TypeIn(st, h)
  OBVIOUS
<1>1. /\ Kept(st2) /\ st2.live = st.live
      /\ w2 = [w EXCEPT ![h] = [c \in to |-> IF c \in from THEN w[h][c] ELSE Unspecified]]
  BY <1>0, MoveKept
<1>2. DOMAIN w = st.live /\ DOMAIN w[h] = from
  BY <1>0, ReadsContents DEF Kept
<1>3. w2[h] = [c \in to |-> IF c \in from THEN w[h][c] ELSE Unspecified]
  BY <1>1, <1>2
<1>4. TypeIn(st2, h) = DOMAIN w2[h]
  <2>1. Sound(st2) /\ h \in st2.live
    BY <1>1 DEF Kept
  <2> QED  BY <1>0, <2>1, ReadsContents
<1>5. ASSUME NEW p \in st.live \ S
      PROVE  SameAt(Hooked, w[p], w2[p])
  <2>1. CASE p = h
    BY <1>0, <1>2, <1>3, <2>1 DEF SameAt
  <2>2. CASE p # h
    <3>1. w2[p] = w[p]
      BY <1>1, <1>2, <2>2
    <3> QED  BY <3>1 DEF SameAt
  <2> QED  BY <2>1, <2>2
<1> QED  BY <1>0, <1>1, <1>3, <1>4, <1>5 DEF Spares

\* A hook adds or removes Other.
LEMMA OtherKept ==
    ASSUME HooksAssumption, NEW st, Kept(st), NEW p \in st.live,
           NEW st2 \in {AddIn(st, p, Other), RemoveOther(st, p)}
    PROVE  Kept(st2) /\ st2.live = st.live /\ Spares(st, st2, {})
<1>0. PICK from : from = TypeIn(st, p)
  OBVIOUS
<1>1. from \in TableType
  BY <1>0, ReadsContents DEF Kept
<1>2. Other \in Component /\ Hooked # Other
  BY DEF HooksAssumption
<1>3. CASE st2 = st
  BY <1>3, SparesItself
<1>4. CASE Other \notin from /\ st2 = MoveTo(st, p, from \cup {Other})
  <2>1. from \cup {Other} \in TableType /\ from \cup {Other} # from
    BY <1>1, <1>2, <1>4 DEF TableType
  <2> QED  BY <1>0, <1>2, <1>4, <2>1, MoveSpares
<1>5. CASE Other \in from /\ st2 = MoveTo(st, p, from \ {Other})
  <2>1. from \ {Other} \in TableType /\ from \ {Other} # from
    BY <1>1, <1>5 DEF TableType
  <2> QED  BY <1>0, <1>2, <1>5, <2>1, MoveSpares
<1> QED  BY <1>0, <1>3, <1>4, <1>5 DEF AddIn, RemoveOther

\* A hook changes another entity.
LEMMA AnotherKept ==
    ASSUME HooksAssumption, NEW st, Kept(st), NEW h, NEW st2, st2 = ChangeAnother(st, h)
    PROVE  Kept(st2) /\ st2.live = st.live /\ Spares(st, st2, {})
<1>0. PICK others, p : /\ others = st.live \ {h}
                       /\ p = CHOOSE q \in others : \A o \in others : q.index <= o.index
  OBVIOUS
<1>1. CASE others = {}
  <2>1. st2 = st
    BY <1>0, <1>1 DEF ChangeAnother
  <2> QED  BY <2>1, SparesItself
<1>2. CASE others # {}
  <2>1. PICK T : T = {o.index : o \in others}
    OBVIOUS
  <2>2. T \subseteq Nat /\ T # {}
    <3>1. \A o \in others : o.index \in Nat
      <4>1. st.live \subseteq Handle
        BY DEF Kept, Sound, TablesRight, Typed
      <4> QED  BY <1>0, <4>1, StorageAssumption DEF Handle, Index
    <3> QED  BY <1>2, <2>1, <3>1
  <2>3. PICK x \in T : \A y \in T : x <= y
    BY <2>2, Least
  <2>4. \E q \in others : \A o \in others : q.index <= o.index
    BY <2>1, <2>3
  <2>5. p \in others
    BY <1>0, <2>4
  <2>6. st2 \in {AddIn(st, p, Other), RemoveOther(st, p)}
    BY <1>0, <1>2 DEF ChangeAnother
  <2> QED  BY <1>0, <2>5, <2>6, OtherKept
<1> QED  BY <1>1, <1>2

\* An onRemove hook.
LEMMA SimpleKept ==
    ASSUME HooksAssumption, NEW st, Kept(st), NEW h \in st.live, NEW action \in OnRemove,
           NEW st2, st2 = Simple(st, h, action), Bounded(st2)
    PROVE  Kept(st2) /\ st.live \subseteq st2.live /\ Spares(st, st2, {})
<1>1. Passes(st, h)
  BY KeptIsShaped, AbortGrows DEF Simple, Shaped
<1>2. CASE action = "none"
  BY <1>1, <1>2, SparesItself DEF Simple
<1>3. CASE action = "create"
  <2>1. st2 = CreateIn(st)
    BY <1>1, <1>3 DEF Simple
  <2>2. Kept(st2) /\ Spares(st, st2, {})
    BY <2>1, CreateKept
  <2> QED  BY <2>2 DEF Spares
<1>4. CASE action = "addOther"
  <2>1. st2 = AddIn(st, h, Other)
    BY <1>1, <1>4 DEF Simple
  <2> QED  BY <2>1, OtherKept
<1>5. CASE action = "removeOther"
  <2>1. st2 = RemoveOther(st, h)
    BY <1>1, <1>5 DEF Simple
  <2> QED  BY <2>1, OtherKept
<1>6. CASE action = "changeAnother"
  <2>1. st2 = ChangeAnother(st, h)
    BY <1>1, <1>6 DEF Simple
  <2> QED  BY <2>1, AnotherKept
<1> QED  BY <1>2, <1>3, <1>4, <1>5, <1>6 DEF OnRemove

\* removeComponent of Hooked.
LEMMA RemoveHookedKept ==
    ASSUME HooksAssumption, hooks.onRemove \in OnRemove, NEW st, Kept(st), NEW h \in st.live,
           NEW st2, st2 = RemoveHooked(st, h), Bounded(st2)
    PROVE  Kept(st2) /\ h \in st2.live /\ Spares(st, st2, {h})
<1>0. PICK after, from, r, old, stays, moved, done :
          /\ after = Simple(st, h, hooks.onRemove)
          /\ from = TypeIn(st, h) /\ r = RowIn(st, h)
          /\ old = (IF r < Len(after.rows[from]) THEN after.rows[from][r + 1].value
                    ELSE st.rows[from][r + 1].value)
          /\ stays = (TypeIn(after, h) = from /\ RowIn(after, h) = r)
          /\ moved = MigrateIn(after, h, from, from \ {Hooked}, r, old)
          /\ done = RemoveIn(st, after, h, Hooked)
  OBVIOUS
<1>1. Shaped(st) /\ Passes(st, h)
  BY KeptIsShaped, AbortGrows DEF RemoveHooked, Shaped
<1>2. CASE Hooked \notin from
  BY <1>0, <1>1, <1>2, SparesItself DEF RemoveHooked
<1>3. CASE Hooked \in from
  <2>1. st2 = Written(st, after, done, h)
    BY <1>0, <1>1, <1>3 DEF RemoveHooked
  <2>2. Grows(st, after) /\ Grows(after, done)
    BY <1>0, SimpleGrows, RemoveGrows
  <2>3. Grows(done, st2) /\ (Shaped(done) /\ Bounded(st2) => st2 = done)
    BY <2>1, WrittenGrows
  <2>4. st2 = done /\ Bounded(after)
    BY <1>1, <2>2, <2>3 DEF Grows
  <2>5. Kept(after) /\ h \in after.live /\ Spares(st, after, {})
    BY <1>0, <2>4, SimpleKept
  <2>6. done = [moved EXCEPT !.steady = @ /\ stays]
    BY Zenon, <1>0 DEF RemoveIn
  <2>7. IsStore(moved)
    BY <1>0, <2>5 DEF MigrateIn, IsStore, Kept, Sound
  <2>8. /\ done.rec = moved.rec /\ done.free = moved.free /\ done.rows = moved.rows
        /\ done.live = moved.live /\ done.dead = moved.dead /\ done.ok = moved.ok
        /\ done.steady = (moved.steady /\ stays) /\ IsStore(done)
    BY <2>6, <2>7 DEF IsStore
  <2>9. TypeIn(after, h) = from /\ RowIn(after, h) = r
    BY <1>0, <2>4, <2>8 DEF Bounded
  <2>10. moved = MoveTo(after, h, from \ {Hooked})
    <3>1. Sound(after)
      BY <2>5 DEF Kept
    <3>2. r < Len(after.rows[from])
      BY <1>3, <2>5, <2>9, <3>1, ReadsContents DEF Readable
    <3>3. from # RootType
      BY <1>3 DEF RootType
    <3> QED  BY <1>0, <2>9, <3>2, <3>3 DEF MoveTo
  <2>11. from \ {Hooked} \in TableType /\ from \ {Hooked} # from
    BY <1>0, <1>3, ReadsContents DEF Kept, TableType
  <2>12. Kept(moved) /\ moved.live = after.live /\ Spares(after, moved, {h})
    BY <2>5, <2>9, <2>10, <2>11, MoveSpares
  <2>13. Kept(done) /\ Bar(done) = Bar(moved)
    BY <2>8, <2>12 DEF Kept, Sound, Bar
  <2>14. Spares(after, done, {h})
    BY <2>8, <2>12, <2>13 DEF Spares
  <2>15. Spares(st, done, {h})
    BY <2>5, <2>14, SparesTwice, SparesFewer
  <2> QED  BY <2>4, <2>5, <2>8, <2>12, <2>13, <2>15
<1> QED  BY <1>2, <1>3

\* h is bare, and table 0 lists it.
ListedBare(st, h) == TypeIn(st, h) = RootType /\ At(st.rec, st.rows, h)

\* Where h is gone: its record is that of a destroyed entity.
Gone(st, h) == TypeIn(st, h) = RootType /\ ~AliveIn(st, h)

\* destroyEntity.
LEMMA DestroyHookedKept ==
    ASSUME HooksAssumption, hooks.onRemove \in OnRemove, NEW st, Kept(st), NEW h \in st.live,
           ~ListedBare(st, h), NEW st2, st2 = DestroyHooked(st, h), Bounded(st2)
    PROVE  Kept(st2) /\ Gone(st2, h) /\ Spares(st, st2, {h})
<1>0. PICK t, r, after, done :
          /\ t = TypeIn(st, h) /\ r = RowIn(after, h)
          /\ after = (IF Hooked \in t THEN Simple(st, h, hooks.onRemove) ELSE st)
          /\ done = RetireIn(st, after, h)
  <2>1. PICK t, after : t = TypeIn(st, h)
                        /\ after = (IF Hooked \in t THEN Simple(st, h, hooks.onRemove) ELSE st)
    OBVIOUS
  <2> QED  BY <2>1
<1>1. Shaped(st) /\ Passes(st, h)
  BY KeptIsShaped, AbortGrows DEF DestroyHooked, Shaped
<1>2. st2 = Written(st, after, done, h)
  BY <1>0, <1>1 DEF DestroyHooked
<1>3. Grows(st, after)
  BY <1>0, SimpleGrows, GrowsItself
<1>4. Grows(after, done) /\ (Shaped(after) => h \in done.dead)
  BY <1>0, RetireGrows DEF RetireIn
<1>5. Grows(done, st2) /\ (Shaped(done) /\ Bounded(st2) => st2 = done)
  BY <1>2, WrittenGrows
<1>6. st2 = done /\ Bounded(after) /\ h \in st2.dead
  BY <1>1, <1>3, <1>4, <1>5 DEF Grows
<1>7. Kept(after) /\ h \in after.live /\ Spares(st, after, {})
  BY <1>0, <1>6, SimpleKept, SparesItself
<1>8. st2 = RetireFrom(after, h, t, r)
  BY <1>0, <1>6 DEF RetireIn
<1>9. TypeIn(after, h) = t
  <2>1. IsStore(after)
    BY <1>7 DEF Kept, Sound
  <2>2. st2.steady = (after.steady /\ TypeIn(after, h) = t)
    BY <1>8, <2>1 DEF RetireFrom, IsStore
  <2> QED  BY <2>2 DEF Bounded
<1>10. ~(t = RootType /\ At(after.rec, after.rows, h))
  <2>1. CASE Hooked \in t
    BY <2>1 DEF RootType
  <2>2. CASE Hooked \notin t
    BY <1>0, <2>2 DEF ListedBare
  <2> QED  BY <2>1, <2>2
<1>11. h.generation < Generations - 1
  BY <1>6 DEF Bounded
<1>12. /\ Kept(st2) /\ st2.live = after.live \ {h}
       /\ Remaining(Bar(after), Bar(st2), h)
       /\ TypeIn(st2, h) = RootType /\ ~AliveIn(st2, h)
  <2>1. t = TypeIn(after, h) /\ r = RowIn(after, h)
    BY <1>0, <1>9
  <2> QED  BY ONLY <1>7, <1>8, <1>10, <1>11, <2>1, RetireKept
<1>13. Spares(after, st2, {h})
  <2>1. DOMAIN Bar(after) = after.live
    BY DEF Bar, ContentsOf
  <2> QED  BY <1>12, <2>1 DEF Spares, SameAt, Remaining
<1>14. Spares(st, st2, {h})
  BY <1>7, <1>13, SparesTwice, SparesFewer
<1> QED  BY <1>12, <1>14 DEF Gone

\* What runs for h keeps the store in order, leaves others what they have of
\* Hooked, and at most destroys h.
Serves(st, st2, h) ==
    Kept(st2) /\ Spares(st, st2, {h}) /\ (h \in st2.live \/ Gone(st2, h))

\* An onAdd or onSet hook.
LEMMA RunKept ==
    ASSUME HooksAssumption, hooks.onRemove \in OnRemove, NEW st, Kept(st), NEW h \in st.live,
           NEW action \in OnAddOrSet, action = "destroy" => ~ListedBare(st, h),
           NEW st2, st2 = Run(st, h, action), Bounded(st2)
    PROVE  Serves(st, st2, h)
<1>1. CASE action \in OnRemove
  <2>1. action # "removeSelf" /\ action # "destroy"
    BY <1>1 DEF OnRemove
  <2>2. st2 = Simple(st, h, action)
    BY <1>1, <2>1 DEF Run
  <2>3. Kept(st2) /\ st.live \subseteq st2.live /\ Spares(st, st2, {})
    BY <1>1, <2>2, SimpleKept
  <2> QED  BY <2>3, SparesFewer DEF Serves
<1>2. CASE action = "removeSelf"
  <2>1. st2 = RemoveHooked(st, h)
    BY <1>2 DEF Run, OnRemove
  <2> QED  BY <2>1, RemoveHookedKept DEF Serves
<1>3. CASE action = "destroy"
  <2>1. st2 = DestroyHooked(st, h)
    BY <1>3 DEF Run, OnRemove
  <2> QED  BY <1>3, <2>1, DestroyHookedKept DEF Serves
<1> QED  BY <1>1, <1>2, <1>3 DEF OnAddOrSet

\* addComponent of Hooked.
LEMMA AddHookedKept ==
    ASSUME HooksAssumption, hooks.onAdd \in OnAddOrSet, hooks.onRemove \in OnRemove,
           NEW st, Kept(st), NEW h \in st.live,
           NEW st2, st2 = AddHooked(st, h), Bounded(st2)
    PROVE  Serves(st, st2, h)
<1>0. PICK from, to, moved : /\ from = TypeIn(st, h) /\ to = from \cup {Hooked}
                             /\ moved = MoveTo(st, h, to)
  OBVIOUS
<1>1. Passes(st, h)
  BY KeptIsShaped, AbortGrows DEF AddHooked, Shaped
<1>2. CASE Hooked \in from
  <2>1. st2 = st
    BY <1>0, <1>1, <1>2 DEF AddHooked
  <2> QED  BY <2>1, SparesItself DEF Serves
<1>3. CASE Hooked \notin from
  <2>1. st2 = Run(moved, h, hooks.onAdd)
    BY <1>0, <1>1, <1>3 DEF AddHooked
  <2>2. to \in TableType /\ to # from
    BY <1>0, <1>3, ReadsContents DEF Kept, TableType, HooksAssumption
  <2>3. Kept(moved) /\ moved.live = st.live /\ TypeIn(moved, h) = to /\ Spares(st, moved, {h})
    <3>1. Kept(st) /\ h \in st.live /\ h \in {h}
      OBVIOUS
    <3>2. to # TypeIn(st, h) /\ moved = MoveTo(st, h, to)
      BY <1>0, <2>2
    <3> QED  BY ONLY <2>2, <3>1, <3>2, MoveSpares
  <2>4. ~ListedBare(moved, h)
    BY <1>0, <2>3 DEF ListedBare, RootType
  <2>5. Serves(moved, st2, h)
    BY <2>1, <2>3, <2>4, RunKept
  <2> QED  BY <2>3, <2>5, SparesTwice DEF Serves
<1> QED  BY <1>2, <1>3

\* setComponent of Hooked.
LEMMA SetHookedKept ==
    ASSUME HooksAssumption,
           hooks.onAdd \in OnAddOrSet, hooks.onSet \in OnAddOrSet, hooks.onRemove \in OnRemove,
           NEW st, Kept(st), NEW h \in st.live, NEW v \in Payload,
           NEW st2, st2 = SetHooked(st, h, v), Bounded(st2),
           h \in st2.dead => ~ListedBare(st, h)
    PROVE  /\ Kept(st2) /\ h \in st2.live /\ Hooked \in TypeIn(st2, h)
           /\ Bar(st2)[h][Hooked] = v /\ Spares(st, st2, {h})
<1>0. PICK set, added, put :
          /\ set = (IF Passes(st, h) THEN Run(st, h, hooks.onSet) ELSE Abort(st))
          /\ added = AddHooked(set, h) /\ put = Put(added, h, Hooked, v)
  <2>1. PICK set : set = (IF Passes(st, h) THEN Run(st, h, hooks.onSet) ELSE Abort(st))
    OBVIOUS
  <2> QED  BY <2>1
<1>1. Shaped(st)
  BY KeptIsShaped
<1>2. Grows(st, set) /\ Grows(set, added) /\ Grows(added, put)
  BY <1>0, RunGrows, AbortGrows, AddHookedGrows, PutGrows
<1>3. Shaped(set) /\ Shaped(added)
  BY <1>1, <1>2 DEF Grows
<1>4. st2 = put /\ Hooked \in TypeIn(added, h)
  <2>1. st2 # Abort(added)
    BY <1>3, AbortGrows DEF Shaped
  <2> QED  BY <1>0, <2>1 DEF SetHooked
<1>5. Bounded(added) /\ Bounded(set) /\ set.dead \subseteq st2.dead
  BY <1>1, <1>2, <1>3, <1>4 DEF Grows
<1>6. set = Run(st, h, hooks.onSet)
  <2>1. set # Abort(st)
    BY <1>1, <1>5, AbortGrows DEF Shaped
  <2> QED  BY <1>0, <2>1
<1>7. hooks.onSet = "destroy" => ~ListedBare(st, h)
  <2> SUFFICES ASSUME hooks.onSet = "destroy" PROVE ~ListedBare(st, h)
    OBVIOUS
  <2>1. set = DestroyHooked(st, h)
    BY <1>6 DEF Run, OnRemove
  <2>2. h \in set.dead
    BY <1>1, <1>5, <2>1, DestroyHookedGrows
  <2> QED  BY <1>5, <2>2
<1>8. Serves(st, set, h)
  BY <1>5, <1>6, <1>7, RunKept
<1>9. h \in set.live
  <2> SUFFICES ASSUME ~AliveIn(set, h) PROVE FALSE
    BY <1>8 DEF Serves, Gone
  <2>1. added = Abort(set)
    BY <1>0 DEF AddHooked, Passes
  <2> QED  BY <1>3, <1>5, <2>1, AbortGrows DEF Shaped
<1>10. Serves(set, added, h)
  BY <1>0, <1>5, <1>8, <1>9, AddHookedKept DEF Serves
<1>11. Kept(added) /\ h \in added.live
  BY <1>4, <1>10 DEF Serves, Gone, RootType
<1>12. PICK w, w2 : w = Bar(added) /\ w2 = Bar(st2)
  OBVIOUS
<1>13. Kept(st2) /\ st2.live = added.live /\ w2 = [w EXCEPT ![h] = Having(@, Hooked, v)]
  BY <1>0, <1>4, <1>11, <1>12, PutKept
<1>14. DOMAIN w = added.live /\ TypeIn(st2, h) = DOMAIN w2[h]
  <2>1. DOMAIN w = added.live
    BY <1>12 DEF Bar, ContentsOf
  <2>2. Sound(st2) /\ h \in st2.live
    BY <1>11, <1>13 DEF Kept
  <2> QED  BY <1>12, <2>1, <2>2, TypeIsDomain
<1>15. w2[h] = Having(w[h], Hooked, v) /\ \A p \in added.live \ {h} : w2[p] = w[p]
  BY <1>11, <1>13, <1>14
<1>16. Spares(added, st2, {h})
  BY <1>12, <1>13, <1>15 DEF Spares, SameAt
<1>17. Spares(st, st2, {h})
  BY <1>8, <1>10, <1>16, SparesTwice DEF Serves
<1> QED  BY <1>11, <1>12, <1>13, <1>14, <1>15, <1>17 DEF Having

-----------------------------------------------------------------------------
(* The invariant of hooks *)

\* No call in progress; what is known of the storage then.
HookInv ==
    /\ Kept(Store)
    /\ hooks \in [onAdd : OnAddOrSet, onSet : OnAddOrSet, onRemove : OnRemove]

\* What it says of the variables.
LEMMA KeptParts ==
    Kept(Store) <=> /\ TablesRight(rec, rows, live) /\ FreeRight(rec, free, live)
                    /\ Held(rec, free, live) /\ Buried(rec, dead) /\ ~aborted
BY StoreFields DEF Kept, Sound

\* A call that keeps a store in order keeps the storage in order.
LEMMA BecomesKept ==
    ASSUME HookInv, NEW st2, Kept(st2), Becomes(st2)
    PROVE  Kept(Store)' /\ rec' = st2.rec /\ rows' = st2.rows /\ live' = st2.live
<1>1. st2.ok = TRUE /\ ~aborted
  BY KeptParts DEF HookInv, Kept, Sound
<1>2. /\ rec' = st2.rec /\ free' = st2.free /\ rows' = st2.rows /\ live' = st2.live
      /\ dead' = st2.dead /\ aborted' = aborted
  BY <1>1 DEF Becomes
<1>3. /\ TablesRight(rec', rows', live') /\ FreeRight(rec', free', live')
      /\ Held(rec', free', live') /\ Buried(rec', dead') /\ ~aborted'
  BY <1>1, <1>2 DEF Kept, Sound
<1>4. (/\ TablesRight(rec, rows, live) /\ FreeRight(rec, free, live)
       /\ Held(rec, free, live) /\ Buried(rec, dead) /\ ~aborted)'
  BY <1>3
<1> QED  BY <1>2, <1>4, KeptParts, PTL

\* createEntity runs no hooks.
LEMMA CreateCall ==
    ASSUME HookInv, Create
    PROVE  Kept(Store)'
<1>0. PICK st2 : st2 = CreateIn(Store)
  OBVIOUS
<1>1. Kept(Store) /\ ~aborted /\ aborted' = aborted
  BY KeptParts DEF HookInv, Create
<1>2. CASE NewIndex
  <2>1. /\ free = << >> /\ Len(rec) < MaxEntities /\ rows' = rows /\ dead' = dead /\ free' = free
        /\ rec' = Append(rec, [type |-> RootType, row |-> 0, generation |-> 0])
        /\ live' = live \cup {[index |-> Len(rec) + 1, generation |-> 0]}
    BY <1>2 DEF NewIndex
  <2>2. /\ st2.rec = rec' /\ st2.free = free' /\ st2.rows = rows' /\ st2.live = live'
        /\ st2.dead = dead' /\ st2.ok = ~aborted
    BY <1>0, <2>1 DEF CreateIn, Store
  <2>3. Becomes(st2)
    BY <1>1, <2>2 DEF Becomes
  <2>4. Len(st2.rec) <= MaxEntities
    <3>1. rec \in Seq(Record) /\ Len(rec) \in Nat
      BY <1>1, KeptIsShaped, StoreFields
    <3>2. Len(Append(rec, [type |-> RootType, row |-> 0, generation |-> 0])) = Len(rec) + 1
      BY <3>1, OneLonger DEF IsSeq
    <3> QED  BY <2>1, <2>2, <3>1, <3>2, StorageAssumption
  <2>5. Store.free = << >>
    BY <2>1, StoreFields
  <2>6. Kept(st2)
    BY <1>0, <1>1, <2>4, <2>5, NewKept
  <2> QED  BY <2>3, <2>6, BecomesKept
<1>3. CASE RecycledIndex
  <2>0. PICK i : i = free[Len(free)]
    OBVIOUS
  <2>1. /\ free # << >> /\ rows' = rows /\ dead' = dead /\ rec' = Relocate(rec, i, RootType, 0)
        /\ live' = live \cup {[index |-> i, generation |-> rec[i].generation]}
        /\ free' = SubSeq(free, 1, Len(free) - 1)
    BY <1>3, <2>0 DEF RecycledIndex, HandleOf
  <2>2. /\ st2.rec = rec' /\ st2.free = free' /\ st2.rows = rows' /\ st2.live = live'
        /\ st2.dead = dead' /\ st2.ok = ~aborted
    BY <1>0, <2>0, <2>1 DEF CreateIn, Store, Last, Front
  <2>3. Becomes(st2)
    BY <1>1, <2>2 DEF Becomes
  <2>5. Store.free # << >>
    BY <2>1, StoreFields
  <2>6. Kept(st2)
    BY <1>0, <1>1, <2>5, RecycledKept
  <2> QED  BY <2>3, <2>6, BecomesKept
<1> QED  BY <1>2, <1>3 DEF Create, CreateEntity

\* What a call starts with and ends with.
LEMMA CallParts ==
    ASSUME HookInv, NEW st2, ClientCall(st2), NEW h \in live
    PROVE  /\ Kept(Store) /\ h \in Store.live /\ Bounded(st2) /\ Becomes(st2)
           /\ hooks.onAdd \in OnAddOrSet /\ hooks.onSet \in OnAddOrSet /\ hooks.onRemove \in OnRemove
           /\ h \in st2.dead => ~ListedBare(Store, h)
<1>1. Bounded(st2) /\ Becomes(st2)
  BY DEF ClientCall, Disciplined, Bounded
<1>2. Kept(Store) /\ h \in Store.live
  BY StoreFields DEF HookInv
<1>3. hooks.onAdd \in OnAddOrSet /\ hooks.onSet \in OnAddOrSet /\ hooks.onRemove \in OnRemove
  BY DEF HookInv
<1>4. h \in st2.dead => ~(TypeOf(h) = RootType /\ Listed(h))
  BY DEF ClientCall, Disciplined
<1>5. ListedBare(Store, h) <=> TypeOf(h) = RootType /\ Listed(h)
  BY StoreFields DEF ListedBare, TypeIn, At, TypeOf, Listed, RowOfEntity
<1> QED  BY <1>1, <1>2, <1>3, <1>4, <1>5

\* addComponent, removeComponent, destroyEntity, and Other as it comes and goes.
LEMMA CallKept ==
    ASSUME HooksAssumption, HookInv, NEW h \in live,
           NEW st2 \in {AddHooked(Store, h), RemoveHooked(Store, h), DestroyHooked(Store, h),
                        AddIn(Store, h, Other), RemoveOther(Store, h)},
           ClientCall(st2)
    PROVE  Kept(Store)'
<1>1. /\ Kept(Store) /\ h \in Store.live /\ Bounded(st2) /\ Becomes(st2)
      /\ hooks.onAdd \in OnAddOrSet /\ hooks.onRemove \in OnRemove
      /\ h \in st2.dead => ~ListedBare(Store, h)
  BY CallParts
<1>2. Kept(st2)
  <2>1. CASE st2 = AddHooked(Store, h)
    BY <1>1, <2>1, AddHookedKept DEF Serves
  <2>2. CASE st2 = RemoveHooked(Store, h)
    BY <1>1, <2>2, RemoveHookedKept
  <2>3. CASE st2 = DestroyHooked(Store, h)
    <3>1. h \in st2.dead
      BY <1>1, <2>3, DestroyHookedGrows, KeptIsShaped
    <3> QED  BY <1>1, <2>3, <3>1, DestroyHookedKept
  <2>4. CASE st2 \in {AddIn(Store, h, Other), RemoveOther(Store, h)}
    BY <1>1, <2>4, OtherKept
  <2> QED  BY <2>1, <2>2, <2>3, <2>4
<1> QED  BY <1>1, <1>2, BecomesKept

\* setComponent, after which h has the value.
LEMMA SetCallKept ==
    ASSUME HooksAssumption, HookInv, NEW h \in live, NEW v \in Value, SetCall(h, v)
    PROVE  /\ Kept(Store)' /\ h \in live'
           /\ Hooked \in TypeOf(h)' /\ ValueOf(h)' = v
           /\ \A p \in live \ {h} : Hooked \in TypeOf(p) => ValueOf(p)' = ValueOf(p)
<1>0. PICK st2 : st2 = SetHooked(Store, h, v)
  OBVIOUS
<1>1. /\ Kept(Store) /\ h \in Store.live /\ Bounded(st2) /\ Becomes(st2)
      /\ hooks.onAdd \in OnAddOrSet /\ hooks.onSet \in OnAddOrSet /\ hooks.onRemove \in OnRemove
      /\ h \in st2.dead => ~ListedBare(Store, h)
  BY <1>0, CallParts DEF SetCall
<1>2. v \in Payload
  BY DEF Payload
<1>3. /\ Kept(st2) /\ h \in st2.live /\ Hooked \in TypeIn(st2, h)
      /\ Bar(st2)[h][Hooked] = v /\ Spares(Store, st2, {h})
  BY <1>0, <1>1, <1>2, SetHookedKept
<1>4. Kept(Store)' /\ rec' = st2.rec /\ rows' = st2.rows /\ live' = st2.live
  BY <1>1, <1>3, BecomesKept
<1>5. ASSUME NEW p \in st2.live, Hooked \in DOMAIN Bar(st2)[p]
      PROVE  Hooked \in TypeOf(p)' /\ ValueOf(p)' = Bar(st2)[p][Hooked]
  <2>1. TypeOf(p)' = TypeIn(st2, p)
    BY <1>4 DEF TypeOf, TypeIn
  <2>2. TypeIn(st2, p) = DOMAIN Bar(st2)[p] /\ Get(st2, p, Hooked) = Bar(st2)[p][Hooked]
    <3>1. Sound(st2)
      BY <1>3 DEF Kept
    <3> QED  BY <1>5, <3>1, ReadsContents
  <2>3. ValueOf(p)' = Get(st2, p, Hooked)
    BY <1>4 DEF ValueOf, Contents, TypeOf, RowOfEntity, Get, TypeIn, RowIn
  <2> QED  BY <1>5, <2>1, <2>2, <2>3
<1>6. ASSUME NEW p \in live \ {h}, Hooked \in TypeOf(p)
      PROVE  ValueOf(p)' = ValueOf(p)
  <2>1. TypeOf(p) = TypeIn(Store, p) /\ p \in Store.live /\ Sound(Store)
    BY <1>1, StoreFields DEF TypeOf, TypeIn, Kept
  <2>2. TypeIn(Store, p) = DOMAIN Bar(Store)[p] /\ Get(Store, p, Hooked) = Bar(Store)[p][Hooked]
    BY <1>6, <2>1, ReadsContents
  <2>3. ValueOf(p) = Get(Store, p, Hooked)
    BY StoreFields DEF ValueOf, Contents, TypeOf, RowOfEntity, Get, TypeIn, RowIn
  <2>4. p \in st2.live /\ Hooked \in DOMAIN Bar(st2)[p]
        /\ Bar(st2)[p][Hooked] = Bar(Store)[p][Hooked]
    BY <1>3, <1>6, <2>1, <2>2 DEF Spares, SameAt
  <2> QED  BY <1>5, <2>2, <2>3, <2>4
<1>7. Hooked \in DOMAIN Bar(st2)[h]
  <2>1. Sound(st2)
    BY <1>3 DEF Kept
  <2> QED  BY <1>3, <2>1, TypeIsDomain
<1> QED  BY <1>3, <1>4, <1>5, <1>6, <1>7

\* At the start nothing is stored.
LEMMA HookStart == HooksInit => HookInv
<1> SUFFICES ASSUME HooksInit PROVE HookInv
  OBVIOUS
<1>1. /\ rec = << >> /\ free = << >> /\ rows = [t \in TableType |-> << >>]
      /\ live = {} /\ dead = {} /\ ~aborted
  BY DEF HooksInit, OpInit, Init
<1>2. TablesRight(rec, rows, live)
  BY <1>1, StorageAssumption DEF TablesRight, Typed, Backed, Placed
<1>3. FreeRight(rec, free, live)
  BY <1>1 DEF FreeRight
<1>4. Held(rec, free, live) /\ Buried(rec, dead)
  BY <1>1 DEF Held, Buried
<1> QED  BY <1>1, <1>2, <1>3, <1>4, KeptParts DEF HookInv, HooksInit

\* Every call keeps it.
LEMMA HookStep ==
    ASSUME HooksAssumption, HookInv, [HooksNext]_hookVars
    PROVE  HookInv'
<1>1. hooks' = hooks
  BY DEF HooksNext, hookVars
<1>2. Kept(Store)'
  <2>1. CASE UNCHANGED hookVars
    <3>1. UNCHANGED <<rec, free, rows, live, dead, aborted>>
      BY <2>1 DEF hookVars, opVars
    <3>2. (/\ TablesRight(rec, rows, live) /\ FreeRight(rec, free, live)
           /\ Held(rec, free, live) /\ Buried(rec, dead) /\ ~aborted)'
      BY <3>1, KeptParts DEF HookInv
    <3> QED  BY <3>2, KeptParts, PTL
  <2>2. CASE Create
    BY <2>2, CreateCall
  <2>3. ASSUME NEW h \in live, AddCall(h) \/ RemoveCall(h) \/ DestroyCall(h) \/ ChangeOther(h)
        PROVE  Kept(Store)'
    BY <2>3, CallKept DEF AddCall, RemoveCall, DestroyCall, ChangeOther
  <2>4. ASSUME NEW h \in live, NEW v \in Value, SetCall(h, v)
        PROVE  Kept(Store)'
    BY <2>4, SetCallKept
  <2> QED  BY <2>1, <2>2, <2>3, <2>4 DEF HooksNext
<1> QED  BY <1>1, <1>2 DEF HookInv

\* The storage is in order between calls, and hooks stay what they are.
LEMMA HookInvariance ==
    ASSUME HooksAssumption
    PROVE  HooksSpec => []HookInv
<1>1. HookInv /\ [HooksNext]_hookVars => HookInv'
  BY HookStep
<1> QED  BY <1>1, HookStart, PTL DEF HooksSpec

\* After every operation the records, the rows, the free list and the handles
\* agree, although an operation and its hooks change them in turns.
THEOREM HooksLeaveStorageRight ==
    ASSUME HooksAssumption
    PROVE  HooksSpec => []StorageAgrees
<1>1. HookInv => StorageAgrees
  <2> SUFFICES ASSUME HookInv PROVE StorageAgrees
    OBVIOUS
  <2>1. /\ TablesRight(rec, rows, live) /\ FreeRight(rec, free, live)
        /\ Held(rec, free, live) /\ Buried(rec, dead)
    BY KeptParts DEF HookInv
  <2>2. RecordsLocateRows
    BY <2>1 DEF RecordsLocateRows, TablesRight, Placed, At, Listed, TypeOf, RowOfEntity
  <2>3. RowsLocateRecords
    <3> SUFFICES ASSUME NEW t \in TableType \ {RootType}, NEW j \in DOMAIN rows[t]
                 PROVE  LET h == rows[t][j].entity
                        IN  h \in live /\ TypeOf(h) = t /\ RowOfEntity(h) = j - 1
      BY DEF RowsLocateRecords
    <3>1. j \in 1 .. Len(rows[t])
      BY <2>1 DEF TablesRight, Typed
    <3>2. RecordedAt(rec, live, rows[t][j].entity, t, j - 1)
      BY <2>1, <3>1 DEF TablesRight, Backed
    <3> QED  BY <3>2 DEF RecordedAt, TypeOf, RowOfEntity
  <2>4. IndicesAccountedFor
    <3>1. free \in Seq(1 .. Len(rec)) /\ DOMAIN free = 1 .. Len(free)
      BY <2>1 DEF FreeRight
    <3>2. \A h \in live : IsAlive(h)
      BY <2>1 DEF TablesRight, Placed, IsAlive, Allocated
    <3>3. ASSUME NEW i \in Allocated
          PROVE  (\E j \in DOMAIN free : free[j] = i) <=> HandleOf(i) \notin live
      <4>1. HandleOf(i).index = i /\ HandleOf(i) = [index |-> i, generation |-> rec[i].generation]
        BY DEF HandleOf
      <4>2. \A j \in DOMAIN free : free[j] = i => HandleOf(i) \notin live
        BY <2>1, <3>1, <4>1 DEF FreeRight
      <4>3. HandleOf(i) \notin live => \E j \in DOMAIN free : free[j] = i
        BY <2>1, <3>1, <4>1 DEF Held, Allocated
      <4> QED  BY <4>2, <4>3
    <3>4. \A j, k \in DOMAIN free : free[j] = free[k] => j = k
      BY <2>1, <3>1 DEF FreeRight
    <3> QED  BY <3>2, <3>3, <3>4 DEF IndicesAccountedFor
  <2>5. DestroyedStayDead
    <3> SUFFICES ASSUME NEW h \in dead, IsAlive(h) PROVE FALSE
      BY DEF DestroyedStayDead
    <3>1. h \in Handle /\ h.generation < rec[h.index].generation /\ rec[h.index].generation = h.generation
      BY <2>1 DEF Buried, IsAlive
    <3>2. h.generation \in Nat
      BY <3>1, StorageAssumption DEF Handle
    <3> QED  BY <3>1, <3>2
  <2> QED  BY <2>2, <2>3, <2>4, <2>5 DEF StorageAgrees
<1> QED  BY <1>1, HookInvariance, PTL

\* An entity whose component was set has it, with the value it was given, and
\* others have of it what they had, whatever the hooks on the way have done.
THEOREM SettingSurvivesHooks ==
    ASSUME HooksAssumption
    PROVE  HooksSpec => SetWins
<1>1. HookInv => SettingWins
  BY SetCallKept DEF SettingWins
<1>2. HooksSpec => [][SettingWins]_hookVars
  BY <1>1, HookInvariance, PTL
<1> QED  BY <1>2 DEF SetWins

=============================================================================
