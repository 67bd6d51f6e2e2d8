---------------------------- MODULE CommandsProofs ----------------------------
(***************************************************************************)
(* Theorems about Commands, for every set of entities and components,      *)
(* every size of component and every number of queued commands.            *)
(***************************************************************************)
EXTENDS Commands, Integers, SequenceTheorems, TLAPS

AddFold == INSTANCE SequenceFolds WITH Op <- ApplyAdd
RemoveFold == INSTANCE SequenceFolds WITH Op <- ApplyRemove
SetFold == INSTANCE SequenceFolds WITH Op <- ApplySet
KillFold == INSTANCE SequenceFolds WITH Op <- ApplyKill

-----------------------------------------------------------------------------
(* One command *)

StoreTyped(s) ==
    /\ DOMAIN s \subseteq used
    /\ \A h \in DOMAIN s : /\ DOMAIN s[h] \subseteq Component
                           /\ \A c \in DOMAIN s[h] : s[h][c] \in Value

CommandRead == [entity : Handle, cid : Component, read : Value]

\* Stores s and u agree but for component c of h, which u binds to v.
Bound(s, u, h, c, v) ==
    /\ DOMAIN u = DOMAIN s
    /\ \A g \in DOMAIN s : \A d :
          IF g = h /\ d = c
          THEN d \in DOMAIN u[g] /\ u[g][d] = v
          ELSE /\ d \in DOMAIN u[g] <=> d \in DOMAIN s[g]
               /\ d \in DOMAIN s[g] => u[g][d] = s[g][d]

\* Stores s and u agree but for component c of h, which u has not.
Unbound(s, u, h, c) ==
    /\ DOMAIN u = DOMAIN s
    /\ \A g \in DOMAIN s : \A d :
          /\ d \in DOMAIN u[g] <=> d \in DOMAIN s[g] /\ ~(g = h /\ d = c)
          /\ d \in DOMAIN u[g] => u[g][d] = s[g][d]

\* Stores s and u agree but for h, which has component c in u if not in s already.
Given(s, u, h, c) ==
    /\ DOMAIN u = DOMAIN s
    /\ \A g \in DOMAIN s : \A d :
          /\ d \in DOMAIN u[g] <=> d \in DOMAIN s[g] \/ (g = h /\ d = c)
          /\ d \in DOMAIN s[g] => u[g][d] = s[g][d]

\* Stores s and u agree but for h, which u has not.
Ended(s, u, h) ==
    /\ DOMAIN u = DOMAIN s \ {h}
    /\ \A g \in DOMAIN u : u[g] = s[g]

\* Bind gives one component of one entity a value.
LEMMA BindProperties ==
    ASSUME NEW s, NEW h \in DOMAIN s, NEW c, NEW v, NEW u, u = Bind(s, h, c, v)
    PROVE  Bound(s, u, h, c, v)
<1>1. /\ DOMAIN u = DOMAIN s
      /\ \A g \in DOMAIN s : g # h => u[g] = s[g]
      /\ DOMAIN u[h] = DOMAIN s[h] \cup {c}
      /\ \A d \in DOMAIN s[h] \cup {c} : u[h][d] = IF d = c THEN v ELSE s[h][d]
  BY DEF Bind
<1> QED  BY ONLY <1>1, h \in DOMAIN s DEF Bound

\* Such a store stays well typed.
LEMMA BoundType ==
    ASSUME NEW s, NEW u, NEW h, NEW c \in Component, NEW v \in Value,
           Bound(s, u, h, c, v), StoreTyped(s)
    PROVE  StoreTyped(u)
BY DEF Bound, StoreTyped

\* A store that loses a component stays well typed.
LEMMA UnboundType ==
    ASSUME NEW s, NEW u, NEW h, NEW c, Unbound(s, u, h, c), StoreTyped(s)
    PROVE  StoreTyped(u)
BY DEF Unbound, StoreTyped

\* addComponent: a component that is there keeps its value.
LEMMA AddOne ==
    ASSUME NEW w, NEW cmd, NEW r, r = ApplyAdd(w, cmd)
    PROVE  /\ cmd \in CommandOn /\ StoreTyped(w.store) => StoreTyped(r.store)
           /\ w.ok = TRUE /\ cmd.entity \in DOMAIN w.store =>
                 r.ok = TRUE /\ Given(w.store, r.store, cmd.entity, cmd.cid)
<1> DEFINE on == w.ok = TRUE /\ cmd.entity \in DOMAIN w.store
           has == cmd.cid \in DOMAIN w.store[cmd.entity]
<1>1. IF on THEN /\ r.ok = TRUE
                 /\ r.store = IF has THEN w.store
                              ELSE Bind(w.store, cmd.entity, cmd.cid, Unspecified)
      ELSE r.store = w.store
  <2>1. r = Guarded(w, cmd.entity,
                    IF has THEN w.store
                    ELSE Bind(w.store, cmd.entity, cmd.cid, Unspecified))
    BY DEF ApplyAdd
  <2> HIDE DEF has
  <2> QED  BY <2>1 DEF Guarded
<1>2. CASE on /\ ~has
  <2>1. Bound(w.store, r.store, cmd.entity, cmd.cid, Unspecified)
    BY <1>1, <1>2, BindProperties
  <2>2. cmd \in CommandOn /\ StoreTyped(w.store) => StoreTyped(r.store)
    BY <2>1, BoundType, CommandsAssumption DEF CommandOn
  <2>3. Given(w.store, r.store, cmd.entity, cmd.cid)
    BY ONLY <1>2, <2>1 DEF Bound, Given
  <2> QED  BY <1>1, <1>2, <2>2, <2>3
<1>3. CASE ~(on /\ ~has)
  <2>1. r.store = w.store /\ (on => has /\ r.ok = TRUE)
    BY <1>1, <1>3
  <2>2. on => Given(w.store, r.store, cmd.entity, cmd.cid)
    BY ONLY <2>1 DEF Given
  <2> QED  BY <2>1, <2>2
<1> QED  BY <1>2, <1>3

\* removeComponent.
LEMMA RemoveOne ==
    ASSUME NEW w, NEW cmd, NEW r, r = ApplyRemove(w, cmd)
    PROVE  /\ StoreTyped(w.store) => StoreTyped(r.store)
           /\ w.ok = TRUE /\ cmd.entity \in DOMAIN w.store =>
                 r.ok = TRUE /\ Unbound(w.store, r.store, cmd.entity, cmd.cid)
<1> DEFINE on == w.ok = TRUE /\ cmd.entity \in DOMAIN w.store
           after == [w.store EXCEPT ![cmd.entity] = Restricted(@, DOMAIN @ \ {cmd.cid})]
<1>1. IF on THEN r.ok = TRUE /\ r.store = after ELSE r.store = w.store
  <2>1. r = Guarded(w, cmd.entity, after)
    BY DEF ApplyRemove
  <2> HIDE DEF after
  <2> QED  BY <2>1 DEF Guarded
<1>2. CASE on
  <2>1. /\ DOMAIN r.store = DOMAIN w.store
        /\ \A g \in DOMAIN w.store : g # cmd.entity => r.store[g] = w.store[g]
        /\ DOMAIN r.store[cmd.entity] = DOMAIN w.store[cmd.entity] \ {cmd.cid}
        /\ \A d \in DOMAIN w.store[cmd.entity] \ {cmd.cid} :
              r.store[cmd.entity][d] = w.store[cmd.entity][d]
    BY <1>1, <1>2 DEF Restricted
  <2>2. Unbound(w.store, r.store, cmd.entity, cmd.cid)
    BY ONLY <1>2, <2>1 DEF Unbound
  <2> QED  BY <1>1, <1>2, <2>2, UnboundType
<1>3. CASE ~on
  BY <1>1, <1>3
<1> QED  BY <1>2, <1>3

\* A queued set: the value found behind the pointer.
LEMMA SetOne ==
    ASSUME NEW w, NEW cmd, NEW r, r = ApplySet(w, cmd)
    PROVE  /\ cmd \in CommandRead /\ StoreTyped(w.store) => StoreTyped(r.store)
           /\ w.ok = TRUE /\ cmd.entity \in DOMAIN w.store =>
                 r.ok = TRUE /\ Bound(w.store, r.store, cmd.entity, cmd.cid, cmd.read)
<1> DEFINE on == w.ok = TRUE /\ cmd.entity \in DOMAIN w.store
<1>1. IF on THEN /\ r.ok = TRUE
                 /\ r.store = Bind(w.store, cmd.entity, cmd.cid, cmd.read)
      ELSE r.store = w.store
  BY DEF ApplySet, Guarded
<1>2. CASE on
  <2>1. Bound(w.store, r.store, cmd.entity, cmd.cid, cmd.read)
    BY <1>1, <1>2, BindProperties
  <2>2. cmd \in CommandRead /\ StoreTyped(w.store) => StoreTyped(r.store)
    BY <2>1, BoundType DEF CommandRead
  <2> QED  BY <1>1, <1>2, <2>1, <2>2
<1>3. CASE ~on
  BY <1>1, <1>3
<1> QED  BY <1>2, <1>3

\* A kill.
LEMMA KillOne ==
    ASSUME NEW w, NEW h, NEW r, r = ApplyKill(w, h)
    PROVE  /\ StoreTyped(w.store) => StoreTyped(r.store)
           /\ w.ok = TRUE /\ h \in DOMAIN w.store =>
                 r.ok = TRUE /\ Ended(w.store, r.store, h)
<1> DEFINE on == w.ok = TRUE /\ h \in DOMAIN w.store
<1>1. IF on THEN r.ok = TRUE /\ r.store = Restricted(w.store, DOMAIN w.store \ {h})
      ELSE r.store = w.store
  BY DEF ApplyKill, Guarded
<1>2. on => Ended(w.store, r.store, h)
  BY <1>1 DEF Restricted, Ended
<1>3. StoreTyped(w.store) => StoreTyped(r.store)
  BY ONLY <1>1, <1>2 DEF StoreTyped, Ended
<1> QED  BY <1>1, <1>2, <1>3
-----------------------------------------------------------------------------
(* One loop of the flush *)

\* The loops in the form SequenceFolds reasons about.
LEMMA LoopsAreFolds ==
    ASSUME NEW w, NEW read
    PROVE  /\ Added(w) = AddFold!Result(w, adds)
           /\ Removed(w) = RemoveFold!Result(w, removes)
           /\ Written(w, read) = SetFold!Result(w, read)
           /\ Killed(w) = KillFold!Result(w, kills)
<1>1. Added(w) = AddFold!Result(w, adds)
  BY DEF Added, FoldLeft, MapThenFoldSet, Max, AddFold!Result, AddFold!Greatest
<1>2. Removed(w) = RemoveFold!Result(w, removes)
  BY DEF Removed, FoldLeft, MapThenFoldSet, Max, RemoveFold!Result, RemoveFold!Greatest
<1>3. Written(w, read) = SetFold!Result(w, read)
  BY DEF Written, FoldLeft, MapThenFoldSet, Max, SetFold!Result, SetFold!Greatest
<1>4. Killed(w) = KillFold!Result(w, kills)
  BY DEF Killed, FoldLeft, MapThenFoldSet, Max, KillFold!Result, KillFold!Greatest
<1> QED  BY <1>1, <1>2, <1>3, <1>4

\* Whatever the commands find, the store stays well typed.
LEMMA AddedType ==
    ASSUME adds \in Seq(CommandOn), NEW w, StoreTyped(w.store)
    PROVE  StoreTyped(Added(w).store)
<1>1. PICK f : /\ f[0] = w
               /\ \A i \in 1 .. Len(adds) : f[i] = ApplyAdd(f[i - 1], adds[i])
               /\ f[Len(adds)] = AddFold!Result(w, adds)
  BY AddFold!FoldLeftSteps
<1> DEFINE S == {i \in 0 .. Len(adds) : StoreTyped(f[i].store)}
<1>2. Len(adds) \in Nat
  OBVIOUS
<1>3. 0 \in S
  BY <1>1, <1>2
<1>4. ASSUME NEW i \in 1 .. Len(adds), i - 1 \in S
      PROVE  i \in S
  <2>1. adds[i] \in CommandOn /\ StoreTyped(f[i - 1].store)
    BY <1>4
  <2>2. f[i] = ApplyAdd(f[i - 1], adds[i])
    BY <1>1
  <2>3. StoreTyped(f[i].store)
    BY ONLY <2>1, <2>2, AddOne
  <2> QED  BY <1>2, <2>3
<1> HIDE DEF S
<1>5. \A i \in 0 .. Len(adds) : i \in S
  BY ONLY <1>2, <1>3, <1>4, AddFold!UpTo
<1> QED  BY <1>1, <1>2, <1>5, LoopsAreFolds DEF S

\* The same for removes,
LEMMA RemovedType ==
    ASSUME removes \in Seq(CommandOn), NEW w, StoreTyped(w.store)
    PROVE  StoreTyped(Removed(w).store)
<1>1. PICK f : /\ f[0] = w
               /\ \A i \in 1 .. Len(removes) : f[i] = ApplyRemove(f[i - 1], removes[i])
               /\ f[Len(removes)] = RemoveFold!Result(w, removes)
  BY RemoveFold!FoldLeftSteps
<1> DEFINE S == {i \in 0 .. Len(removes) : StoreTyped(f[i].store)}
<1>2. Len(removes) \in Nat
  OBVIOUS
<1>3. 0 \in S
  BY <1>1, <1>2
<1>4. ASSUME NEW i \in 1 .. Len(removes), i - 1 \in S
      PROVE  i \in S
  <2>1. removes[i] \in CommandOn /\ StoreTyped(f[i - 1].store)
    BY <1>4
  <2>2. f[i] = ApplyRemove(f[i - 1], removes[i])
    BY <1>1
  <2>3. StoreTyped(f[i].store)
    BY ONLY <2>1, <2>2, RemoveOne
  <2> QED  BY <1>2, <2>3
<1> HIDE DEF S
<1>5. \A i \in 0 .. Len(removes) : i \in S
  BY ONLY <1>2, <1>3, <1>4, RemoveFold!UpTo
<1> QED  BY <1>1, <1>2, <1>5, LoopsAreFolds DEF S

\* for sets,
LEMMA WrittenType ==
    ASSUME NEW read \in Seq(CommandRead), NEW w, StoreTyped(w.store)
    PROVE  StoreTyped(Written(w, read).store)
<1>1. PICK f : /\ f[0] = w
               /\ \A i \in 1 .. Len(read) : f[i] = ApplySet(f[i - 1], read[i])
               /\ f[Len(read)] = SetFold!Result(w, read)
  BY SetFold!FoldLeftSteps
<1> DEFINE S == {i \in 0 .. Len(read) : StoreTyped(f[i].store)}
<1>2. Len(read) \in Nat
  OBVIOUS
<1>3. 0 \in S
  BY <1>1, <1>2
<1>4. ASSUME NEW i \in 1 .. Len(read), i - 1 \in S
      PROVE  i \in S
  <2>1. read[i] \in CommandRead /\ StoreTyped(f[i - 1].store)
    BY <1>4
  <2>2. f[i] = ApplySet(f[i - 1], read[i])
    BY <1>1
  <2>3. StoreTyped(f[i].store)
    BY ONLY <2>1, <2>2, SetOne
  <2> QED  BY <1>2, <2>3
<1> HIDE DEF S
<1>5. \A i \in 0 .. Len(read) : i \in S
  BY ONLY <1>2, <1>3, <1>4, SetFold!UpTo
<1> QED  BY <1>1, <1>2, <1>5, LoopsAreFolds DEF S

\* and for kills.
LEMMA KilledType ==
    ASSUME kills \in Seq(Handle), NEW w, StoreTyped(w.store)
    PROVE  StoreTyped(Killed(w).store)
<1>1. PICK f : /\ f[0] = w
               /\ \A i \in 1 .. Len(kills) : f[i] = ApplyKill(f[i - 1], kills[i])
               /\ f[Len(kills)] = KillFold!Result(w, kills)
  BY KillFold!FoldLeftSteps
<1> DEFINE S == {i \in 0 .. Len(kills) : StoreTyped(f[i].store)}
<1>2. Len(kills) \in Nat
  OBVIOUS
<1>3. 0 \in S
  BY <1>1, <1>2
<1>4. ASSUME NEW i \in 1 .. Len(kills), i - 1 \in S
      PROVE  i \in S
  <2>1. kills[i] \in Handle /\ StoreTyped(f[i - 1].store)
    BY <1>4
  <2>2. f[i] = ApplyKill(f[i - 1], kills[i])
    BY <1>1
  <2>3. StoreTyped(f[i].store)
    BY ONLY <2>1, <2>2, KillOne
  <2> QED  BY <1>2, <2>3
<1> HIDE DEF S
<1>5. \A i \in 0 .. Len(kills) : i \in S
  BY ONLY <1>2, <1>3, <1>4, KillFold!UpTo
<1> QED  BY <1>1, <1>2, <1>5, LoopsAreFolds DEF S

\* The commands of one phase, in the terms of the flush.
AddNamed(h, c) == \E j \in DOMAIN adds : adds[j].entity = h /\ adds[j].cid = c
RemoveNamed(h, c) == \E j \in DOMAIN removes : removes[j].entity = h /\ removes[j].cid = c
Writes(read, h, c) == \E j \in DOMAIN read : read[j].entity = h /\ read[j].cid = c
LastWrite(read, j) == \A k \in DOMAIN read : read[k].entity = read[j].entity
                                             /\ read[k].cid = read[j].cid => k <= j

\* What each loop makes of store s.
AddsDone(s, u) ==
    /\ DOMAIN u = DOMAIN s
    /\ \A h \in DOMAIN s : \A c :
          /\ c \in DOMAIN u[h] <=> c \in DOMAIN s[h] \/ AddNamed(h, c)
          /\ c \in DOMAIN s[h] => u[h][c] = s[h][c]

RemovesDone(s, u) ==
    /\ DOMAIN u = DOMAIN s
    /\ \A h \in DOMAIN s : \A c :
          /\ c \in DOMAIN u[h] <=> c \in DOMAIN s[h] /\ ~RemoveNamed(h, c)
          /\ c \in DOMAIN u[h] => u[h][c] = s[h][c]

SetsDone(read, s, u) ==
    /\ DOMAIN u = DOMAIN s
    /\ \A h \in DOMAIN s : \A c : ~Writes(read, h, c) =>
          /\ c \in DOMAIN u[h] <=> c \in DOMAIN s[h]
          /\ c \in DOMAIN s[h] => u[h][c] = s[h][c]
    /\ \A j \in DOMAIN read : LastWrite(read, j) =>
          /\ read[j].cid \in DOMAIN u[read[j].entity]
          /\ u[read[j].entity][read[j].cid] = read[j].read

KillsDone(s, u) ==
    /\ DOMAIN u = DOMAIN s \ {kills[j] : j \in DOMAIN kills}
    /\ \A h \in DOMAIN u : u[h] = s[h]

\* When every entity lives, the adds give components and take none.
LEMMA AddedEffect ==
    ASSUME adds \in Seq(CommandOn), NEW w, w.ok = TRUE,
           \A j \in DOMAIN adds : adds[j].entity \in DOMAIN w.store,
           NEW r, r = Added(w)
    PROVE  r.ok = TRUE /\ AddsDone(w.store, r.store)
<1>1. PICK f : /\ f[0] = w
               /\ \A i \in 1 .. Len(adds) : f[i] = ApplyAdd(f[i - 1], adds[i])
               /\ f[Len(adds)] = AddFold!Result(w, adds)
  BY AddFold!FoldLeftSteps
<1> DEFINE Done(i) ==
              /\ f[i].ok = TRUE /\ DOMAIN f[i].store = DOMAIN w.store
              /\ \A h \in DOMAIN w.store : \A c :
                    /\ c \in DOMAIN f[i].store[h] <=>
                         \/ c \in DOMAIN w.store[h]
                         \/ \E j \in 1 .. i : adds[j].entity = h /\ adds[j].cid = c
                    /\ c \in DOMAIN w.store[h] => f[i].store[h][c] = w.store[h][c]
           S == {i \in 0 .. Len(adds) : Done(i)}
<1>2. Len(adds) \in Nat /\ DOMAIN adds = 1 .. Len(adds)
  OBVIOUS
<1>3. 0 \in S
  <2>1. 1 .. 0 = {}
    OBVIOUS
  <2> QED  BY <1>1, <1>2, <2>1
<1>4. ASSUME NEW i \in 1 .. Len(adds), i - 1 \in S
      PROVE  i \in S
  <2> PICK a, b, cmd : a = f[i - 1] /\ b = f[i] /\ cmd = adds[i]
    OBVIOUS
  <2>1. /\ a.ok = TRUE /\ DOMAIN a.store = DOMAIN w.store
        /\ \A h \in DOMAIN w.store : \A c :
              /\ c \in DOMAIN a.store[h] <=>
                   \/ c \in DOMAIN w.store[h]
                   \/ \E j \in 1 .. i - 1 : adds[j].entity = h /\ adds[j].cid = c
              /\ c \in DOMAIN w.store[h] => a.store[h][c] = w.store[h][c]
    BY <1>4
  <2>2. b = ApplyAdd(a, cmd) /\ cmd.entity \in DOMAIN a.store
    BY <1>1, <1>2, <2>1
  <2>3. b.ok = TRUE /\ Given(a.store, b.store, cmd.entity, cmd.cid)
    BY ONLY <2>1, <2>2, AddOne
  <2>5. \A h, c : (\E j \in 1 .. i : adds[j].entity = h /\ adds[j].cid = c)
                     <=> \/ \E j \in 1 .. i - 1 : adds[j].entity = h /\ adds[j].cid = c
                         \/ h = cmd.entity /\ c = cmd.cid
    <3>1. \A j : j \in 1 .. i <=> j \in 1 .. i - 1 \/ j = i
      BY <1>2
    <3> QED  BY <3>1
  <2>6. /\ b.ok = TRUE /\ DOMAIN b.store = DOMAIN w.store
        /\ \A h \in DOMAIN w.store : \A c :
              /\ c \in DOMAIN b.store[h] <=>
                   \/ c \in DOMAIN w.store[h]
                   \/ \E j \in 1 .. i : adds[j].entity = h /\ adds[j].cid = c
              /\ c \in DOMAIN w.store[h] => b.store[h][c] = w.store[h][c]
    <3>1. DOMAIN b.store = DOMAIN w.store
      BY <2>1, <2>3 DEF Given
    <3>2. ASSUME NEW h \in DOMAIN w.store, NEW c
          PROVE  /\ c \in DOMAIN b.store[h] <=>
                      \/ c \in DOMAIN w.store[h]
                      \/ \E j \in 1 .. i : adds[j].entity = h /\ adds[j].cid = c
                 /\ c \in DOMAIN w.store[h] => b.store[h][c] = w.store[h][c]
      <4>1. /\ c \in DOMAIN b.store[h] <=>
                 c \in DOMAIN a.store[h] \/ (h = cmd.entity /\ c = cmd.cid)
            /\ c \in DOMAIN a.store[h] => b.store[h][c] = a.store[h][c]
        BY <2>1, <2>3 DEF Given
      <4>2. /\ c \in DOMAIN a.store[h] <=>
                 \/ c \in DOMAIN w.store[h]
                 \/ \E j \in 1 .. i - 1 : adds[j].entity = h /\ adds[j].cid = c
            /\ c \in DOMAIN w.store[h] => a.store[h][c] = w.store[h][c]
        BY <2>1
      <4>3. (\E j \in 1 .. i : adds[j].entity = h /\ adds[j].cid = c)
               <=> \/ \E j \in 1 .. i - 1 : adds[j].entity = h /\ adds[j].cid = c
                   \/ h = cmd.entity /\ c = cmd.cid
        BY <2>5
      <4> QED  BY ONLY <4>1, <4>2, <4>3
    <3> QED  BY <2>3, <3>1, <3>2
  <2> QED  BY <1>2, <2>6
<1> HIDE DEF S
<1>5. \A i \in 0 .. Len(adds) : i \in S
  BY ONLY <1>2, <1>3, <1>4, AddFold!UpTo
<1>6. Done(Len(adds))
  BY <1>2, <1>5 DEF S
<1>7. f[Len(adds)] = r
  BY <1>1, LoopsAreFolds
<1> QED  BY <1>2, <1>6, <1>7 DEF AddsDone, AddNamed

\* The removes take components and change no other.
LEMMA RemovedEffect ==
    ASSUME removes \in Seq(CommandOn), NEW w, w.ok = TRUE,
           \A j \in DOMAIN removes : removes[j].entity \in DOMAIN w.store,
           NEW r, r = Removed(w)
    PROVE  r.ok = TRUE /\ RemovesDone(w.store, r.store)
<1>1. PICK f : /\ f[0] = w
               /\ \A i \in 1 .. Len(removes) : f[i] = ApplyRemove(f[i - 1], removes[i])
               /\ f[Len(removes)] = RemoveFold!Result(w, removes)
  BY RemoveFold!FoldLeftSteps
<1> DEFINE Done(i) ==
              /\ f[i].ok = TRUE /\ DOMAIN f[i].store = DOMAIN w.store
              /\ \A h \in DOMAIN w.store : \A c :
                    /\ c \in DOMAIN f[i].store[h] <=>
                         /\ c \in DOMAIN w.store[h]
                         /\ ~\E j \in 1 .. i : removes[j].entity = h /\ removes[j].cid = c
                    /\ c \in DOMAIN f[i].store[h] => f[i].store[h][c] = w.store[h][c]
           S == {i \in 0 .. Len(removes) : Done(i)}
<1>2. Len(removes) \in Nat /\ DOMAIN removes = 1 .. Len(removes)
  OBVIOUS
<1>3. 0 \in S
  <2>1. 1 .. 0 = {}
    OBVIOUS
  <2> QED  BY <1>1, <1>2, <2>1
<1>4. ASSUME NEW i \in 1 .. Len(removes), i - 1 \in S
      PROVE  i \in S
  <2> PICK a, b, cmd : a = f[i - 1] /\ b = f[i] /\ cmd = removes[i]
    OBVIOUS
  <2>1. /\ a.ok = TRUE /\ DOMAIN a.store = DOMAIN w.store
        /\ \A h \in DOMAIN w.store : \A c :
              /\ c \in DOMAIN a.store[h] <=>
                   /\ c \in DOMAIN w.store[h]
                   /\ ~\E j \in 1 .. i - 1 : removes[j].entity = h /\ removes[j].cid = c
              /\ c \in DOMAIN a.store[h] => a.store[h][c] = w.store[h][c]
    BY <1>4
  <2>2. b = ApplyRemove(a, cmd) /\ cmd.entity \in DOMAIN a.store
    BY <1>1, <1>2, <2>1
  <2>3. b.ok = TRUE /\ Unbound(a.store, b.store, cmd.entity, cmd.cid)
    BY ONLY <2>1, <2>2, RemoveOne
  <2>4. \A h, c : (\E j \in 1 .. i : removes[j].entity = h /\ removes[j].cid = c)
                     <=> \/ \E j \in 1 .. i - 1 : removes[j].entity = h /\ removes[j].cid = c
                         \/ h = cmd.entity /\ c = cmd.cid
    <3>1. \A j : j \in 1 .. i <=> j \in 1 .. i - 1 \/ j = i
      BY <1>2
    <3> QED  BY <3>1
  <2>5. /\ b.ok = TRUE /\ DOMAIN b.store = DOMAIN w.store
        /\ \A h \in DOMAIN w.store : \A c :
              /\ c \in DOMAIN b.store[h] <=>
                   /\ c \in DOMAIN w.store[h]
                   /\ ~\E j \in 1 .. i : removes[j].entity = h /\ removes[j].cid = c
              /\ c \in DOMAIN b.store[h] => b.store[h][c] = w.store[h][c]
    BY ONLY <2>1, <2>3, <2>4 DEF Unbound
  <2> QED  BY <1>2, <2>5
<1> HIDE DEF S
<1>5. \A i \in 0 .. Len(removes) : i \in S
  BY ONLY <1>2, <1>3, <1>4, RemoveFold!UpTo
<1>6. Done(Len(removes))
  BY <1>2, <1>5 DEF S
<1>7. f[Len(removes)] = r
  BY <1>1, LoopsAreFolds
<1> QED  BY <1>2, <1>6, <1>7 DEF RemovesDone, RemoveNamed

\* The last set of a component decides; a component that none names is as before.
LEMMA WrittenEffect ==
    ASSUME NEW read \in Seq(CommandRead), NEW w, w.ok = TRUE,
           \A j \in DOMAIN read : read[j].entity \in DOMAIN w.store,
           NEW r, r = Written(w, read)
    PROVE  r.ok = TRUE /\ SetsDone(read, w.store, r.store)
<1>1. PICK f : /\ f[0] = w
               /\ \A i \in 1 .. Len(read) : f[i] = ApplySet(f[i - 1], read[i])
               /\ f[Len(read)] = SetFold!Result(w, read)
  BY SetFold!FoldLeftSteps
<1> DEFINE Done(i) ==
              /\ f[i].ok = TRUE /\ DOMAIN f[i].store = DOMAIN w.store
              /\ \A h \in DOMAIN w.store : \A c :
                    (\A j \in 1 .. i : ~(read[j].entity = h /\ read[j].cid = c)) =>
                       /\ c \in DOMAIN f[i].store[h] <=> c \in DOMAIN w.store[h]
                       /\ c \in DOMAIN w.store[h] => f[i].store[h][c] = w.store[h][c]
              /\ \A j \in 1 .. i :
                    (\A k \in 1 .. i : read[k].entity = read[j].entity
                                       /\ read[k].cid = read[j].cid => k <= j) =>
                       /\ read[j].cid \in DOMAIN f[i].store[read[j].entity]
                       /\ f[i].store[read[j].entity][read[j].cid] = read[j].read
           S == {i \in 0 .. Len(read) : Done(i)}
<1>2. Len(read) \in Nat /\ DOMAIN read = 1 .. Len(read)
  OBVIOUS
<1>3. 0 \in S
  <2>1. 1 .. 0 = {}
    OBVIOUS
  <2> QED  BY <1>1, <1>2, <2>1
<1>4. ASSUME NEW i \in 1 .. Len(read), i - 1 \in S
      PROVE  i \in S
  <2> PICK a, b, cmd : a = f[i - 1] /\ b = f[i] /\ cmd = read[i]
    OBVIOUS
  <2>1. a.ok = TRUE /\ DOMAIN a.store = DOMAIN w.store
    BY <1>4
  <2>2. \A h \in DOMAIN w.store : \A c :
           (\A j \in 1 .. i - 1 : ~(read[j].entity = h /\ read[j].cid = c)) =>
              /\ c \in DOMAIN a.store[h] <=> c \in DOMAIN w.store[h]
              /\ c \in DOMAIN w.store[h] => a.store[h][c] = w.store[h][c]
    BY <1>4
  <2>3. \A j \in 1 .. i - 1 :
           (\A k \in 1 .. i - 1 : read[k].entity = read[j].entity
                                  /\ read[k].cid = read[j].cid => k <= j) =>
              /\ read[j].cid \in DOMAIN a.store[read[j].entity]
              /\ a.store[read[j].entity][read[j].cid] = read[j].read
    BY <1>4
  <2>4. b = ApplySet(a, cmd) /\ cmd.entity \in DOMAIN a.store
    BY <1>1, <1>2, <2>1
  <2>5. b.ok = TRUE /\ Bound(a.store, b.store, cmd.entity, cmd.cid, cmd.read)
    BY ONLY <2>1, <2>4, SetOne
  <2>6. b.ok = TRUE /\ DOMAIN b.store = DOMAIN w.store
    BY <2>1, <2>5 DEF Bound
  <2>7. \A j : j \in 1 .. i <=> j \in 1 .. i - 1 \/ j = i
    BY <1>2
  <2>8. ASSUME NEW h \in DOMAIN w.store, NEW c,
               \A j \in 1 .. i : ~(read[j].entity = h /\ read[j].cid = c)
        PROVE  /\ c \in DOMAIN b.store[h] <=> c \in DOMAIN w.store[h]
               /\ c \in DOMAIN w.store[h] => b.store[h][c] = w.store[h][c]
    <3>1. ~(cmd.entity = h /\ cmd.cid = c)
      BY <2>7, <2>8
    <3>2. \A j \in 1 .. i - 1 : ~(read[j].entity = h /\ read[j].cid = c)
      BY <2>7, <2>8
    <3> QED  BY ONLY <2>1, <2>2, <2>5, <3>1, <3>2, h \in DOMAIN w.store DEF Bound
  <2>9. ASSUME NEW j \in 1 .. i,
               \A k \in 1 .. i : read[k].entity = read[j].entity
                                 /\ read[k].cid = read[j].cid => k <= j
        PROVE  /\ read[j].cid \in DOMAIN b.store[read[j].entity]
               /\ b.store[read[j].entity][read[j].cid] = read[j].read
    <3>1. CASE j = i
      BY <2>4, <2>5, <3>1 DEF Bound
    <3>2. CASE j # i
      <4>1. j \in 1 .. i - 1 /\ ~(i <= j) /\ i \in 1 .. i /\ j \in DOMAIN read
        BY <1>2, <2>7, <3>2
      <4>2. ~(read[j].entity = cmd.entity /\ read[j].cid = cmd.cid)
        BY <2>9, <4>1
      <4>3. /\ read[j].cid \in DOMAIN a.store[read[j].entity]
            /\ a.store[read[j].entity][read[j].cid] = read[j].read
        BY <2>3, <2>7, <2>9, <4>1
      <4>4. read[j].entity \in DOMAIN a.store
        BY <2>1, <4>1
      <4> QED  BY ONLY <2>5, <4>2, <4>3, <4>4 DEF Bound
    <3> QED  BY <3>1, <3>2
  <2> QED  BY <1>2, <2>6, <2>8, <2>9
<1> HIDE DEF S
<1>5. \A i \in 0 .. Len(read) : i \in S
  BY ONLY <1>2, <1>3, <1>4, SetFold!UpTo
<1>6. Done(Len(read))
  BY <1>2, <1>5 DEF S
<1>7. f[Len(read)] = r
  BY <1>1, LoopsAreFolds
<1> QED  BY <1>2, <1>6, <1>7 DEF SetsDone, Writes, LastWrite

\* Each kill ends one entity, when none is killed twice.
LEMMA KilledEffect ==
    ASSUME kills \in Seq(Handle), NEW w, w.ok = TRUE,
           \A j \in DOMAIN kills : kills[j] \in DOMAIN w.store,
           \A j, k \in DOMAIN kills : kills[j] = kills[k] => j = k,
           NEW r, r = Killed(w)
    PROVE  r.ok = TRUE /\ KillsDone(w.store, r.store)
<1>1. PICK f : /\ f[0] = w
               /\ \A i \in 1 .. Len(kills) : f[i] = ApplyKill(f[i - 1], kills[i])
               /\ f[Len(kills)] = KillFold!Result(w, kills)
  BY KillFold!FoldLeftSteps
<1> DEFINE Done(i) ==
              /\ f[i].ok = TRUE
              /\ DOMAIN f[i].store = DOMAIN w.store \ {kills[j] : j \in 1 .. i}
              /\ \A h \in DOMAIN f[i].store : f[i].store[h] = w.store[h]
           S == {i \in 0 .. Len(kills) : Done(i)}
<1>2. Len(kills) \in Nat /\ DOMAIN kills = 1 .. Len(kills)
  OBVIOUS
<1>3. 0 \in S
  <2>1. 1 .. 0 = {}
    OBVIOUS
  <2> QED  BY <1>1, <1>2, <2>1
<1>4. ASSUME NEW i \in 1 .. Len(kills), i - 1 \in S
      PROVE  i \in S
  <2> PICK a, b, h : a = f[i - 1] /\ b = f[i] /\ h = kills[i]
    OBVIOUS
  <2>1. /\ a.ok = TRUE /\ DOMAIN a.store = DOMAIN w.store \ {kills[j] : j \in 1 .. i - 1}
        /\ \A g \in DOMAIN a.store : a.store[g] = w.store[g]
    BY <1>4
  <2>2. \A j : j \in 1 .. i <=> j \in 1 .. i - 1 \/ j = i
    BY <1>2
  <2>3. h \in DOMAIN a.store
    <3>1. \A j \in 1 .. i - 1 : kills[j] # h /\ j \in DOMAIN kills
      BY <1>2
    <3> QED  BY <1>2, <2>1, <3>1
  <2>4. b.ok = TRUE /\ Ended(a.store, b.store, h)
    <3>1. b = ApplyKill(a, h)
      BY <1>1
    <3> QED  BY ONLY <2>1, <2>3, <3>1, KillOne
  <2>5. {kills[j] : j \in 1 .. i} = {kills[j] : j \in 1 .. i - 1} \cup {h}
    BY <2>2
  <2>6. /\ b.ok = TRUE /\ DOMAIN b.store = DOMAIN w.store \ {kills[j] : j \in 1 .. i}
        /\ \A g \in DOMAIN b.store : b.store[g] = w.store[g]
    BY ONLY <2>1, <2>4, <2>5 DEF Ended
  <2> QED  BY <1>2, <2>6
<1> HIDE DEF S
<1>5. \A i \in 0 .. Len(kills) : i \in S
  BY ONLY <1>2, <1>3, <1>4, KillFold!UpTo
<1>6. Done(Len(kills))
  BY <1>2, <1>5 DEF S
<1>7. f[Len(kills)] = r
  BY <1>1, LoopsAreFolds
<1> QED  BY <1>2, <1>6, <1>7 DEF KillsDone

-----------------------------------------------------------------------------
(* The allocator *)

\* The new capacity is at least each of the two candidates.
LEMMA MaxOfTwo ==
    ASSUME NEW x \in Nat, NEW y \in Nat
    PROVE  Max({x, y}) \in Nat /\ Max({x, y}) >= x /\ Max({x, y}) >= y
<1> DEFINE P(z) == z \in {x, y} /\ \A t \in {x, y} : z >= t
<1>1. P(x) \/ P(y)
  OBVIOUS
<1>2. \E z : P(z)
  BY <1>1
<1>3. P(CHOOSE z : P(z))
  BY <1>2
<1>4. Max({x, y}) = CHOOSE z : P(z)
  BY DEF Max
<1> QED  BY <1>3, <1>4

\* Room for size more bytes: the bytes that are there stay, and the block does
\* unless the capacity has changed.
LEMMA RoomyProperties ==
    ASSUME buffer \in Allocator, Len(buffer.data) <= buffer.capacity,
           NEW size \in Nat, NEW b \in Roomy(size)
    PROVE  /\ b \in Allocator /\ b.data = buffer.data
           /\ Len(b.data) + size <= b.capacity
           /\ b.capacity = buffer.capacity => b = buffer
<1> PICK n : n = Len(buffer.data)
  OBVIOUS
<1>1. n \in Nat /\ buffer.capacity \in Nat /\ buffer.block \in Nat /\ buffer.data \in Seq(Value)
  BY DEF Allocator
<1>2. CASE AvailableSize < size
  <2> PICK m : m = Max({2 * buffer.capacity, n + size})
    OBVIOUS
  <2>1. m \in Nat /\ m >= n + size
    BY <1>1, MaxOfTwo, 2 * buffer.capacity \in Nat, n + size \in Nat
  <2>2. PICK k \in {buffer.block, buffer.block + 1} :
           b = [buffer EXCEPT !.block = k, !.capacity = m]
    BY <1>2 DEF Roomy, Grown
  <2>3. b = [block |-> k, capacity |-> m, data |-> buffer.data]
    BY <2>2 DEF Allocator
  <2>4. k \in Nat
    BY <1>1
  <2>5. b \in Allocator /\ b.data = buffer.data /\ b.capacity = m
    BY <1>1, <2>1, <2>3, <2>4 DEF Allocator
  <2>6. buffer.capacity < n + size
    BY <1>1, <1>2 DEF AvailableSize
  <2> QED  BY <1>1, <2>1, <2>5, <2>6
<1>3. CASE ~(AvailableSize < size)
  <2>1. b = buffer
    BY <1>3 DEF Roomy
  <2> QED  BY <1>1, <1>3, <2>1 DEF AvailableSize
<1> QED  BY <1>2, <1>3

\* The bytes of a value.
LEMMA BytesProperties ==
    ASSUME NEW c \in Component, NEW v \in Value
    PROVE  /\ Size[c] \in Nat /\ Size[c] # 0
           /\ Bytes(c, v) \in Seq(Value) /\ Len(Bytes(c, v)) = Size[c]
           /\ \A i \in 1 .. Size[c] : Bytes(c, v)[i] = v
<1>1. Size[c] \in Nat /\ Size[c] # 0
  BY CommandsAssumption
<1> QED  BY <1>1 DEF Bytes

\* What a queued set does to the allocator: its bytes follow those of the others.
LEMMA QueuedBytes ==
    ASSUME buffer \in Allocator, Len(buffer.data) <= buffer.capacity,
           NEW c \in Component, NEW v \in Value, NEW b \in Roomy(Size[c]),
           buffer' = [b EXCEPT !.data = @ \o Bytes(c, v)]
    PROVE  /\ buffer' \in Allocator /\ Len(buffer'.data) <= buffer'.capacity
           /\ buffer'.block = b.block /\ buffer'.capacity = b.capacity
           /\ Len(buffer'.data) = Len(buffer.data) + Size[c]
           /\ \A i \in 1 .. Len(buffer.data) : buffer'.data[i] = buffer.data[i]
           /\ \A i \in 1 .. Size[c] : buffer'.data[Len(buffer.data) + i] = v
<1>1. /\ Size[c] \in Nat
      /\ Bytes(c, v) \in Seq(Value) /\ Len(Bytes(c, v)) = Size[c]
      /\ \A i \in 1 .. Size[c] : Bytes(c, v)[i] = v
  BY BytesProperties
<1>2. /\ b \in Allocator /\ b.data = buffer.data
      /\ Len(b.data) + Size[c] <= b.capacity
  BY <1>1, RoomyProperties
<1> PICK d, bytes : d = buffer.data \o bytes /\ bytes = Bytes(c, v)
  OBVIOUS
<1>3. /\ d \in Seq(Value) /\ Len(d) = Len(buffer.data) + Size[c]
      /\ \A i \in 1 .. Len(buffer.data) : d[i] = buffer.data[i]
      /\ \A i \in 1 .. Size[c] : d[Len(buffer.data) + i] = v
  <2>1. buffer.data \in Seq(Value) /\ bytes \in Seq(Value)
    <3>1. buffer.data \in Seq(Value)
      BY ONLY buffer \in Allocator DEF Allocator
    <3> QED  BY ONLY <1>1, <3>1, bytes = Bytes(c, v)
  <2>2. PICK s, n : s = buffer.data /\ n = Size[c]
    OBVIOUS
  <2>3. /\ s \in Seq(Value) /\ n \in Nat /\ bytes \in Seq(Value) /\ Len(bytes) = n
        /\ d = s \o bytes /\ \A i \in 1 .. n : bytes[i] = v
    BY ONLY <1>1, <2>1, <2>2, bytes = Bytes(c, v), d = buffer.data \o bytes
  <2>4. /\ d \in Seq(Value) /\ Len(d) = Len(s) + n
        /\ \A i \in 1 .. Len(s) : d[i] = s[i]
        /\ \A i \in 1 .. n : d[Len(s) + i] = v
    <3>0. s \in Seq(Value) /\ bytes \in Seq(Value) /\ d = s \o bytes /\ Len(bytes) = n
      BY ONLY <2>3
    <3>1. d \in Seq(Value) /\ Len(s) \in Nat /\ Len(d) = Len(s) + n
      <4>1. d \in Seq(Value) /\ Len(d) = Len(s) + Len(bytes)
        BY ONLY Zenon, <3>0, ConcatProperties
      <4> QED  BY ONLY <3>0, <4>1
    <3>2. \A i \in 1 .. Len(s) : d[i] = s[i]
      BY ONLY <3>0
    <3>3. ASSUME NEW i \in 1 .. n
          PROVE  d[Len(s) + i] = v
      <4>1. d[Len(s) + i] = bytes[i]
        BY ONLY <3>0, i \in 1 .. n
      <4> QED  BY ONLY <2>3, <4>1, i \in 1 .. n
    <3> QED  BY ONLY <3>1, <3>2, <3>3
  <2> QED  BY ONLY <2>2, <2>4
<1>4. buffer' = [block |-> b.block, capacity |-> b.capacity, data |-> d]
  BY <1>2 DEF Allocator
<1>5. b.block \in Nat /\ b.capacity \in Nat
  BY ONLY <1>2 DEF Allocator
<1>6. /\ buffer'.block = b.block /\ buffer'.capacity = b.capacity /\ buffer'.data = d
      /\ Len(d) <= b.capacity
  BY ONLY <1>2, <1>3, <1>4
<1>7. buffer' \in Allocator
  BY ONLY <1>3, <1>4, <1>5 DEF Allocator
<1> QED  BY ONLY <1>3, <1>6, <1>7

-----------------------------------------------------------------------------
(* Type correctness *)

\* The world's type invariant in terms of StoreTyped.
LEMMA WorldType == World!TypeOK <=> used \subseteq Handle /\ StoreTyped(store)
BY DEF World!TypeOK, World!Live, StoreTyped

\* The operations of EntityStore keep the store well typed.
LEMMA DirectType ==
    ASSUME World!TypeOK, NEW h \in Handle, Direct(h)
    PROVE  World!TypeOK'
<1>1. /\ used \subseteq Handle /\ DOMAIN store \subseteq used
      /\ \A g \in DOMAIN store : /\ DOMAIN store[g] \subseteq Component
                                 /\ \A d \in DOMAIN store[g] : store[g][d] \in Value
  BY DEF World!TypeOK, World!Live
<1>2. CASE World!Create(h)
  BY <1>1, <1>2 DEF World!Create, World!Live, World!TypeOK
<1>3. CASE World!Destroy(h)
  BY <1>1, <1>3 DEF World!Destroy, World!Live, World!TypeOK
<1>4. ASSUME NEW c \in Component, World!Remove(h, c)
      PROVE  World!TypeOK'
  BY <1>1, <1>4 DEF World!Remove, World!Live, World!TypeOK, World!Without
<1>5. ASSUME NEW c \in Component, NEW v \in Value,
             World!Add(h, c, v) \/ World!Set(h, c, v)
      PROVE  World!TypeOK'
  <2>1. /\ h \in DOMAIN store /\ store' = [store EXCEPT ![h] = World!With(h, c, v)]
        /\ used' = used
    BY <1>5 DEF World!Add, World!Set, World!Live
  <2> QED  BY <1>1, <2>1 DEF World!Live, World!TypeOK, World!With
<1> QED  BY <1>2, <1>3, <1>4, <1>5, CommandsAssumption DEF Direct

\* What the flush reads are typed commands, one for each queued set.
LEMMA ReadType ==
    ASSUME sets \in Seq(CommandSet), NEW read \in SetsRead
    PROVE  /\ read \in Seq(CommandRead) /\ Len(read) = Len(sets)
           /\ DOMAIN read = DOMAIN sets
           /\ \A j \in DOMAIN sets : /\ read[j].entity = sets[j].entity
                                     /\ read[j].cid = sets[j].cid
                                     /\ read[j].read \in Pointed(sets[j])
<1>1. PICK found \in [DOMAIN sets -> Value] :
         /\ \A j \in DOMAIN sets : found[j] \in Pointed(sets[j])
         /\ read = [j \in DOMAIN sets |->
                      [entity |-> sets[j].entity, cid |-> sets[j].cid, read |-> found[j]]]
  BY DEF SetsRead
<1>2. Len(sets) \in Nat /\ DOMAIN sets = 1 .. Len(sets)
  OBVIOUS
<1>3. \A j \in DOMAIN sets :
         [entity |-> sets[j].entity, cid |-> sets[j].cid, read |-> found[j]] \in CommandRead
  <2>1. \A j \in DOMAIN sets : sets[j] \in CommandSet
    OBVIOUS
  <2> QED  BY <2>1 DEF CommandSet, CommandRead
<1>4. read \in [1 .. Len(sets) -> CommandRead]
  BY <1>1, <1>2, <1>3
<1>5. read \in Seq(CommandRead) /\ Len(read) = Len(sets)
  BY <1>2, <1>4
<1> QED  BY <1>1, <1>5

\* Every step keeps the types.
LEMMA CommandsTypeStep ==
    ASSUME TypeOK, [Next]_vars
    PROVE  TypeOK'
<1>1. CASE Flush
  <2>1. /\ << >> \in Seq(CommandOn) /\ << >> \in Seq(CommandSet) /\ << >> \in Seq(Handle)
        /\ << >> \in Seq(Value)
    OBVIOUS
  <2>2. PICK read, w :
           /\ read \in SetsRead /\ w = Applied(read)
           /\ IF w.ok
              THEN /\ store' = w.store
                   /\ adds' = << >> /\ removes' = << >>
                   /\ sets' = << >> /\ kills' = << >>
                   /\ buffer' = Released
                   /\ had' = had \cup Filled
                   /\ UNCHANGED aborted
              ELSE /\ aborted' = TRUE
                   /\ UNCHANGED <<store, had, adds, removes, sets, kills, buffer>>
    BY <1>1 DEF Flush
  <2>3. UNCHANGED used
    BY <1>1 DEF Flush
  <2>4. StoreTyped(w.store)
    <3>1. StoreTyped(WorldState.store) /\ read \in Seq(CommandRead)
      BY <2>2, WorldType, ReadType DEF TypeOK, WorldState
    <3>2. StoreTyped(Added(WorldState).store)
      BY <3>1, AddedType DEF TypeOK
    <3>3. StoreTyped(Removed(Added(WorldState)).store)
      BY <3>2, RemovedType DEF TypeOK
    <3>4. StoreTyped(Written(Removed(Added(WorldState)), read).store)
      BY <3>1, <3>3, WrittenType
    <3>5. StoreTyped(Killed(Written(Removed(Added(WorldState)), read)).store)
      BY <3>4, KilledType DEF TypeOK
    <3> QED  BY <2>2, <3>5 DEF Applied
  <2>5. CASE w.ok
    <3>1. World!TypeOK'
      BY <2>2, <2>3, <2>4, <2>5 DEF StoreTyped, World!TypeOK, World!Live, TypeOK
    <3>2. buffer' = [block |-> buffer.block, capacity |-> buffer.capacity, data |-> << >>]
      BY <2>2, <2>5 DEF Released, TypeOK, Allocator
    <3>3. buffer' \in Allocator /\ Len(buffer'.data) <= buffer'.capacity
      BY <2>1, <3>2 DEF TypeOK, Allocator
    <3>4. Filled \subseteq Handle
      <4>1. adds \in Seq(CommandOn) /\ sets \in Seq(CommandSet)
        BY DEF TypeOK
      <4>2. /\ \A j \in DOMAIN adds : adds[j].entity \in Handle
            /\ \A j \in DOMAIN sets : sets[j].entity \in Handle
        <5>1. /\ \A j \in DOMAIN adds : adds[j] \in CommandOn
              /\ \A j \in DOMAIN sets : sets[j] \in CommandSet
          BY ONLY <4>1
        <5> QED  BY ONLY <5>1 DEF CommandOn, CommandSet
      <4> QED  BY ONLY <4>2 DEF Filled, Range
    <3>5. had' \subseteq Handle
      BY <2>2, <2>5, <3>4 DEF TypeOK
    <3> QED  BY <2>1, <2>2, <2>5, <3>1, <3>3, <3>5 DEF TypeOK
  <2>6. CASE ~w.ok
    BY <2>2, <2>3, <2>6 DEF TypeOK, World!TypeOK, World!Live
  <2> QED  BY <2>5, <2>6
<1>2. ASSUME NEW h \in Handle, Direct(h)
      PROVE  TypeOK'
  <2>1. World!TypeOK'
    BY <1>2, DirectType DEF TypeOK
  <2>2. had' \subseteq Handle
    BY <1>2, <2>1 DEF TypeOK, Direct, World!TypeOK
  <2> QED  BY <1>2, <2>1, <2>2 DEF TypeOK, Direct
<1>3. ASSUME NEW h \in used, Command(h)
      PROVE  TypeOK'
  <2>0. h \in Handle
    BY DEF TypeOK, World!TypeOK
  <2>1. ASSUME NEW c \in Component, QueueAdd(h, c)
        PROVE  TypeOK'
    <3>1. [entity |-> h, cid |-> c] \in CommandOn
      BY <2>0 DEF CommandOn
    <3>2. adds' \in Seq(CommandOn)
      BY <2>1, <3>1 DEF QueueAdd, TypeOK
    <3> QED  BY <2>1, <3>2 DEF QueueAdd, TypeOK, World!TypeOK, World!Live
  <2>2. ASSUME NEW c \in Component, QueueRemove(h, c)
        PROVE  TypeOK'
    <3>1. [entity |-> h, cid |-> c] \in CommandOn
      BY <2>0 DEF CommandOn
    <3>2. removes' \in Seq(CommandOn)
      BY <2>2, <3>1 DEF QueueRemove, TypeOK
    <3> QED  BY <2>2, <3>2 DEF QueueRemove, TypeOK, World!TypeOK, World!Live
  <2>3. ASSUME NEW c \in Component, NEW v \in Value, QueueSet(h, c, v)
        PROVE  TypeOK'
    <3>1. PICK b \in Roomy(Size[c]) :
             /\ buffer' = [b EXCEPT !.data = @ \o Bytes(c, v)]
             /\ sets' = Append(sets,
                   [entity |-> h, cid |-> c, given |-> v,
                    value |-> [block |-> b.block, offset |-> Len(b.data)]])
      BY <2>3 DEF QueueSet
    <3>2. buffer' \in Allocator /\ Len(buffer'.data) <= buffer'.capacity
      BY <3>1, QueuedBytes DEF TypeOK
    <3>3. b \in Allocator
      BY BytesProperties, RoomyProperties DEF TypeOK
    <3>4. [entity |-> h, cid |-> c, given |-> v,
           value |-> [block |-> b.block, offset |-> Len(b.data)]] \in CommandSet
      BY <2>0, <3>3 DEF CommandSet, Address, Allocator
    <3>5. sets' \in Seq(CommandSet)
      BY <3>1, <3>4 DEF TypeOK
    <3> QED  BY <2>3, <3>2, <3>5 DEF QueueSet, TypeOK, World!TypeOK, World!Live
  <2> QED  BY <1>3, <2>1, <2>2, <2>3 DEF Command
<1>4. ASSUME NEW h \in used, QueueKill(h)
      PROVE  TypeOK'
  <2>1. kills' \in Seq(Handle)
    BY <1>4 DEF QueueKill, TypeOK, World!TypeOK
  <2> QED  BY <1>4, <2>1 DEF QueueKill, TypeOK, World!TypeOK, World!Live
<1>5. CASE UNCHANGED vars
  BY <1>5 DEF vars, TypeOK, World!TypeOK, World!Live
<1> QED  BY <1>1, <1>2, <1>3, <1>4, <1>5 DEF Next

\* The initial types.
LEMMA CommandsInitType == Init => TypeOK
<1> SUFFICES ASSUME Init PROVE TypeOK
  OBVIOUS
<1>1. World!TypeOK
  BY DEF Init, World!Init, World!TypeOK, World!Live
<1>2. /\ adds \in Seq(CommandOn) /\ removes \in Seq(CommandOn)
      /\ sets \in Seq(CommandSet) /\ kills \in Seq(Handle)
  BY DEF Init
<1>3. buffer \in Allocator /\ Len(buffer.data) <= buffer.capacity
  <2>1. << >> \in Seq(Value) /\ Len(<< >>) = 0
    OBVIOUS
  <2> QED  BY <2>1, CommandsAssumption DEF Init, Allocator
<1> QED  BY <1>1, <1>2, <1>3 DEF Init, TypeOK

\* Whatever commands name, and whatever systems do meanwhile, the world, the
\* queues and the allocator stay well typed; the bytes in use fit the capacity.
THEOREM CommandsTypeCorrect == Spec => []TypeOK
<1>1. Init => TypeOK
  BY CommandsInitType
<1>2. TypeOK /\ [Next]_vars => TypeOK'
  BY CommandsTypeStep
<1> QED  BY <1>1, <1>2, PTL DEF Spec

-----------------------------------------------------------------------------
(* The contract's invariant *)

\* Every entity that a queued command names lives.
NamesLive ==
    /\ \A j \in DOMAIN adds : adds[j].entity \in DOMAIN store
    /\ \A j \in DOMAIN removes : removes[j].entity \in DOMAIN store
    /\ \A j \in DOMAIN sets : sets[j].entity \in DOMAIN store
    /\ \A j \in DOMAIN kills : kills[j] \in DOMAIN store

KilledOnce == \A j, k \in DOMAIN kills : kills[j] = kills[k] => j = k

\* The bytes a queued set points at lie in the block of the allocator, below
\* `current`, and are those of the value it was given.
Stored(cmd, b) ==
    /\ cmd.value.block = b.block
    /\ cmd.value.offset + Size[cmd.cid] <= Len(b.data)
    /\ \A i \in 1 .. Size[cmd.cid] : b.data[cmd.value.offset + i] = cmd.given

SetsStored == \A j \in DOMAIN sets : Stored(sets[j], buffer)

ContractInv == TypeOK /\ NamesLive /\ KilledOnce /\ SetsStored /\ ~aborted

\* The pointers of queued sets find the values given.
LEMMA StoredIsPointed ==
    ASSUME TypeOK, SetsStored
    PROVE  \A j \in DOMAIN sets : Pointed(sets[j]) = {sets[j].given}
<1> SUFFICES ASSUME NEW j \in DOMAIN sets
             PROVE  Pointed(sets[j]) = {sets[j].given}
  OBVIOUS
<1> PICK cmd : cmd = sets[j]
  OBVIOUS
<1>1. cmd \in CommandSet
  BY DEF TypeOK
<1>2. cmd.cid \in Component /\ Size[cmd.cid] \in Nat /\ Size[cmd.cid] # 0
  BY <1>1, CommandsAssumption DEF CommandSet
<1>3. Stored(cmd, buffer)
  BY DEF SetsStored
<1>4. Pointed(cmd) = {buffer.data[cmd.value.offset + i] : i \in 1 .. Size[cmd.cid]}
  BY <1>3 DEF Pointed, Stored
<1>5. 1 \in 1 .. Size[cmd.cid]
  BY <1>2
<1>6. \A i \in 1 .. Size[cmd.cid] : buffer.data[cmd.value.offset + i] = cmd.given
  BY <1>3 DEF Stored
<1>7. Pointed(cmd) = {cmd.given}
  BY ONLY <1>4, <1>5, <1>6
<1> QED  BY <1>7


\* What the four loops together make of the world: kill beats set, set beats
\* remove, remove beats add.
Meant(u) ==
    /\ DOMAIN u = DOMAIN store \ {kills[j] : j \in DOMAIN kills}
    /\ \A h \in DOMAIN u : \A c : ~Writes(sets, h, c) =>
          /\ c \in DOMAIN u[h] <=>
                ~RemoveNamed(h, c) /\ (AddNamed(h, c) \/ c \in DOMAIN store[h])
          /\ c \in DOMAIN u[h] /\ c \in DOMAIN store[h] => u[h][c] = store[h][c]
    /\ \A j \in DOMAIN sets : sets[j].entity \in DOMAIN u /\ LastWrite(sets, j) =>
          /\ sets[j].cid \in DOMAIN u[sets[j].entity]
          /\ u[sets[j].entity][sets[j].cid] = sets[j].given

\* The flush never finds a dead entity, and does what the commands mean.
LEMMA FlushEffect ==
    ASSUME ContractInv, NEW read \in SetsRead, NEW w, w = Applied(read)
    PROVE  w.ok = TRUE /\ Meant(w.store)
<1>1. PICK z, a, b, d : z = WorldState /\ a = Added(z) /\ b = Removed(a) /\ d = Written(b, read)
  OBVIOUS
<1>2. a = Added(z) /\ b = Removed(a) /\ d = Written(b, read) /\ w = Killed(d)
  BY <1>1 DEF Applied
<1>3. z.ok = TRUE /\ z.store = store
  BY <1>1 DEF WorldState
<1>4. /\ read \in Seq(CommandRead) /\ DOMAIN read = DOMAIN sets
      /\ \A j \in DOMAIN sets : /\ read[j].entity = sets[j].entity
                                /\ read[j].cid = sets[j].cid
                                /\ read[j].read = sets[j].given
  BY ReadType, StoredIsPointed DEF ContractInv, TypeOK
<1>5. a.ok = TRUE /\ AddsDone(store, a.store)
  <2>1. adds \in Seq(CommandOn) /\ \A j \in DOMAIN adds : adds[j].entity \in DOMAIN z.store
    BY <1>3 DEF ContractInv, NamesLive, TypeOK
  <2> QED  BY ONLY <1>2, <1>3, <2>1, AddedEffect
<1>6. b.ok = TRUE /\ RemovesDone(a.store, b.store)
  <2>1. /\ removes \in Seq(CommandOn)
        /\ \A j \in DOMAIN removes : removes[j].entity \in DOMAIN a.store
    BY <1>5 DEF AddsDone, ContractInv, NamesLive, TypeOK
  <2> QED  BY ONLY <1>2, <1>5, <2>1, RemovedEffect
<1>7. d.ok = TRUE /\ SetsDone(read, b.store, d.store)
  <2>1. \A j \in DOMAIN read : read[j].entity \in DOMAIN b.store
    BY <1>4, <1>5, <1>6 DEF AddsDone, RemovesDone, ContractInv, NamesLive
  <2> QED  BY ONLY <1>2, <1>4, <1>6, <2>1, WrittenEffect
<1>8. w.ok = TRUE /\ KillsDone(d.store, w.store)
  <2>1. \A j \in DOMAIN kills : kills[j] \in DOMAIN d.store
    BY <1>5, <1>6, <1>7 DEF AddsDone, RemovesDone, SetsDone, ContractInv, NamesLive
  <2>2. kills \in Seq(Handle) /\ \A j, k \in DOMAIN kills : kills[j] = kills[k] => j = k
    BY DEF ContractInv, TypeOK, KilledOnce
  <2> QED  BY ONLY <1>2, <1>7, <2>1, <2>2, KilledEffect
<1>9. /\ DOMAIN a.store = DOMAIN store /\ DOMAIN b.store = DOMAIN store
      /\ DOMAIN d.store = DOMAIN store
      /\ DOMAIN w.store = DOMAIN store \ {kills[j] : j \in DOMAIN kills}
  BY ONLY <1>5, <1>6, <1>7, <1>8 DEF AddsDone, RemovesDone, SetsDone, KillsDone
<1>10. \A h, c : Writes(read, h, c) <=> Writes(sets, h, c)
  BY ONLY <1>4 DEF Writes
<1>11. ASSUME NEW h \in DOMAIN w.store, NEW c, ~Writes(sets, h, c)
       PROVE  /\ c \in DOMAIN w.store[h] <=>
                   ~RemoveNamed(h, c) /\ (AddNamed(h, c) \/ c \in DOMAIN store[h])
              /\ c \in DOMAIN w.store[h] /\ c \in DOMAIN store[h] =>
                   w.store[h][c] = store[h][c]
  <2>1. h \in DOMAIN store /\ w.store[h] = d.store[h]
    BY ONLY <1>8, <1>9, h \in DOMAIN w.store DEF KillsDone
  <2>2. /\ c \in DOMAIN a.store[h] <=> c \in DOMAIN store[h] \/ AddNamed(h, c)
        /\ c \in DOMAIN store[h] => a.store[h][c] = store[h][c]
    BY ONLY <1>5, <2>1 DEF AddsDone
  <2>3. /\ c \in DOMAIN b.store[h] <=> c \in DOMAIN a.store[h] /\ ~RemoveNamed(h, c)
        /\ c \in DOMAIN b.store[h] => b.store[h][c] = a.store[h][c]
    BY ONLY <1>6, <1>9, <2>1 DEF RemovesDone
  <2>4. /\ c \in DOMAIN d.store[h] <=> c \in DOMAIN b.store[h]
        /\ c \in DOMAIN b.store[h] => d.store[h][c] = b.store[h][c]
    BY ONLY <1>7, <1>9, <1>10, <1>11, <2>1 DEF SetsDone
  <2> QED  BY ONLY <2>1, <2>2, <2>3, <2>4
<1>12. ASSUME NEW j \in DOMAIN sets, sets[j].entity \in DOMAIN w.store, LastWrite(sets, j)
       PROVE  /\ sets[j].cid \in DOMAIN w.store[sets[j].entity]
              /\ w.store[sets[j].entity][sets[j].cid] = sets[j].given
  <2>1. LastWrite(read, j) /\ j \in DOMAIN read
    BY ONLY <1>4, <1>12, j \in DOMAIN sets DEF LastWrite
  <2>2. /\ read[j].cid \in DOMAIN d.store[read[j].entity]
        /\ d.store[read[j].entity][read[j].cid] = read[j].read
    BY ONLY <1>7, <2>1 DEF SetsDone
  <2>3. w.store[sets[j].entity] = d.store[sets[j].entity]
    BY ONLY <1>8, <1>12 DEF KillsDone
  <2> QED  BY ONLY <1>4, <2>2, <2>3, j \in DOMAIN sets
<1> QED  BY <1>8, <1>9, <1>11, <1>12 DEF Meant

-----------------------------------------------------------------------------
(* The contract's invariant is inductive *)

\* Nothing is queued at first.
LEMMA ContractInit == Init => ContractInv
<1> SUFFICES ASSUME Init PROVE ContractInv
  OBVIOUS
<1>1. TypeOK
  BY CommandsInitType
<1>2. DOMAIN adds = {} /\ DOMAIN removes = {} /\ DOMAIN sets = {} /\ DOMAIN kills = {}
  BY DEF Init
<1> QED  BY <1>1, <1>2 DEF Init, ContractInv, NamesLive, KilledOnce, SetsStored

\* Contract steps are steps of the program.
LEMMA ContractIsNext ==
    ASSUME TypeOK, [ContractNext]_vars
    PROVE  [Next]_vars
<1>1. World!Live \subseteq used
  BY DEF TypeOK, World!TypeOK
<1> QED  BY <1>1 DEF ContractNext, AliveNext, Next

\* A flush under the contract.
LEMMA ContractFlush ==
    ASSUME ContractInv, Flush
    PROVE  /\ Meant(store') /\ UNCHANGED aborted
           /\ adds' = << >> /\ removes' = << >> /\ sets' = << >> /\ kills' = << >>
<1>1. PICK read, w :
         /\ read \in SetsRead /\ w = Applied(read)
         /\ IF w.ok
            THEN /\ store' = w.store
                 /\ adds' = << >> /\ removes' = << >>
                 /\ sets' = << >> /\ kills' = << >>
                 /\ buffer' = Released
                 /\ had' = had \cup Filled
                 /\ UNCHANGED aborted
            ELSE /\ aborted' = TRUE
                 /\ UNCHANGED <<store, had, adds, removes, sets, kills, buffer>>
  BY DEF Flush
<1>2. w.ok = TRUE /\ Meant(w.store)
  BY <1>1, FlushEffect
<1>3. /\ store' = w.store
      /\ adds' = << >> /\ removes' = << >> /\ sets' = << >> /\ kills' = << >>
      /\ UNCHANGED aborted
  BY <1>1, <1>2
<1> QED  BY ONLY <1>2, <1>3

\* A direct operation keeps alive what commands name.
LEMMA DirectKeeps ==
    ASSUME ContractInv, NEW h \in Handle, Direct(h), Named(h) => h \in World!Live'
    PROVE  NamesLive'
<1>1. UNCHANGED <<adds, removes, sets, kills>>
  BY DEF Direct
<1>2. \A g \in DOMAIN store : g # h => g \in DOMAIN store'
  BY DEF Direct, World!Create, World!Destroy, World!Remove, World!Add, World!Set, World!Live
<1>3. Named(h) => h \in DOMAIN store'
  BY DEF World!Live
<1>4. /\ \A j \in DOMAIN adds : adds[j].entity = h => Named(h)
      /\ \A j \in DOMAIN removes : removes[j].entity = h => Named(h)
      /\ \A j \in DOMAIN sets : sets[j].entity = h => Named(h)
      /\ \A j \in DOMAIN kills : kills[j] = h => Named(h)
  BY DEF Named, Range
<1> HIDE DEF Named
<1> QED  BY <1>1, <1>2, <1>3, <1>4 DEF NamesLive, ContractInv

\* A queued set is stored, and leaves those before it so.
LEMMA QueuedSetStored ==
    ASSUME ContractInv, ContractNext, NEW h, NEW c \in Component, NEW v \in Value,
           QueueSet(h, c, v)
    PROVE  SetsStored'
<1>1. PICK b \in Roomy(Size[c]) :
         /\ buffer' = [b EXCEPT !.data = @ \o Bytes(c, v)]
         /\ sets' = Append(sets,
               [entity |-> h, cid |-> c, given |-> v,
                value |-> [block |-> b.block, offset |-> Len(b.data)]])
  BY DEF QueueSet
<1> PICK new : new = [entity |-> h, cid |-> c, given |-> v,
                      value |-> [block |-> b.block, offset |-> Len(b.data)]]
  OBVIOUS
<1>2. /\ buffer' \in Allocator
      /\ buffer'.block = b.block /\ buffer'.capacity = b.capacity
      /\ Len(buffer'.data) = Len(buffer.data) + Size[c]
      /\ \A i \in 1 .. Len(buffer.data) : buffer'.data[i] = buffer.data[i]
      /\ \A i \in 1 .. Size[c] : buffer'.data[Len(buffer.data) + i] = v
  BY <1>1, QueuedBytes DEF ContractInv, TypeOK
<1>3. /\ b.data = buffer.data /\ Size[c] \in Nat
      /\ b.capacity = buffer.capacity => b = buffer
  BY RoomyProperties, BytesProperties DEF ContractInv, TypeOK
<1>4. sets \in Seq(CommandSet) /\ buffer \in Allocator /\ Len(buffer.data) \in Nat
  BY DEF ContractInv, TypeOK, Allocator
<1>5. /\ DOMAIN sets' = 1 .. Len(sets) + 1 /\ Len(sets) \in Nat
      /\ DOMAIN sets = 1 .. Len(sets)
      /\ sets'[Len(sets) + 1] = new
      /\ \A j \in DOMAIN sets : sets'[j] = sets[j]
  <2>1. sets' = Append(sets, new)
    BY <1>1
  <2> QED  BY ONLY <1>4, <2>1
<1>6. Stored(new, buffer')
  <2>1. new.value = [block |-> b.block, offset |-> Len(buffer.data)] /\ new.cid = c /\ new.given = v
    BY <1>3
  <2> QED  BY ONLY <1>2, <1>3, <1>4, <2>1 DEF Stored
<1>7. ASSUME NEW j \in DOMAIN sets
      PROVE  Stored(sets[j], buffer')
  <2>1. b = buffer
    <3>1. sets # << >>
      BY <1>4
    <3> QED  BY <1>2, <1>3, <3>1 DEF ContractNext
  <2> PICK old : old = sets[j]
    OBVIOUS
  <2>2. old \in CommandSet /\ Stored(old, buffer)
    BY <1>4 DEF ContractInv, SetsStored
  <2>3. Size[old.cid] \in Nat /\ old.value.offset \in Nat
    BY <2>2, CommandsAssumption DEF CommandSet, Address
  <2>4. \A i \in 1 .. Size[old.cid] : old.value.offset + i \in 1 .. Len(buffer.data)
    BY <1>4, <2>2, <2>3 DEF Stored
  <2>5. Stored(old, buffer')
    <3>1. \A i \in 1 .. Size[old.cid] :
             buffer'.data[old.value.offset + i] = buffer.data[old.value.offset + i]
      BY ONLY <1>2, <2>4
    <3>2. Len(buffer.data) <= Len(buffer'.data)
      BY <1>2, <1>3, <1>4
    <3>3. old.value.offset + Size[old.cid] <= Len(buffer'.data)
      <4>1. Len(buffer'.data) \in Nat
        BY <1>2, <1>3, <1>4
      <4> QED  BY <1>4, <2>2, <2>3, <3>2, <4>1 DEF Stored
    <3> QED  BY <1>2, <2>1, <2>2, <3>1, <3>3 DEF Stored
  <2> QED  BY <2>5
<1>8. ASSUME NEW j \in DOMAIN sets'
      PROVE  Stored(sets'[j], buffer')
  <2>1. CASE j = Len(sets) + 1
    BY <1>5, <1>6, <2>1
  <2>2. CASE j # Len(sets) + 1
    <3>1. j \in DOMAIN sets
      BY <1>5, <2>2
    <3> QED  BY <1>5, <1>7, <3>1
  <2> QED  BY <2>1, <2>2
<1> QED  BY <1>8 DEF SetsStored, Stored

\* Every step the contract allows keeps its invariant.
LEMMA ContractStep ==
    ASSUME ContractInv, [ContractNext]_vars
    PROVE  ContractInv'
<1>1. TypeOK'
  BY ContractIsNext, CommandsTypeStep DEF ContractInv
<1>2. CASE Flush
  <2>1. /\ UNCHANGED aborted
        /\ DOMAIN adds' = {} /\ DOMAIN removes' = {} /\ DOMAIN sets' = {} /\ DOMAIN kills' = {}
    BY <1>2, ContractFlush
  <2> QED  BY <1>1, <2>1 DEF ContractInv, NamesLive, KilledOnce, SetsStored
<1>3. ASSUME NEW h \in Handle, Direct(h), Named(h) \/ Emptied(h) => h \in World!Live'
      PROVE  ContractInv'
  <2>1. NamesLive'
    BY <1>3, DirectKeeps
  <2>2. UNCHANGED <<kills, sets, buffer, aborted>>
    BY <1>3 DEF Direct
  <2> QED  BY <1>1, <2>1, <2>2 DEF ContractInv, KilledOnce, SetsStored, Stored
<1>4. ASSUME NEW h \in World!Live, NEW c \in Component, QueueAdd(h, c)
      PROVE  ContractInv'
  <2>1. UNCHANGED <<store, removes, kills, sets, buffer, aborted>>
    BY <1>4 DEF QueueAdd
  <2>2. \A j \in DOMAIN adds' : adds'[j].entity \in DOMAIN store
    <3>1. adds \in Seq(CommandOn)
      BY DEF ContractInv, TypeOK
    <3>2. adds' = Append(adds, [entity |-> h, cid |-> c])
      BY <1>4 DEF QueueAdd
    <3> QED  BY <3>1, <3>2 DEF ContractInv, NamesLive, World!Live
  <2> QED  BY <1>1, <2>1, <2>2 DEF ContractInv, NamesLive, KilledOnce, SetsStored, Stored
<1>5. ASSUME NEW h \in World!Live, NEW c \in Component, QueueRemove(h, c)
      PROVE  ContractInv'
  <2>1. UNCHANGED <<store, adds, kills, sets, buffer, aborted>>
    BY <1>5 DEF QueueRemove
  <2>2. \A j \in DOMAIN removes' : removes'[j].entity \in DOMAIN store
    <3>1. removes \in Seq(CommandOn)
      BY DEF ContractInv, TypeOK
    <3>2. removes' = Append(removes, [entity |-> h, cid |-> c])
      BY <1>5 DEF QueueRemove
    <3> QED  BY <3>1, <3>2 DEF ContractInv, NamesLive, World!Live
  <2> QED  BY <1>1, <2>1, <2>2 DEF ContractInv, NamesLive, KilledOnce, SetsStored, Stored
<1>6. ASSUME NEW h \in World!Live, NEW c \in Component, NEW v \in Value,
             QueueSet(h, c, v), ContractNext
      PROVE  ContractInv'
  <2>1. UNCHANGED <<store, adds, removes, kills, aborted>>
    BY <1>6 DEF QueueSet
  <2>2. \A j \in DOMAIN sets' : sets'[j].entity \in DOMAIN store
    <3>1. sets \in Seq(CommandSet)
      BY DEF ContractInv, TypeOK
    <3>2. PICK at : sets' = Append(sets, [entity |-> h, cid |-> c, given |-> v, value |-> at])
      BY <1>6 DEF QueueSet
    <3> QED  BY <3>1, <3>2 DEF ContractInv, NamesLive, World!Live
  <2>3. SetsStored'
    BY <1>6, QueuedSetStored
  <2> QED  BY <1>1, <2>1, <2>2, <2>3 DEF ContractInv, NamesLive, KilledOnce
<1>7. ASSUME NEW h \in World!Live, h \notin Range(kills), QueueKill(h)
      PROVE  ContractInv'
  <2>1. UNCHANGED <<store, adds, removes, sets, buffer, aborted>>
    BY <1>7 DEF QueueKill
  <2>2. kills \in Seq(Handle) /\ kills' = Append(kills, h)
    BY <1>7 DEF QueueKill, ContractInv, TypeOK
  <2>3. \A j \in DOMAIN kills' : kills'[j] \in DOMAIN store
    BY <2>2 DEF ContractInv, NamesLive, World!Live
  <2>4. KilledOnce'
    <3>1. \A j \in DOMAIN kills : kills[j] # h
      BY <1>7 DEF Range
    <3> QED  BY <2>2, <3>1 DEF ContractInv, KilledOnce
  <2> QED  BY <1>1, <2>1, <2>3, <2>4 DEF ContractInv, NamesLive, SetsStored, Stored
<1>8. CASE UNCHANGED vars
  BY <1>1, <1>8 DEF vars, ContractInv, NamesLive, KilledOnce, SetsStored, Stored
<1> QED  BY <1>2, <1>3, <1>4, <1>5, <1>6, <1>7, <1>8 DEF ContractNext, AliveNext, Command

\* The invariant of the contract: queued commands name live entities, an entity
\* is killed once, queued sets point at their bytes, and no flush has aborted.
THEOREM ContractInvariant == ContractSpec => []ContractInv
<1>1. Init => ContractInv
  BY ContractInit
<1>2. ContractInv /\ [ContractNext]_vars => ContractInv'
  BY ContractStep
<1> QED  BY <1>1, <1>2, PTL DEF ContractSpec

\* Under the contract the queued sets keep the bytes they were given, however
\* many commands are queued and whatever systems do to the world meanwhile.
THEOREM QueuedSetsIntact == ContractSpec => []PendingValuesIntact
<1>1. ContractInv => PendingValuesIntact
  BY StoredIsPointed DEF ContractInv, PendingValuesIntact
<1> QED  BY <1>1, ContractInvariant, PTL

\* Under the contract no flush meets a dead entity.
THEOREM FlushesSucceed == ContractSpec => []FlushNeverAborts
<1>1. ContractInv => FlushNeverAborts
  BY DEF ContractInv, FlushNeverAborts
<1> QED  BY <1>1, ContractInvariant, PTL

-----------------------------------------------------------------------------
(* What a flush does *)

\* The greatest index of a set of them.
LEMMA MaxOfSome ==
    ASSUME NEW n \in Nat, NEW T \in SUBSET (1 .. n), T # {}
    PROVE  Max(T) \in T /\ \A k \in T : Max(T) >= k
<1> DEFINE S == {i \in 0 .. n : \A U \in SUBSET (1 .. i) :
                    U # {} => \E m \in U : \A k \in U : m >= k}
<1>1. 0 \in S
  <2>1. 1 .. 0 = {}
    OBVIOUS
  <2>2. 0 \in 0 .. n
    OBVIOUS
  <2> QED  BY <2>1, <2>2
<1>2. ASSUME NEW i \in 1 .. n, i - 1 \in S
      PROVE  i \in S
  <2> SUFFICES ASSUME NEW U \in SUBSET (1 .. i), U # {}
               PROVE  \E m \in U : \A k \in U : m >= k
    OBVIOUS
  <2>1. CASE i \in U
    <3>1. \A k \in U : i >= k
      OBVIOUS
    <3> QED  BY <2>1, <3>1
  <2>2. CASE i \notin U
    <3>1. \A k \in U : k \in 1 .. i - 1
      <4> SUFFICES ASSUME NEW k \in U PROVE k \in 1 .. i - 1
        OBVIOUS
      <4>1. k \in 1 .. i /\ k # i
        BY <2>2
      <4> QED  BY <4>1
    <3> QED  BY <1>2, <3>1
  <2> QED  BY <2>1, <2>2
<1> HIDE DEF S
<1>3. \A i \in 0 .. n : i \in S
  BY ONLY n \in Nat, <1>1, <1>2, AddFold!UpTo
<1>4. \E m \in T : \A k \in T : m >= k
  BY <1>3, n \in 0 .. n DEF S
<1> QED  BY <1>4 DEF Max

\* Only a flush empties queues.
LEMMA FlushedByFlush ==
    ASSUME ContractInv, [ContractNext]_vars, Flushed
    PROVE  Flush
<1>1. /\ Len(adds) \in Nat /\ Len(removes) \in Nat /\ Len(sets) \in Nat /\ Len(kills) \in Nat
      /\ adds \in Seq(CommandOn) /\ removes \in Seq(CommandOn)
      /\ sets \in Seq(CommandSet) /\ kills \in Seq(Handle)
  BY DEF ContractInv, TypeOK
<1>2. ASSUME NEW h \in Handle, Direct(h)
      PROVE  FALSE
  BY <1>2 DEF Direct, Flushed, Pending
<1>3. ASSUME NEW h, NEW c, QueueAdd(h, c)
      PROVE  FALSE
  <2>1. Len(adds') = Len(adds) + 1 /\ UNCHANGED <<removes, sets, kills>>
    BY <1>1, <1>3 DEF QueueAdd
  <2> QED  BY <1>1, <2>1 DEF Flushed, Pending
<1>4. ASSUME NEW h, NEW c, QueueRemove(h, c)
      PROVE  FALSE
  <2>1. Len(removes') = Len(removes) + 1 /\ UNCHANGED <<adds, sets, kills>>
    BY <1>1, <1>4 DEF QueueRemove
  <2> QED  BY <1>1, <2>1 DEF Flushed, Pending
<1>5. ASSUME NEW h, NEW c, NEW v, QueueSet(h, c, v)
      PROVE  FALSE
  <2>1. PICK new : sets' = Append(sets, new)
    BY <1>5 DEF QueueSet
  <2>2. Len(sets') = Len(sets) + 1 /\ UNCHANGED <<adds, removes, kills>>
    BY <1>1, <1>5, <2>1 DEF QueueSet
  <2> QED  BY <1>1, <2>2 DEF Flushed, Pending
<1>6. ASSUME NEW h, QueueKill(h)
      PROVE  FALSE
  <2>1. Len(kills') = Len(kills) + 1 /\ UNCHANGED <<adds, removes, sets>>
    BY <1>1, <1>6 DEF QueueKill
  <2> QED  BY <1>1, <2>1 DEF Flushed, Pending
<1>7. CASE UNCHANGED vars
  BY <1>7 DEF vars, Flushed, Pending
<1> QED  BY <1>2, <1>3, <1>4, <1>5, <1>6, <1>7 DEF ContractNext, AliveNext, Command

\* A component that sets name has the value of the last of them after the flush.
THEOREM LastSetWins == ContractSpec => DeferredSetCopies
<1>1. ASSUME ContractInv, [ContractNext]_vars, Flushed,
             NEW h \in World!Live \ Range(kills), NEW c \in Component, SetsOf(h, c) # {}
      PROVE  /\ c \in DOMAIN store'[h]
             /\ store'[h][c] = sets[Max(SetsOf(h, c))].given
  <2>1. Meant(store')
    BY <1>1, FlushedByFlush, ContractFlush
  <2> PICK n, j, T : n = Len(sets) /\ T = SetsOf(h, c) /\ j = Max(T)
    OBVIOUS
  <2>2. n \in Nat /\ DOMAIN sets = 1 .. n
    BY DEF ContractInv, TypeOK
  <2>3. T \in SUBSET (1 .. n) /\ T # {}
    BY <1>1, <2>2 DEF SetsOf
  <2>4. j \in T /\ \A k \in T : j >= k
    BY ONLY <2>2, <2>3, j = Max(T), MaxOfSome
  <2>5. j \in DOMAIN sets /\ sets[j].entity = h /\ sets[j].cid = c
    BY <2>4 DEF SetsOf
  <2>6. LastWrite(sets, j)
    BY <2>2, <2>4, <2>5 DEF LastWrite, SetsOf
  <2>7. h \in DOMAIN store'
    BY <2>1 DEF Meant, World!Live, Range
  <2> QED  BY <2>1, <2>5, <2>6, <2>7 DEF Meant
<1>2. ContractInv /\ [ContractNext]_vars =>
        (Flushed => \A h \in World!Live \ Range(kills), c \in Component :
            SetsOf(h, c) # {} =>
                /\ c \in DOMAIN store'[h]
                /\ store'[h][c] = sets[Max(SetsOf(h, c))].given)
  BY <1>1
<1> QED  BY <1>2, ContractInvariant, PTL DEF ContractSpec, DeferredSetCopies

\* What a flush does to the world is what its commands mean, in whatever order
\* they were issued.
THEOREM FlushMeans == ContractSpec => FlushMeaning
<1>1. ASSUME ContractInv, [ContractNext]_vars, Flushed
      PROVE  /\ World!Live' = World!Live \ Range(kills)
             /\ \A h \in World!Live', c \in Component :
                   SetsOf(h, c) = {} =>
                      /\ c \in DOMAIN store'[h] <=>
                            /\ ~In(removes, h, c)
                            /\ In(adds, h, c) \/ c \in DOMAIN store[h]
                      /\ c \in DOMAIN store'[h] \cap DOMAIN store[h] =>
                            store'[h][c] = store[h][c]
  <2>1. Meant(store')
    BY <1>1, FlushedByFlush, ContractFlush
  <2>2. World!Live' = World!Live \ Range(kills)
    BY <2>1 DEF Meant, World!Live, Range
  <2>3. ASSUME NEW h, NEW c
        PROVE  /\ In(removes, h, c) <=> RemoveNamed(h, c)
               /\ In(adds, h, c) <=> AddNamed(h, c)
    <3>1. /\ \A j \in DOMAIN removes : removes[j] \in CommandOn
          /\ \A j \in DOMAIN adds : adds[j] \in CommandOn
      <4>1. adds \in Seq(CommandOn) /\ removes \in Seq(CommandOn)
        BY <1>1 DEF ContractInv, TypeOK
      <4> QED  BY ONLY <4>1
    <3>2. \A cmd \in CommandOn :
             cmd = [entity |-> h, cid |-> c] <=> cmd.entity = h /\ cmd.cid = c
      BY DEF CommandOn
    <3> QED  BY <3>1, <3>2 DEF In, RemoveNamed, AddNamed, Range
  <2>4. ASSUME NEW h \in World!Live', NEW c \in Component, SetsOf(h, c) = {}
        PROVE  /\ c \in DOMAIN store'[h] <=>
                     /\ ~In(removes, h, c)
                     /\ In(adds, h, c) \/ c \in DOMAIN store[h]
               /\ c \in DOMAIN store'[h] \cap DOMAIN store[h] =>
                     store'[h][c] = store[h][c]
    <3>1. ~Writes(sets, h, c)
      BY <2>4 DEF Writes, SetsOf
    <3>2. h \in DOMAIN store'
      BY DEF World!Live
    <3>3. /\ c \in DOMAIN store'[h] <=>
                ~RemoveNamed(h, c) /\ (AddNamed(h, c) \/ c \in DOMAIN store[h])
          /\ c \in DOMAIN store'[h] /\ c \in DOMAIN store[h] => store'[h][c] = store[h][c]
      BY ONLY <2>1, <3>1, <3>2 DEF Meant
    <3> QED  BY ONLY <2>3, <3>3
  <2> QED  BY <2>2, <2>4
<1> QED  BY <1>1, ContractInvariant, PTL DEF ContractSpec, FlushMeaning
=============================================================================
