------------------------------ MODULE PartsProofs ------------------------------
(***************************************************************************)
(* Theorems about the parts of the engine that are correct by themselves:  *)
(* the event registry, plugins, required components, sparse arrays, the    *)
(* terms of a query, entity types, vectors and the listeners of entities,  *)
(* each under the discipline of its own specification.                     *)
(***************************************************************************)
EXTENDS EntityTypes, Vectors, SparseArrays, QueryTerms, Events, Setup, EntityEvents,
    StorageProofs, FiniteSetTheorems

\* Folds over terms, over component ids and over the positions of a growing list.
TermFold == INSTANCE SequenceFolds WITH Op <- Appended
IdFold == INSTANCE SequenceFolds WITH Op <- AddNewId
WalkFold == INSTANCE SequenceFolds WITH Op <- Expand

-----------------------------------------------------------------------------
(* Events *)

\* A running emit has called the first `next` of the listeners it began with,
\* and those are still where they were.
Going(e) ==
    /\ e.valid = TRUE
    /\ e.next <= e.end /\ e.end <= Len(listeners)
    /\ e.due = SubSeq(listeners, 1, e.end)
    /\ e.heard = SubSeq(listeners, 1, e.next)

\* The vector holds exactly those who are subscribed, each at its id.
EventsInv ==
    /\ EventsTypeOK
    /\ ~undefined
    /\ listeners = subscribed
    /\ IdsNameTheirOwners
    /\ \A k \in DOMAIN emits : Going(emits[k])

-----------------------------------------------------------------------------
(* Sequences *)

\* A vector that is moved has room for one element more.
LEMMA RoomForOne ==
    ASSUME NEW n \in Nat
    PROVE  Max({1, 2 * n}) \in Nat /\ Max({1, 2 * n}) >= n + 1
<1> DEFINE P(z) == z \in {1, 2 * n} /\ \A t \in {1, 2 * n} : z >= t
<1>1. P(1) \/ P(2 * n)
  OBVIOUS
<1>2. \E z : P(z)
  BY <1>1
<1>3. P(CHOOSE z : P(z))
  BY <1>2
<1>4. Max({1, 2 * n}) = CHOOSE z : P(z)
  BY DEF Max
<1> QED  BY <1>3, <1>4

\* erase of the last element.
LEMMA RemoveLast ==
    ASSUME NEW T, NEW s \in Seq(T), s # << >>
    PROVE  /\ RemoveAt(s, Len(s)) \in Seq(T)
           /\ Len(RemoveAt(s, Len(s))) = Len(s) - 1
           /\ \A i \in 1 .. Len(s) - 1 : RemoveAt(s, Len(s))[i] = s[i]
<1>1. Len(s) \in Nat /\ Len(s) # 0 /\ Len(s) - 1 \in Nat
  OBVIOUS
<1>2. SubSeq(s, Len(s) + 1, Len(s)) = << >>
  BY <1>1
<1>3. /\ SubSeq(s, 1, Len(s) - 1) \in Seq(T)
      /\ Len(SubSeq(s, 1, Len(s) - 1)) = Len(s) - 1
      /\ \A i \in 1 .. Len(s) - 1 : SubSeq(s, 1, Len(s) - 1)[i] = s[i]
  BY <1>1
<1>4. RemoveAt(s, Len(s)) = SubSeq(s, 1, Len(s) - 1)
  BY <1>2, <1>3 DEF RemoveAt
<1> QED  BY <1>3, <1>4

\* A prefix with the element after it.
LEMMA PrefixGrows ==
    ASSUME NEW T, NEW s \in Seq(T), NEW n \in Nat, n < Len(s)
    PROVE  /\ s[n + 1] \in T
           /\ SubSeq(s, 1, n + 1) = Append(SubSeq(s, 1, n), s[n + 1])
           /\ SubSeq(s, 1, n) \in Seq(T) /\ Len(SubSeq(s, 1, n)) = n
<1>1. Len(s) \in Nat /\ n + 1 \in 1 .. Len(s)
  OBVIOUS
<1>2. /\ SubSeq(s, 1, n) \in Seq(T) /\ Len(SubSeq(s, 1, n)) = n
      /\ \A i \in 1 .. n : SubSeq(s, 1, n)[i] = s[i]
  BY <1>1
<1>3. /\ SubSeq(s, 1, n + 1) \in Seq(T) /\ Len(SubSeq(s, 1, n + 1)) = n + 1
      /\ \A i \in 1 .. n + 1 : SubSeq(s, 1, n + 1)[i] = s[i]
  BY <1>1
<1>4. s[n + 1] \in T
  BY <1>1
<1> QED  BY <1>2, <1>3, <1>4

\* What follows a prefix does not count.
LEMMA PrefixOfAppended ==
    ASSUME NEW T, NEW s \in Seq(T), NEW x \in T, NEW n \in Nat, n <= Len(s)
    PROVE  SubSeq(Append(s, x), 1, n) = SubSeq(s, 1, n)
<1>1. Len(s) \in Nat /\ Len(Append(s, x)) = Len(s) + 1 /\ Append(s, x) \in Seq(T)
  OBVIOUS
<1>2. /\ SubSeq(s, 1, n) \in Seq(T) /\ Len(SubSeq(s, 1, n)) = n
      /\ \A i \in 1 .. n : SubSeq(s, 1, n)[i] = s[i]
  BY <1>1
<1>3. /\ SubSeq(Append(s, x), 1, n) \in Seq(T) /\ Len(SubSeq(Append(s, x), 1, n)) = n
      /\ \A i \in 1 .. n : SubSeq(Append(s, x), 1, n)[i] = Append(s, x)[i]
  BY <1>1
<1>4. \A i \in 1 .. n : Append(s, x)[i] = s[i]
  BY <1>1
<1> QED  BY <1>2, <1>3, <1>4

-----------------------------------------------------------------------------
(* The invariant is inductive *)

\* An index for which there is an id is its own id.
LEMMA SmallUncut ==
    ASSUME NEW n \in Nat, NEW m \in Nat \ {0}, n < m
    PROVE  n % m = n
OBVIOUS

\* Nobody listens at first.
LEMMA EventsInitInv ==
    ASSUME EventsAssumption, EventsInit
    PROVE  EventsInv
<1>1. /\ DOMAIN listeners = {} /\ DOMAIN subscribed = {} /\ DOMAIN emits = {}
      /\ Len(listeners) = 0 /\ Len(emits) = 0
      /\ listeners \in Seq(Owner) /\ subscribed \in Seq(Owner) /\ emits \in Seq(Emit)
  BY DEF EventsInit
<1>2. EventsTypeOK
  <2>1. IsInjective(subscribed)
    BY <1>1 DEF IsInjective
  <2>2. capacity \in Nat /\ Len(listeners) <= capacity /\ Len(emits) <= MaxDepth
    BY <1>1 DEF EventsInit, EventsAssumption
  <2>3. id \in [Owner -> 0 .. EventIds - 1] /\ undefined \in BOOLEAN
    <3>1. 0 \in 0 .. EventIds - 1
      BY DEF EventsAssumption
    <3>2. id = [o \in Owner |-> 0] /\ undefined = FALSE
      BY DEF EventsInit
    <3> QED  BY ONLY <3>1, <3>2
  <2> QED  BY ONLY <1>1, <2>1, <2>2, <2>3 DEF EventsTypeOK
<1>3. IdsNameTheirOwners
  BY <1>1 DEF IdsNameTheirOwners, Listening, Range
<1> QED  BY <1>1, <1>2, <1>3 DEF EventsInit, EventsInv

\* listen, while there are ids, outside every emit or where the vector has room.
LEMMA ListenKeepsInv ==
    ASSUME EventsAssumption, EventsInv, NEW o \in Owner, MayListen, Listen(o)
    PROVE  EventsInv'
<1> PICK n, t : n = Len(listeners) /\ t = Append(listeners, o)
  OBVIOUS
<1>1. /\ listeners \in Seq(Owner) /\ subscribed = listeners /\ n \in Nat
      /\ capacity \in Nat /\ n <= capacity /\ id \in [Owner -> 0 .. EventIds - 1]
      /\ emits \in Seq(Emit) /\ Len(emits) <= MaxDepth
      /\ IsInjective(listeners)
  BY DEF EventsInv, EventsTypeOK
<1>a. EventIds \in Nat \ {0} /\ n < EventIds /\ (emits = << >> \/ n < capacity)
  BY DEF MayListen, EventsAssumption
<1>b. NewId = n
  <2>1. n % EventIds = n
    BY ONLY <1>1, <1>a, SmallUncut
  <2> QED  BY <2>1 DEF NewId
<1>2. /\ listeners' = t /\ subscribed' = t
      /\ id' = [id EXCEPT ![o] = n] /\ undefined' = undefined
  BY <1>1, <1>b DEF Listen, PushCallback
<1>3. /\ t \in Seq(Owner) /\ Len(t) = n + 1 /\ DOMAIN t = 1 .. n + 1 /\ t[n + 1] = o
      /\ DOMAIN listeners = 1 .. n /\ \A i \in 1 .. n : t[i] = listeners[i]
  BY <1>1
<1>4. \A i \in 1 .. n : listeners[i] # o
  BY <1>1, <1>3 DEF Listen, Listening, Range
<1>5. emits' = emits
  <2>1. CASE emits = << >>
    <3>1. DOMAIN emits = {}
      BY <2>1
    <3>2. Invalidated = << >>
      BY <3>1 DEF Invalidated
    <3> QED  BY <2>1, <3>2 DEF Listen, PushCallback
  <2>2. CASE n < capacity
    BY <1>1, <2>2 DEF Listen, PushCallback
  <2> QED  BY <1>a, <2>1, <2>2
<1>6. capacity' \in Nat /\ n + 1 <= capacity'
  <2>1. CASE n = capacity
    BY <1>1, <2>1, RoomForOne DEF Listen, PushCallback
  <2>2. CASE n # capacity
    BY <1>1, <2>2 DEF Listen, PushCallback
  <2> QED  BY <2>1, <2>2
<1>7. IsInjective(t)
  BY <1>1, <1>3, <1>4 DEF IsInjective
<1>8. EventsTypeOK'
  <2>1. id' \in [Owner -> 0 .. EventIds - 1]
    BY <1>1, <1>2, <1>a
  <2>2. undefined' \in BOOLEAN
    BY <1>2 DEF EventsInv, EventsTypeOK
  <2> QED  BY <1>1, <1>2, <1>3, <1>5, <1>6, <1>7, <2>1, <2>2 DEF EventsTypeOK
<1>9. IdsNameTheirOwners'
  <2> SUFFICES ASSUME NEW p \in Owner, Listening(p)'
               PROVE  id'[p] + 1 \in DOMAIN listeners' /\ listeners'[id'[p] + 1] = p
    BY DEF IdsNameTheirOwners
  <2>1. CASE p = o
    BY <1>1, <1>2, <1>3, <2>1
  <2>2. CASE p # o
    <3>1. PICK i \in 1 .. n + 1 : t[i] = p
      BY <1>2, <1>3 DEF Listening, Range
    <3>2. i \in 1 .. n
      BY <1>1, <1>3, <2>2, <3>1
    <3>3. Listening(p)
      BY <1>1, <1>3, <3>1, <3>2 DEF Listening, Range
    <3>4. id[p] + 1 \in 1 .. n /\ listeners[id[p] + 1] = p /\ id'[p] = id[p]
      BY <1>1, <1>2, <1>3, <2>2, <3>3 DEF EventsInv, IdsNameTheirOwners
    <3> QED  BY <1>1, <1>2, <1>3, <3>4
  <2> QED  BY <2>1, <2>2
<1>10. ASSUME NEW k \in DOMAIN emits
       PROVE  Going(emits[k])'
  <2>0. PICK e : e = emits[k]
    OBVIOUS
  <2>1. e \in Emit /\ emits'[k] = e
    BY <1>1, <1>5, <2>0
  <2>2. Going(e)
    BY <2>0 DEF EventsInv
  <2>3. e.next \in Nat /\ e.end \in Nat /\ e.next <= n /\ e.end <= n
    BY <1>1, <2>1, <2>2 DEF Emit, Going
  <2>4. SubSeq(t, 1, e.end) = SubSeq(listeners, 1, e.end)
        /\ SubSeq(t, 1, e.next) = SubSeq(listeners, 1, e.next)
    BY <1>1, <2>3, PrefixOfAppended
  <2>5. e.end <= Len(t)
    BY <1>1, <1>3, <2>3
  <2> QED  BY ONLY <1>2, <2>1, <2>2, <2>4, <2>5 DEF Going
<1>11. (\A k \in DOMAIN emits : Going(emits[k]))'
  BY <1>5, <1>10
<1>12. ~undefined'
  BY <1>2 DEF EventsInv
<1> QED  BY <1>2, <1>8, <1>9, <1>11, <1>12 DEF EventsInv

\* unlisten by the newest listener, outside every emit.
LEMMA UnlistenKeepsInv ==
    ASSUME EventsAssumption, EventsInv, NEW o \in Owner, Unlisten(o), emits = << >>,
           o = Last(subscribed)
    PROVE  EventsInv'
<1> PICK n, s : n = Len(listeners) /\ s = listeners
  OBVIOUS
<1>1. /\ s \in Seq(Owner) /\ subscribed = s /\ n \in Nat /\ DOMAIN s = 1 .. n /\ n = Len(s)
      /\ capacity \in Nat /\ n <= capacity /\ id \in [Owner -> 0 .. EventIds - 1]
      /\ IsInjective(s)
  BY DEF EventsInv, EventsTypeOK
<1>2. n \in 1 .. n /\ s # << >> /\ o = s[n]
  <2>1. \E i \in 1 .. n : s[i] = o
    BY <1>1 DEF Unlisten, Listening, Range
  <2> QED  BY <1>1, <2>1 DEF Last
<1>3. \A i \in 1 .. n : s[i] = o => i = n
  BY <1>1, <1>2 DEF IsInjective
<1>4. id[o] + 1 = n
  <2>1. id[o] + 1 \in DOMAIN s /\ s[id[o] + 1] = o
    BY DEF EventsInv, IdsNameTheirOwners, Unlisten
  <2> QED  BY <1>1, <1>3, <2>1
<1>5. (CHOOSE i \in DOMAIN subscribed : subscribed[i] = o) = n
  BY <1>1, <1>2, <1>3
<1> PICK t : t = RemoveAt(s, n)
  OBVIOUS
<1>6. listeners' = t /\ subscribed' = t /\ undefined' = undefined /\ emits' = << >>
  <2>1. id[o] < n
    BY <1>1, <1>4
  <2>2. Invalidated = << >>
    <3>1. DOMAIN emits = {}
      OBVIOUS
    <3> QED  BY <3>1 DEF Invalidated
  <2> QED  BY <1>1, <1>4, <1>5, <2>1, <2>2 DEF Unlisten, Erased
<1>7. /\ t \in Seq(Owner) /\ Len(t) = n - 1 /\ DOMAIN t = 1 .. n - 1
      /\ \A i \in 1 .. n - 1 : t[i] = s[i]
  <2>1. /\ t \in Seq(Owner) /\ Len(t) = n - 1
        /\ \A i \in 1 .. n - 1 : t[i] = s[i]
    <3>1. t = RemoveAt(s, n)
      OBVIOUS
    <3> QED  BY ONLY <1>1, <1>2, <3>1, RemoveLast
  <2> QED  BY ONLY <2>1
<1>8. id' = [id EXCEPT ![o] = 0] /\ capacity' = capacity
  BY DEF Unlisten
<1>9. EventsTypeOK'
  <2>1. id' \in [Owner -> 0 .. EventIds - 1]
    <3>1. 0 \in 0 .. EventIds - 1
      BY DEF EventsAssumption
    <3> QED  BY <1>1, <1>8, <3>1
  <2>2. IsInjective(t)
    <3>1. \A a, b \in 1 .. n - 1 : t[a] = t[b] => a = b
      <4>1. \A a \in 1 .. n - 1 : t[a] = s[a] /\ a \in DOMAIN s
        <5>1. n \in Nat /\ DOMAIN s = 1 .. n
          BY <1>1
        <5>2. \A a \in 1 .. n - 1 : t[a] = s[a]
          BY <1>7
        <5> QED  BY ONLY <5>1, <5>2
      <4> QED  BY ONLY <1>1, <4>1 DEF IsInjective
    <3> QED  BY ONLY <1>7, <3>1 DEF IsInjective
  <2>3. Len(t) <= capacity
    BY <1>1, <1>7
  <2>4. emits' \in Seq(Emit) /\ Len(emits') <= MaxDepth /\ undefined' \in BOOLEAN
    BY <1>6 DEF EventsInv, EventsTypeOK
  <2> QED  BY <1>1, <1>6, <1>7, <1>8, <2>1, <2>2, <2>3, <2>4 DEF EventsTypeOK
<1>10. IdsNameTheirOwners'
  <2> SUFFICES ASSUME NEW p \in Owner, Listening(p)'
               PROVE  id'[p] + 1 \in DOMAIN listeners' /\ listeners'[id'[p] + 1] = p
    BY DEF IdsNameTheirOwners
  <2>1. PICK i \in 1 .. n - 1 : t[i] = p
    BY <1>6, <1>7 DEF Listening, Range
  <2>2. i \in 1 .. n /\ i # n /\ s[i] = p
    BY <1>1, <1>7, <2>1
  <2>3. p # o /\ Listening(p)
    BY <1>1, <1>3, <2>2 DEF Listening, Range
  <2>4. id[p] + 1 \in 1 .. n /\ s[id[p] + 1] = p /\ id'[p] = id[p]
    BY <1>1, <1>8, <2>3 DEF EventsInv, IdsNameTheirOwners
  <2>5. id[p] + 1 \in 1 .. n - 1
    BY <1>1, <1>2, <2>3, <2>4
  <2> QED  BY <1>6, <1>7, <2>4, <2>5
<1>11. DOMAIN emits' = {}
  BY <1>6
<1> QED  BY <1>6, <1>9, <1>10, <1>11 DEF EventsInv

\* An emit begins.
LEMMA BeginKeepsInv ==
    ASSUME EventsAssumption, EventsInv, BeginEmit
    PROVE  EventsInv'
<1> PICK e : e = [next |-> 0, end |-> Len(listeners), valid |-> TRUE,
                  due |-> subscribed, heard |-> << >>]
  OBVIOUS
<1>1. /\ listeners \in Seq(Owner) /\ subscribed = listeners /\ Len(listeners) \in Nat
      /\ emits \in Seq(Emit) /\ Len(emits) <= MaxDepth /\ Len(emits) \in Nat
      /\ DOMAIN emits = 1 .. Len(emits)
  BY DEF EventsInv, EventsTypeOK
<1>2. emits' = Append(emits, e) /\ UNCHANGED <<listeners, capacity, id, undefined, subscribed>>
  BY DEF BeginEmit
<1>3. << >> \in Seq(Owner) /\ SubSeq(listeners, 1, 0) = << >>
      /\ SubSeq(listeners, 1, Len(listeners)) = listeners
  BY <1>1
<1>4. e \in Emit /\ Going(e)
  BY <1>1, <1>3 DEF Emit, Going
<1>5. /\ emits' \in Seq(Emit) /\ Len(emits') = Len(emits) + 1
      /\ DOMAIN emits' = 1 .. Len(emits) + 1
      /\ emits'[Len(emits) + 1] = e /\ \A k \in 1 .. Len(emits) : emits'[k] = emits[k]
  BY <1>1, <1>2, <1>4
<1>6. ASSUME NEW k \in DOMAIN emits'
      PROVE  Going(emits'[k])
  <2>1. CASE k \in 1 .. Len(emits)
    BY <1>1, <1>5, <2>1 DEF EventsInv
  <2>2. CASE k = Len(emits) + 1
    BY <1>4, <1>5, <2>2
  <2> QED  BY <1>1, <1>5, <2>1, <2>2
<1>7. EventsTypeOK'
  <2>1. MaxDepth \in Nat /\ Len(emits) < MaxDepth
    BY DEF BeginEmit, EventsAssumption
  <2>2. Len(emits') <= MaxDepth
    BY <1>1, <1>5, <2>1
  <2> QED  BY <1>1, <1>2, <1>5, <2>2 DEF EventsInv, EventsTypeOK
<1>8. (~undefined)' /\ (listeners = subscribed)' /\ IdsNameTheirOwners'
  BY <1>2 DEF EventsInv, IdsNameTheirOwners, Listening
<1>9. (\A k \in DOMAIN emits : Going(emits[k]))'
  BY ONLY <1>2, <1>6 DEF Going
<1> QED  BY ONLY <1>7, <1>8, <1>9 DEF EventsInv

\* The innermost emit calls its next listener or returns.
LEMMA GoOnKeepsInv ==
    ASSUME EventsAssumption, EventsInv, GoOn
    PROVE  /\ EventsInv'
           /\ \/ /\ Innermost.next = Innermost.end
                 /\ emits' = Front(emits)
              \/ \E e : /\ emits' = [emits EXCEPT ![Len(emits)] = e]
                       /\ e.heard = Append(Innermost.heard, listeners[Innermost.next + 1])
                       /\ Innermost.next + 1 \in DOMAIN listeners
<1>0. PICK d, e, l : d = Len(emits) /\ e = Innermost /\ l = listeners
  OBVIOUS
<1>1. /\ l = listeners /\ l \in Seq(Owner) /\ Len(l) \in Nat /\ DOMAIN l = 1 .. Len(l)
      /\ emits \in Seq(Emit) /\ d <= MaxDepth /\ d \in Nat /\ DOMAIN emits = 1 .. d
      /\ d = Len(emits)
  BY <1>0 DEF EventsInv, EventsTypeOK
<1>2. d \in 1 .. d /\ e = emits[d] /\ e = Innermost /\ ~undefined
  BY <1>0, <1>1 DEF GoOn, Innermost, Last
<1>3. e \in Emit /\ Going(e)
  <2>1. Going(emits[d])
    BY <1>1, <1>2 DEF EventsInv
  <2>2. emits \in Seq(Emit) /\ d = Len(emits) /\ d \in 1 .. d /\ e = emits[d]
    BY <1>1, <1>2
  <2>3. e \in Emit
    BY ONLY <2>2
  <2> QED  BY ONLY <2>1, <2>2, <2>3
<1>4. /\ e.next \in Nat /\ e.end \in Nat /\ e.next <= e.end /\ e.end <= Len(l)
      /\ e.due = SubSeq(l, 1, e.end) /\ e.heard = SubSeq(l, 1, e.next)
      /\ e.valid = TRUE /\ e.due \in Seq(Owner)
  BY <1>1, <1>3 DEF Emit, Going
<1>5. UNCHANGED <<listeners, capacity, id, subscribed, undefined>>
  BY <1>2, <1>4 DEF GoOn
<1>6. CASE AtEnd
  <2>1. emits' = SubSeq(emits, 1, d - 1)
    BY <1>1, <1>2, <1>4, <1>6 DEF GoOn, Front
  <2>2. /\ emits' \in Seq(Emit) /\ Len(emits') = d - 1 /\ DOMAIN emits' = 1 .. d - 1
        /\ \A k \in 1 .. d - 1 : emits'[k] = emits[k] /\ k \in DOMAIN emits
    BY <1>1, <1>2, <2>1
  <2>3. Len(emits') <= MaxDepth
    <3>1. Len(emits') <= d /\ Len(emits') \in Nat
      BY <1>1, <1>2, <2>2
    <3> QED  BY <1>1, <3>1 DEF EventsAssumption
  <2>4. EventsTypeOK'
    BY <1>5, <2>2, <2>3 DEF EventsInv, EventsTypeOK
  <2>5. EventsInv'
    BY <1>5, <2>2, <2>4 DEF EventsInv, Going, IdsNameTheirOwners, Listening
  <2> QED  BY ONLY <1>1, <1>2, <1>6, <2>1, <2>5 DEF AtEnd, Front
<1>7. CASE ~AtEnd
  <2>0. PICK f : f = Called(e)
    OBVIOUS
  <2>1. e.next < e.end /\ e.next < Len(l) /\ e.next + 1 \in DOMAIN l
    BY <1>1, <1>2, <1>4, <1>7 DEF AtEnd
  <2>2. PICK o, h : /\ o = l[e.next + 1] /\ h = Append(e.heard, o)
                    /\ o \in Owner /\ h = SubSeq(l, 1, e.next + 1) /\ h \in Seq(Owner)
    <3>1. /\ l[e.next + 1] \in Owner
          /\ SubSeq(l, 1, e.next + 1) = Append(e.heard, l[e.next + 1])
          /\ e.heard \in Seq(Owner)
      <4>1. /\ l \in Seq(Owner) /\ e.next \in Nat /\ e.next < Len(l)
            /\ e.heard = SubSeq(l, 1, e.next)
        BY <1>1, <1>4, <2>1
      <4> QED  BY ONLY <4>1, PrefixGrows
    <3>2. Append(e.heard, l[e.next + 1]) \in Seq(Owner)
      BY <3>1
    <3> QED  BY <3>1, <3>2
  <2>3. emits' = [emits EXCEPT ![d] = f]
    BY <1>1, <1>2, <1>4, <1>7, <2>0 DEF GoOn
  <2>4. f \in Emit /\ Going(f) /\ f.heard = h
    <3>1. f = [next |-> e.next + 1, end |-> e.end, valid |-> TRUE,
               due |-> e.due, heard |-> h]
      BY <1>1, <1>3, <1>4, <2>0, <2>2 DEF Emit, Called
    <3>2. /\ f.next = e.next + 1 /\ f.end = e.end /\ f.valid = TRUE
          /\ f.due = e.due /\ f.heard = h
      BY <3>1
    <3>3. f \in Emit
      BY ONLY <1>4, <2>2, <3>1 DEF Emit
    <3>4. e.next + 1 <= e.end
      BY ONLY <1>4, <2>1
    <3> QED  BY ONLY <1>1, <1>4, <2>2, <3>2, <3>3, <3>4 DEF Going
  <2>5. /\ emits' \in Seq(Emit) /\ Len(emits') = d /\ DOMAIN emits' = 1 .. d
        /\ emits'[d] = f /\ \A k \in 1 .. d : k # d => emits'[k] = emits[k]
    <3>1. emits \in [1 .. d -> Emit] /\ d \in 1 .. d /\ d \in Nat /\ f \in Emit
      BY <1>1, <1>2, <2>4
    <3>2. /\ emits' \in [1 .. d -> Emit]
          /\ emits'[d] = f /\ \A k \in 1 .. d : k # d => emits'[k] = emits[k]
      BY ONLY <2>3, <3>1
    <3> QED  BY ONLY <3>1, <3>2
  <2>6. ASSUME NEW k \in DOMAIN emits'
        PROVE  Going(emits'[k])
    BY <1>1, <1>2, <2>4, <2>5 DEF EventsInv
  <2>7. EventsTypeOK'
    BY <1>1, <1>5, <2>5 DEF EventsInv, EventsTypeOK
  <2>8. EventsInv'
    BY <1>5, <2>6, <2>7 DEF EventsInv, Going, IdsNameTheirOwners, Listening
  <2> QED  BY ONLY <1>1, <1>2, <2>1, <2>2, <2>3, <2>4, <2>8
<1> QED  BY <1>6, <1>7

\* Every step of the discipline keeps the invariant.
LEMMA StackStep ==
    ASSUME EventsAssumption, EventsInv, [StackNext]_eventVars
    PROVE  EventsInv'
<1>1. CASE UNCHANGED eventVars
  <2>1. EventsTypeOK'
    BY <1>1 DEF eventVars, EventsInv, EventsTypeOK
  <2> QED  BY <1>1, <2>1 DEF eventVars, EventsInv, Going, IdsNameTheirOwners, Listening
<1> QED  BY <1>1, ListenKeepsInv, UnlistenKeepsInv, BeginKeepsInv, GoOnKeepsInv DEF StackNext

\* Under the discipline the vector holds those who are subscribed, each at its id,
\* and every running emit is where its iterators say.
THEOREM EventsInvariant ==
    ASSUME EventsAssumption PROVE StackSpec => []EventsInv
<1>1. EventsInit => EventsInv
  BY EventsInitInv
<1>2. EventsInv /\ [StackNext]_eventVars => EventsInv'
  BY StackStep
<1> QED  BY <1>1, <1>2, PTL DEF StackSpec

\* unlisten takes away the callback of the owner who calls it.
THEOREM IdsStayRight ==
    ASSUME EventsAssumption PROVE StackSpec => []IdsNameTheirOwners
<1>1. EventsInv => IdsNameTheirOwners
  BY DEF EventsInv
<1> QED  BY <1>1, EventsInvariant, PTL

\* No loop goes on with an invalid iterator and no erase is out of range.
THEOREM IteratorsStayRight ==
    ASSUME EventsAssumption PROVE StackSpec => []IteratorsStayValid
<1>1. EventsInv => IteratorsStayValid
  BY DEF EventsInv, IteratorsStayValid
<1> QED  BY <1>1, EventsInvariant, PTL

-----------------------------------------------------------------------------
(* What steps do *)

\* Only going on changes what a running emit has called.
LEMMA OthersCallNobody ==
    ASSUME EventsInv, [StackNext]_eventVars, ~GoOn
    PROVE  /\ Len(emits') >= Len(emits)
           /\ \A k \in DOMAIN emits : emits'[k] = emits[k]
<1>1. emits \in Seq(Emit) /\ Len(emits) \in Nat /\ DOMAIN emits = 1 .. Len(emits)
  BY DEF EventsInv, EventsTypeOK
<1>2. CASE BeginEmit
  <2>1. PICK e : emits' = Append(emits, e)
    BY <1>2 DEF BeginEmit
  <2> QED  BY <1>1, <2>1
<1>3. CASE emits = << >>
  BY <1>1, <1>3
<1>4. ASSUME NEW o \in Owner, Listen(o), Len(listeners) < capacity
      PROVE  emits' = emits
  BY <1>4 DEF Listen, PushCallback, EventsInv, EventsTypeOK
<1>5. CASE UNCHANGED eventVars
  BY <1>1, <1>5 DEF eventVars
<1> QED  BY <1>1, <1>2, <1>3, <1>4, <1>5 DEF StackNext, MayListen

\* Nobody is called after it has unlistened.
LEMMA CallsAreSubscribed ==
    ASSUME EventsAssumption, EventsInv, [StackNext]_eventVars PROVE CallsSubscribed
<1>1. ASSUME NEW o \in Owner, NEW k \in DOMAIN emits \cap DOMAIN emits',
             emits'[k].heard = Append(emits[k].heard, o)
      PROVE  Listening(o)
  <2>1. emits \in Seq(Emit) /\ emits[k] \in Emit /\ Len(emits) \in Nat
        /\ DOMAIN emits = 1 .. Len(emits) /\ listeners = subscribed
    BY <1>1 DEF EventsInv, EventsTypeOK
  <2>2. PICK h \in Seq(Owner) : h = emits[k].heard
    BY <2>1 DEF Emit
  <2>3. h # Append(h, o)
    BY <2>2
  <2>4. CASE ~GoOn
    <3>1. emits'[k] = emits[k]
      BY <1>1, <2>4, OthersCallNobody
    <3> QED  BY ONLY <1>1, <2>2, <2>3, <3>1
  <2>5. CASE GoOn
    <3>1. CASE emits' = Front(emits)
      <4>1. emits'[k] = emits[k]
        BY <2>1, <3>1 DEF Front
      <4> QED  BY ONLY <1>1, <2>2, <2>3, <4>1
    <3>2. ASSUME NEW e, emits' = [emits EXCEPT ![Len(emits)] = e],
                 e.heard = Append(Innermost.heard, listeners[Innermost.next + 1]),
                 Innermost.next + 1 \in DOMAIN listeners
          PROVE  Listening(o)
      <4>1. CASE k # Len(emits)
        <5>1. emits'[k] = emits[k]
          BY <2>1, <3>2, <4>1
        <5> QED  BY ONLY <1>1, <2>2, <2>3, <5>1
      <4>2. CASE k = Len(emits)
        <5>1. PICK p : p = listeners[Innermost.next + 1]
          OBVIOUS
        <5>2. emits'[k] = e /\ Innermost = emits[k]
          BY <2>1, <3>2, <4>2 DEF Innermost, Last
        <5>3. Append(h, p) = Append(h, o)
          BY ONLY <1>1, <2>2, <3>2, <5>1, <5>2
        <5>4. p = o
          <6>1. /\ Append(h, p)[Len(h) + 1] = p /\ Append(h, o)[Len(h) + 1] = o
            BY ONLY h \in Seq(Owner)
          <6> QED  BY ONLY <5>3, <6>1
        <5> QED  BY <2>1, <3>2, <5>1, <5>4 DEF Listening, Range
      <4> QED  BY <4>1, <4>2
    <3> QED  BY <1>1, <2>5, <3>1, <3>2, GoOnKeepsInv
  <2> QED  BY <2>4, <2>5
<1> QED  BY <1>1 DEF CallsSubscribed

\* An emit that returns has called everyone who was listening when it began, in
\* order, whatever its callbacks did.
LEMMA EmitsAreComplete ==
    ASSUME EventsAssumption, EventsInv, [StackNext]_eventVars PROVE ReturnsLast
<1>1. ASSUME Len(emits') < Len(emits)
      PROVE  Innermost.heard = Innermost.due
  <2>1. emits \in Seq(Emit) /\ Len(emits) \in Nat /\ DOMAIN emits = 1 .. Len(emits)
    BY <1>1 DEF EventsInv, EventsTypeOK
  <2>2. GoOn
    <3>1. Len(emits') \in Nat
      BY <1>1, StackStep DEF EventsInv, EventsTypeOK
    <3> QED  BY <1>1, <2>1, <3>1, OthersCallNobody
  <2>3. Going(Innermost)
    <3>1. Len(emits) \in DOMAIN emits
      BY <2>1, <2>2 DEF GoOn
    <3> QED  BY <1>1, <3>1 DEF EventsInv, Innermost, Last
  <2>4. Innermost.next = Innermost.end
    <3>1. ASSUME NEW e, emits' = [emits EXCEPT ![Len(emits)] = e]
          PROVE  Len(emits') = Len(emits)
      BY <2>1, <3>1
    <3> QED  BY <1>1, <2>1, <2>2, <3>1, GoOnKeepsInv
  <2> QED  BY ONLY <2>3, <2>4 DEF Going
<1> QED  BY <1>1 DEF ReturnsLast

\* Under the discipline nobody is called after it has unlistened, and an emit calls
\* everyone who was listening when it began, however deep emits are nested.
THEOREM EmitsCallRight ==
    ASSUME EventsAssumption PROVE StackSpec => EmitsCallListeners
<1>1. EventsInv /\ [StackNext]_eventVars => CallsSubscribed /\ ReturnsLast
  BY CallsAreSubscribed, EmitsAreComplete
<1> QED  BY <1>1, EventsInvariant, PTL DEF StackSpec, EmitsCallListeners

-----------------------------------------------------------------------------
(* Plugins *)

\* The lists of steps that running builds have left.
Builds == Seq(Seq(Plugin \cup ComponentType))

\* A world has built the plugins whose ids are up to its count, and those only.
Ordered(known, last, done, asked0) ==
    /\ \A j \in 1 .. last + 1 : known[j] \in Range(done)
    /\ \A q \in Range(done) : \E j \in 1 .. last + 1 : known[j] = q
    /\ IsInjective(done)
    /\ asked0 \subseteq Range(done)

PluginsInv ==
    /\ PluginsTyped
    /\ IsInjective(ids)
    /\ \A w \in World : Ordered(ids, pluginCount[w], built[w], told[w])

\* A plugin type keeps its id and a new one takes the next.
LEMMA PluginIds ==
    ASSUME PluginsTyped, IsInjective(ids), NEW p \in Plugin
    PROVE  /\ IdsWith(p) \in Seq(Plugin) /\ IsInjective(IdsWith(p))
           /\ Len(IdsWith(p)) \in Nat /\ Len(ids) \in Nat /\ Len(ids) <= Len(IdsWith(p))
           /\ \A j \in 1 .. Len(ids) : IdsWith(p)[j] = ids[j]
           /\ PluginId(p) \in 0 .. Len(IdsWith(p)) - 1
           /\ IdsWith(p)[PluginId(p) + 1] = p
           /\ PluginId(p) <= Len(ids)
<1> PICK n, s : n = Len(ids) /\ s = IdsWith(p)
  OBVIOUS
<1>1. ids \in Seq(Plugin) /\ n \in Nat /\ DOMAIN ids = 1 .. n
  BY DEF PluginsTyped
<1>2. /\ s \in Seq(Plugin) /\ Len(s) \in Nat /\ n <= Len(s) /\ Len(s) <= n + 1
      /\ \A j \in 1 .. n : s[j] = ids[j]
      /\ \E j \in 1 .. Len(s) : s[j] = p
      /\ Len(s) = n + 1 => s[n + 1] = p /\ p \notin Range(ids)
  <2>1. CASE p \in Range(ids)
    BY <1>1, <2>1 DEF IdsWith, Range
  <2>2. CASE p \notin Range(ids)
    <3>1. s = Append(ids, p)
      BY <2>2 DEF IdsWith
    <3>2. s \in Seq(Plugin) /\ Len(s) = n + 1 /\ s[n + 1] = p /\ \A j \in 1 .. n : s[j] = ids[j]
      BY <1>1, <3>1
    <3>3. n + 1 \in 1 .. Len(s)
      BY <1>1, <3>2
    <3> QED  BY <1>1, <2>2, <3>2, <3>3
  <2> QED  BY <2>1, <2>2
<1>3. DOMAIN s = 1 .. Len(s)
  BY <1>2
<1>4. IsInjective(s)
  <2> SUFFICES ASSUME NEW a \in 1 .. Len(s), NEW b \in 1 .. Len(s), s[a] = s[b]
               PROVE  a = b
    BY <1>3 DEF IsInjective
  <2>1. CASE a \in 1 .. n /\ b \in 1 .. n
    BY <1>1, <1>2, <2>1 DEF IsInjective
  <2>2. ASSUME NEW c \in 1 .. n, s[c] = p PROVE p \in Range(ids)
    BY <1>1, <1>2, <2>2 DEF Range
  <2>3. CASE a \notin 1 .. n
    <3>1. a = n + 1 /\ Len(s) = n + 1
      BY <1>1, <1>2, <2>3
    <3>2. s[b] = p /\ p \notin Range(ids)
      BY <1>2, <3>1
    <3>3. b \notin 1 .. n
      BY <2>2, <3>2
    <3> QED  BY <1>1, <1>2, <3>1, <3>3
  <2>4. CASE b \notin 1 .. n
    <3>1. b = n + 1 /\ Len(s) = n + 1
      BY <1>1, <1>2, <2>4
    <3>2. s[a] = p /\ p \notin Range(ids)
      BY <1>2, <3>1
    <3>3. a \notin 1 .. n
      BY <2>2, <3>2
    <3> QED  BY <1>1, <1>2, <3>1, <3>3
  <2> QED  BY <2>1, <2>3, <2>4
<1>5. PICK c : c = CHOOSE j \in 1 .. Len(s) : s[j] = p
  OBVIOUS
<1>6. c \in 1 .. Len(s) /\ s[c] = p
  BY <1>2, <1>5
<1>7. PluginId(p) = c - 1
  BY <1>3, <1>5 DEF PluginId
<1>8. c - 1 \in 0 .. Len(s) - 1 /\ c - 1 + 1 = c /\ c - 1 <= n
  BY <1>1, <1>2, <1>6
<1> QED  BY <1>1, <1>2, <1>4, <1>6, <1>7, <1>8

\* Registering a plugin after those with smaller ids.
LEMMA PlugInKeeps ==
    ASSUME SetupAssumption, PluginsInv, NEW w \in World, NEW p \in Plugin,
           NEW outer \in Builds, PluginInOrder(w, p), PlugIn(w, p, outer)
    PROVE  PluginsInv'
<1> PICK n, s, k, last, done :
      n = Len(ids) /\ s = IdsWith(p) /\ k = PluginId(p) /\ last = pluginCount[w] /\ done = built[w]
  OBVIOUS
<1>1. /\ s \in Seq(Plugin) /\ IsInjective(s) /\ Len(s) \in Nat /\ n \in Nat /\ n <= Len(s)
      /\ \A j \in 1 .. n : s[j] = ids[j]
      /\ k \in 0 .. Len(s) - 1 /\ s[k + 1] = p /\ k <= n
  BY PluginIds DEF PluginsInv
<1>2. /\ ids \in Seq(Plugin) /\ DOMAIN ids = 1 .. n /\ IsInjective(ids)
      /\ pluginCount \in [World -> -1 .. n - 1] /\ building \in [World -> Builds]
      /\ told \in [World -> SUBSET Plugin] /\ built \in [World -> Seq(Plugin)]
  BY DEF PluginsInv, PluginsTyped, Builds
<1>3. last \in -1 .. n - 1 /\ done \in Seq(Plugin) /\ Ordered(ids, last, done, told[w])
  BY <1>2 DEF PluginsInv
<1>4. \A j \in 1 .. n : j <= k => ids[j] \in Range(done)
  BY <1>2, <1>3 DEF PluginInOrder, Ordered
<1>5. k <= last + 1
  <2> SUFFICES ASSUME last + 1 < k PROVE FALSE
    BY <1>1, <1>3
  <2>1. k \in 1 .. n
    BY <1>1, <1>3
  <2>2. PICK j \in 1 .. last + 1 : ids[j] = ids[k]
    BY <1>3, <1>4, <2>1, k <= k DEF Ordered
  <2>3. j \in 1 .. n /\ j # k
    BY <1>1, <1>3, <2>1
  <2> QED  BY <1>2, <2>1, <2>2, <2>3 DEF IsInjective
<1>6. ids' = s /\ told' = [told EXCEPT ![w] = @ \cup {p}]
  BY DEF PlugIn
<1>7. \A v \in World : Ordered(ids, pluginCount[v], built[v], told[v])
                       => Ordered(s, pluginCount[v], built[v], told[v])
  <2> SUFFICES ASSUME NEW v \in World, Ordered(ids, pluginCount[v], built[v], told[v])
               PROVE  Ordered(s, pluginCount[v], built[v], told[v])
    OBVIOUS
  <2>1. \A j \in 1 .. pluginCount[v] + 1 : j \in 1 .. n /\ s[j] = ids[j]
    <3>1. PICK c : c = pluginCount[v] /\ c \in -1 .. n - 1
      BY <1>2
    <3>2. n \in Nat /\ \A j \in 1 .. n : s[j] = ids[j]
      BY <1>1
    <3>3. \A j \in 1 .. c + 1 : j \in 1 .. n /\ s[j] = ids[j]
      BY ONLY <3>1, <3>2
    <3> QED  BY <3>1, <3>3
  <2> QED  BY <2>1 DEF Ordered
<1>8. CASE k <= last
  <2>1. Skipped(w, p)
    BY <1>1, <1>3, <1>8 DEF Skipped
  <2>2. pluginCount' = pluginCount /\ built' = built
        /\ building' = [building EXCEPT ![w] = outer]
    BY <2>1 DEF PlugIn
  <2>3. p \in Range(done)
    <3>1. k + 1 \in 1 .. last + 1 /\ k + 1 \in 1 .. n
      BY <1>1, <1>3, <1>8
    <3> QED  BY <1>1, <1>3, <3>1 DEF Ordered
  <2>4. PluginsTyped'
    <3>1. pluginCount' \in [World -> -1 .. Len(s) - 1]
      BY <1>1, <1>2, <2>2
    <3>2. building' \in [World -> Builds]
      BY <1>2, <2>2
    <3>3. told' \in [World -> SUBSET Plugin]
      BY <1>2, <1>6
    <3> QED  BY <1>1, <1>2, <1>6, <2>2, <3>1, <3>2, <3>3 DEF PluginsTyped, Builds
  <2>5. ASSUME NEW v \in World PROVE Ordered(s, pluginCount[v], built[v], told'[v])
    <3>1. Ordered(s, pluginCount[v], built[v], told[v])
      BY <1>7 DEF PluginsInv
    <3>2. told'[v] = IF v = w THEN told[v] \cup {p} ELSE told[v]
      BY <1>2, <1>6
    <3> QED  BY <2>3, <3>1, <3>2 DEF Ordered
  <2> QED  BY <1>1, <1>6, <2>2, <2>4, <2>5 DEF PluginsInv
<1>9. CASE last < k
  <2>0. k = last + 1
    BY <1>1, <1>3, <1>5, <1>9
  <2>1. ~Skipped(w, p)
    BY <1>1, <1>3, <1>9 DEF Skipped
  <2>2. /\ pluginCount' = [pluginCount EXCEPT ![w] = k]
        /\ built' = [built EXCEPT ![w] = Append(@, p)]
        /\ building' = [building EXCEPT ![w] = Append(outer, Steps[p])]
    BY <2>1 DEF PlugIn, Marked
  <2>3. p \notin Range(done)
    <3> SUFFICES ASSUME p \in Range(done) PROVE FALSE
      OBVIOUS
    <3>1. PICK j \in 1 .. last + 1 : ids[j] = p
      BY <1>3 DEF Ordered
    <3>2. j \in 1 .. n /\ j \in DOMAIN s /\ k + 1 \in DOMAIN s /\ j # k + 1
      BY <1>1, <1>3, <2>0
    <3> QED  BY <1>1, <3>1, <3>2 DEF IsInjective
  <2>4. PluginsTyped'
    <3>1. pluginCount' \in [World -> -1 .. Len(s) - 1]
      BY <1>1, <1>2, <2>2
    <3>2. Append(outer, Steps[p]) \in Builds
      BY DEF SetupAssumption, Builds
    <3>3. building' \in [World -> Builds]
      BY <1>2, <2>2, <3>2
    <3>4. told' \in [World -> SUBSET Plugin]
      BY <1>2, <1>6
    <3>5. built' \in [World -> Seq(Plugin)]
      BY <1>2, <2>2
    <3> QED  BY <1>1, <1>6, <3>1, <3>3, <3>4, <3>5 DEF PluginsTyped, Builds
  <2>5. ASSUME NEW v \in World PROVE Ordered(s, pluginCount'[v], built'[v], told'[v])
    <3>1. Ordered(s, pluginCount[v], built[v], told[v])
      BY <1>7 DEF PluginsInv
    <3>2. CASE v # w
      BY <1>2, <1>6, <2>2, <3>1, <3>2
    <3>3. CASE v = w
      <4>1. PICK m, t : m = Len(done) /\ t = Append(done, p)
        OBVIOUS
      <4>2. /\ m \in Nat /\ Len(t) = m + 1 /\ DOMAIN t = 1 .. m + 1 /\ DOMAIN done = 1 .. m
            /\ t[m + 1] = p /\ \A j \in 1 .. m : t[j] = done[j]
        BY <1>3, <4>1
      <4>3. Range(t) = Range(done) \cup {p}
        BY <4>2 DEF Range
      <4>4. IsInjective(t)
        <5>1. \A j \in 1 .. m : done[j] # p
          BY <2>3, <4>2 DEF Range
        <5>2. \A a, b \in 1 .. m : done[a] = done[b] => a = b
          BY <1>3, <4>2 DEF Ordered, IsInjective
        <5>3. \A a, b \in 1 .. m + 1 : t[a] = t[b] => a = b
          BY <4>2, <5>1, <5>2
        <5> QED  BY <4>2, <5>3 DEF IsInjective
      <4>5. pluginCount'[v] = last + 1 /\ built'[v] = t /\ told'[v] = told[w] \cup {p}
        BY <1>2, <1>6, <2>0, <2>2, <3>3, <4>1
      <4>6. \A j \in 1 .. last + 1 + 1 : s[j] \in Range(t)
        <5> TAKE j \in 1 .. last + 1 + 1
        <5>1. CASE j \in 1 .. last + 1
          BY <3>1, <3>3, <4>3, <5>1 DEF Ordered
        <5>2. CASE j = last + 1 + 1
          BY <1>1, <2>0, <4>3, <5>2
        <5> QED  BY <1>3, <5>1, <5>2
      <4>7. \A q \in Range(t) : \E j \in 1 .. last + 1 + 1 : s[j] = q
        <5> TAKE q \in Range(t)
        <5>1. CASE q = p
          <6>1. k + 1 \in 1 .. last + 1 + 1
            BY <1>1, <2>0
          <6> QED  BY <1>1, <5>1, <6>1
        <5>2. CASE q \in Range(done)
          <6>1. PICK j \in 1 .. last + 1 : s[j] = q
            BY <3>1, <3>3, <5>2 DEF Ordered
          <6>2. j \in 1 .. last + 1 + 1
            BY <1>3
          <6> QED  BY <6>1, <6>2
        <5> QED  BY <4>3, <5>1, <5>2
      <4>8. told[w] \cup {p} \subseteq Range(t)
        BY <1>3, <4>3 DEF Ordered
      <4> QED  BY ONLY <4>4, <4>5, <4>6, <4>7, <4>8 DEF Ordered
    <3> QED  BY <3>2, <3>3
  <2> QED  BY <1>1, <1>6, <2>4, <2>5 DEF PluginsInv
<1> QED  BY <1>1, <1>3, <1>8, <1>9

\* Any step of the discipline.
LEMMA InOrderStep ==
    ASSUME SetupAssumption, PluginsInv, [InOrderNext]_setupVars
    PROVE  PluginsInv'
<1>1. building \in [World -> Builds] /\ << >> \in Builds
  BY DEF PluginsInv, PluginsTyped, Builds
<1>2. ASSUME UNCHANGED pluginVars, building' \in [World -> Builds]
      PROVE  PluginsInv'
  BY <1>2 DEF pluginVars, PluginsInv, PluginsTyped, Builds
<1>3. ASSUME NEW w \in World, NEW c \in ComponentType, NEW outer \in Builds,
             AddRecord(w, c, outer)
      PROVE  PluginsInv'
  BY <1>1, <1>2, <1>3 DEF AddRecord
<1>4. ASSUME NEW w \in World, NEW p \in Plugin, PluginInOrder(w, p), RegisterPlugin(w, p)
      PROVE  PluginsInv'
  BY <1>1, <1>4, PlugInKeeps DEF RegisterPlugin
<1>5. ASSUME NEW w \in World, NEW c \in ComponentType, RegisterComponent(w, c)
      PROVE  PluginsInv'
  BY <1>1, <1>3, <1>5 DEF RegisterComponent
<1>6. ASSUME NEW w \in World, StepInOrder(w), BuildStep(w)
      PROVE  PluginsInv'
  <2>0. PICK b, n, outer : b = building[w] /\ n = Len(b)
                           /\ outer = [b EXCEPT ![n] = Tail(b[n])]
    OBVIOUS
  <2>1. b \in Builds /\ b # << >> /\ b[n] # << >>
    BY <1>1, <1>6, <2>0 DEF BuildStep, Left
  <2>2. n \in 1 .. Len(b) /\ b[n] \in Seq(Plugin \cup ComponentType)
    BY <2>0, <2>1 DEF Builds
  <2>3. outer \in Builds
    <3>1. Tail(b[n]) \in Seq(Plugin \cup ComponentType)
      BY <2>1, <2>2
    <3> QED  BY <2>0, <2>1, <2>2, <3>1 DEF Builds
  <2>4. PICK x : x = Head(b[n])
    OBVIOUS
  <2>5. \/ x \in Plugin /\ PlugIn(w, x, outer)
        \/ x \in ComponentType /\ AddRecord(w, x, outer)
    BY <1>6, <2>0, <2>4 DEF BuildStep, Left
  <2>6. x \in Plugin => PluginInOrder(w, x)
    BY <1>6, <2>0, <2>4 DEF StepInOrder, Left
  <2> QED  BY <1>3, <2>3, <2>5, <2>6, PlugInKeeps
<1>7. ASSUME NEW w \in World, BuildReturns(w)
      PROVE  PluginsInv'
  <2>1. Front(building[w]) \in Builds
    <3>1. building[w] \in Seq(Seq(Plugin \cup ComponentType)) /\ building[w] # << >>
      BY <1>1, <1>7 DEF BuildReturns, Builds
    <3> QED  BY <3>1 DEF Front, Builds
  <2>2. building' = [building EXCEPT ![w] = Front(building[w])]
    BY <1>7 DEF BuildReturns
  <2> QED  BY <1>1, <1>2, <1>7, <2>1, <2>2 DEF BuildReturns
<1>8. CASE UNCHANGED setupVars
  BY <1>1, <1>2, <1>8 DEF setupVars
<1> QED  BY <1>4, <1>5, <1>6, <1>7, <1>8 DEF InOrderNext

\* A world that registers plugins in the order of their ids, at the top level and from
\* within other plugins' builds, has begun to build every plugin it was told to
\* register and none twice, whatever other worlds do to the counter of ids.
THEOREM PluginsAreBuilt ==
    ASSUME SetupAssumption PROVE InOrderSpec => []PluginsBuilt
<1>1. SetupInit => PluginsInv
  <2> SUFFICES ASSUME SetupInit PROVE PluginsInv
    OBVIOUS
  <2>1. /\ ids = << >> /\ Len(ids) = 0 /\ DOMAIN ids = {} /\ ids \in Seq(Plugin)
        /\ -1 \in -1 .. Len(ids) - 1
    BY DEF SetupInit
  <2>2. PluginsTyped
    BY <2>1 DEF SetupInit, PluginsTyped
  <2>3. IsInjective(ids)
    BY <2>1 DEF IsInjective
  <2>4. ASSUME NEW w \in World PROVE Ordered(ids, pluginCount[w], built[w], told[w])
    <3>1. pluginCount[w] = -1 /\ built[w] = << >> /\ told[w] = {}
      BY DEF SetupInit
    <3>2. DOMAIN << >> = {} /\ 1 .. -1 + 1 = {}
      OBVIOUS
    <3> QED  BY ONLY <3>1, <3>2 DEF Ordered, Range, IsInjective
  <2> QED  BY <2>2, <2>3, <2>4 DEF PluginsInv
<1>2. PluginsInv /\ [InOrderNext]_setupVars => PluginsInv'
  BY InOrderStep
<1>3. PluginsInv => PluginsBuilt
  BY DEF PluginsInv, Ordered, PluginsBuilt, WantedIsBuilt, BuiltOnce
<1> QED  BY <1>1, <1>2, <1>3, PTL DEF InOrderSpec

-----------------------------------------------------------------------------
(* Sparse arrays *)

\* f doubles from a, for the numbers up to n.
Doubles(f, a, n) == f = [k \in 0 .. n |-> IF k = 0 THEN a ELSE 2 * f[k - 1]]

\* There is such a function for every number.
LEMMA DoublingExists ==
    ASSUME NEW a
    PROVE  \A n \in Nat : \E f : Doubles(f, a, n)
<1> DEFINE S == {n \in Nat : \E f : Doubles(f, a, n)}
<1>1. 0 \in S
  <2> DEFINE f == [k \in 0 .. 0 |-> a]
  <2>1. Doubles(f, a, 0)
    BY DEF Doubles
  <2> QED  BY <2>1
<1>2. ASSUME NEW n \in Nat, n \in S
      PROVE  n + 1 \in S
  <2>1. PICK f : Doubles(f, a, n)
    BY <1>2
  <2> DEFINE g == [k \in 0 .. n + 1 |-> IF k = 0 THEN a ELSE 2 * f[k - 1]]
  <2>2. \A k \in 0 .. n : g[k] = f[k]
    BY <2>1 DEF Doubles
  <2>3. \A k \in 0 .. n + 1 : k # 0 => k - 1 \in 0 .. n
    OBVIOUS
  <2>4. \A k \in 0 .. n + 1 : g[k] = IF k = 0 THEN a ELSE 2 * g[k - 1]
    BY <2>2, <2>3
  <2>5. g = [k \in 0 .. n + 1 |-> g[k]]
    OBVIOUS
  <2> HIDE DEF g
  <2>6. Doubles(g, a, n + 1)
    BY <2>4, <2>5 DEF Doubles
  <2> QED  BY <2>6
<1> HIDE DEF S
<1>3. Nat \subseteq S
  BY <1>1, <1>2, TermFold!SetInduction
<1> QED  BY <1>3 DEF S

\* Doubling k times leads past k.
LEMMA DoubledGrows ==
    ASSUME NEW old \in Nat, NEW n \in Nat
    PROVE  /\ DOMAIN Doubled(old, n) = 0 .. n
           /\ \A k \in 0 .. n : Doubled(old, n)[k] \in Nat /\ Doubled(old, n)[k] > k
<1>1. PICK a : a = Max({1, old})
  OBVIOUS
<1>2. a \in Nat /\ a > 0
  <2> DEFINE P(z) == z \in {1, old} /\ \A t \in {1, old} : z >= t
  <2>1. \E z : P(z)
    <3>1. P(1) \/ P(old)
      OBVIOUS
    <3> QED  BY <3>1
  <2>2. P(CHOOSE z : P(z))
    BY <2>1
  <2>3. a = CHOOSE z : P(z)
    BY <1>1 DEF Max
  <2> QED  BY <2>2, <2>3
<1>3. Doubles(Doubled(old, n), a, n)
  <2>1. \E f : Doubles(f, a, n)
    BY DoublingExists
  <2>2. Doubled(old, n) = CHOOSE f : Doubles(f, a, n)
    BY <1>1 DEF Doubled, Doubles
  <2> QED  BY <2>1, <2>2
<1> PICK f : f = Doubled(old, n)
  OBVIOUS
<1>4. DOMAIN f = 0 .. n /\ \A k \in 0 .. n : f[k] = IF k = 0 THEN a ELSE 2 * f[k - 1]
  BY <1>3 DEF Doubles
<1> DEFINE S == {k \in Nat : f[k] \in Nat /\ f[k] > k}
<1>5. 0 \in S
  BY <1>2, <1>4
<1>6. \A k \in 1 .. n : k - 1 \in S => k \in S
  BY <1>4
<1>7. \A k \in 0 .. n : k \in S
  <2> HIDE DEF S
  <2> QED  BY <1>5, <1>6, TermFold!UpTo
<1> QED  BY <1>4, <1>7

\* The new capacity holds the id.
LEMMA CapacityFits ==
    ASSUME NEW i \in Nat, NEW old \in Nat
    PROVE  NewCapacity(i, old) \in Nat /\ NewCapacity(i, old) > i
<1>1. PICK f, S : f = Doubled(old, i) /\ S = {n \in Range(f) : i < n}
  OBVIOUS
<1>2. DOMAIN f = 0 .. i /\ \A k \in 0 .. i : f[k] \in Nat /\ f[k] > k
  BY <1>1, DoubledGrows
<1>3. S \subseteq Nat /\ f[i] \in S
  BY <1>1, <1>2 DEF Range
<1>4. PICK x \in S : \A y \in S : x <= y
  BY <1>3, Least
<1>5. NewCapacity(i, old) = CHOOSE z \in S : \A y \in S : z <= y
  BY <1>1 DEF NewCapacity, Min
<1>6. NewCapacity(i, old) \in S
  BY <1>4, <1>5
<1> QED  BY <1>1, <1>3, <1>6

\* The array holds what was set, up to the count, and is large enough.
SparseInv ==
    /\ count \in Nat
    /\ \E cap \in Nat : DOMAIN slots = 0 .. cap - 1 /\ count <= cap
    /\ DOMAIN held \subseteq Id
    /\ \A i \in DOMAIN held : i < count
    /\ \A i \in 0 .. count - 1 : slots[i] = IF i \in DOMAIN held THEN held[i] ELSE Unset

\* The capacity is the number of positions.
LEMMA CapacityIs ==
    ASSUME NEW cap \in Nat, DOMAIN slots = 0 .. cap - 1
    PROVE  Capacity = cap
<1>1. Cardinality(0 .. cap - 1) = IF 0 > cap - 1 THEN 0 ELSE (cap - 1) - 0 + 1
  <2>1. 0 \in Int /\ cap - 1 \in Int
    OBVIOUS
  <2> QED  BY ONLY <2>1, FS_Interval
<1> QED  BY <1>1 DEF Capacity

\* set, whether or not the array has to grow for it.
LEMMA SetKeeps ==
    ASSUME SparseAssumption, SparseInv, NEW i \in Id, NEW v \in Entry, Set(i, v)
    PROVE  SparseInv'
<1>1. PICK cap \in Nat : DOMAIN slots = 0 .. cap - 1 /\ count <= cap
  BY DEF SparseInv
<1>2. i \in Nat /\ count \in Nat /\ Capacity = cap
  BY <1>1, CapacityIs DEF SparseAssumption, SparseInv
<1>3. PICK room : room = IF i >= cap THEN Grown(NewCapacity(i, cap)) ELSE slots
  OBVIOUS
<1>4. PICK new \in Nat : /\ DOMAIN room = 0 .. new - 1 /\ i < new /\ count <= new
                         /\ \A j \in 0 .. count - 1 : room[j] = slots[j]
  <2>1. CASE i >= cap
    <3>1. PICK n : n = NewCapacity(i, cap)
      OBVIOUS
    <3>2. n \in Nat /\ n > i
      BY <1>2, <3>1, CapacityFits
    <3>3. room = [j \in 0 .. n - 1 |-> IF j < count THEN slots[j] ELSE Unset]
      BY <1>3, <2>1, <3>1 DEF Grown
    <3>4. count <= n /\ \A j \in 0 .. count - 1 : j \in 0 .. n - 1 /\ j < count
      BY <1>1, <1>2, <2>1, <3>2
    <3> QED  BY <3>2, <3>3, <3>4
  <2>2. CASE i < cap
    BY <1>1, <1>2, <1>3, <2>2
  <2> QED  BY <1>2, <2>1, <2>2
<1>5. /\ slots' = [j \in DOMAIN room |->
                      IF j = i THEN v ELSE IF j >= count /\ j < i THEN Unset ELSE room[j]]
      /\ count' = Max({count, i + 1})
      /\ held' = [j \in DOMAIN held \cup {i} |-> IF j = i THEN v ELSE held[j]]
  BY <1>2, <1>3 DEF Set
<1>6. count' = IF count > i THEN count ELSE i + 1
  <2> DEFINE P(z) == z \in {count, i + 1} /\ \A t \in {count, i + 1} : z >= t
             m == IF count > i THEN count ELSE i + 1
  <2>1. P(m) /\ \A z : P(z) => z = m
    BY <1>2
  <2>2. (CHOOSE z : P(z)) = m
    BY <2>1
  <2>3. count' = CHOOSE z : P(z)
    BY <1>5 DEF Max
  <2> QED  BY <2>2, <2>3
<1>7. count' \in Nat /\ count' <= new /\ DOMAIN slots' = 0 .. new - 1 /\ i < count'
      /\ count <= count'
  BY <1>2, <1>4, <1>5, <1>6
<1>8. DOMAIN held' = DOMAIN held \cup {i}
  BY <1>5
<1>9. ASSUME NEW j \in 0 .. count' - 1
      PROVE  slots'[j] = IF j \in DOMAIN held' THEN held'[j] ELSE Unset
  <2>0. j \in 0 .. new - 1
    <3>1. PICK c : c = count'
      OBVIOUS
    <3>2. c \in Nat /\ c <= new /\ j \in 0 .. c - 1
      BY <1>7, <3>1
    <3> QED  BY ONLY <3>2, new \in Nat
  <2>1. CASE j = i
    BY <1>4, <1>5, <1>8, <2>0, <2>1
  <2>2. CASE j # i /\ j < count
    <3>1. j \in 0 .. count - 1
      BY <1>2, <2>2
    <3>2. slots'[j] = slots[j]
      <4>1. room[j] = slots[j]
        BY <1>4, <3>1
      <4>2. slots'[j] = IF j = i THEN v ELSE IF j >= count /\ j < i THEN Unset ELSE room[j]
        BY <1>4, <1>5, <2>0
      <4> QED  BY ONLY <2>2, <3>1, <4>1, <4>2, <1>2
    <3>3. slots[j] = IF j \in DOMAIN held THEN held[j] ELSE Unset
      BY <3>1 DEF SparseInv
    <3>4. j \in DOMAIN held' <=> j \in DOMAIN held
      BY <1>8, <2>2
    <3>5. j \in DOMAIN held => held'[j] = held[j]
      BY <1>5, <2>2
    <3> QED  BY <3>2, <3>3, <3>4, <3>5
  <2>3. CASE j # i /\ ~(j < count)
    <3>1. j >= count /\ j < i
      BY <1>2, <1>6, <2>0, <2>3
    <3>2. slots'[j] = Unset
      BY <1>4, <1>5, <2>0, <2>3, <3>1
    <3>3. j \notin DOMAIN held'
      <4>1. \A k \in DOMAIN held : k < count
        BY DEF SparseInv
      <4> QED  BY <1>8, <2>3, <4>1
    <3> QED  BY <3>2, <3>3
  <2> QED  BY <2>1, <2>2, <2>3
<1>10. DOMAIN held' \subseteq Id /\ \A k \in DOMAIN held' : k < count'
  <2>1. \A k \in DOMAIN held : k < count /\ k \in Nat
    BY DEF SparseInv, SparseAssumption
  <2>2. \A k \in DOMAIN held : k < count'
    BY <1>2, <1>7, <2>1
  <2> QED  BY <1>7, <1>8, <2>2 DEF SparseInv
<1> QED  BY <1>7, <1>9, <1>10 DEF SparseInv

\* Looking an id up in a sparse array yields what was last set for it since the last
\* reset, and nothing for any other id: for any ids, set in any order, any first
\* capacity, any number of growths, and after a move.
THEOREM LookupsAreRight ==
    ASSUME SparseAssumption PROVE SparseSpec => []LookupsExact
<1>0. DOMAIN << >> = {}
  OBVIOUS
<1>1. SparseInit => SparseInv
  <2> SUFFICES ASSUME SparseInit PROVE SparseInv
    OBVIOUS
  <2>1. FirstCapacity \in Nat /\ DOMAIN slots = 0 .. FirstCapacity - 1 /\ count = 0
        /\ DOMAIN held = {}
    BY <1>0 DEF SparseInit, Blank, SparseAssumption
  <2> QED  BY <2>1 DEF SparseInv
<1>2. SparseInv /\ [SparseNext]_sparseVars => SparseInv'
  <2> SUFFICES ASSUME SparseInv, [SparseNext]_sparseVars PROVE SparseInv'
    OBVIOUS
  <2>1. PICK cap \in Nat : DOMAIN slots = 0 .. cap - 1 /\ count <= cap
    BY DEF SparseInv
  <2>2. CASE Reset
    <3>1. DOMAIN slots' = DOMAIN slots /\ count' = 0 /\ DOMAIN held' = {}
      BY <1>0, <2>2 DEF Reset
    <3> QED  BY <2>1, <3>1 DEF SparseInv
  <2>3. CASE MovedFrom
    <3>1. DOMAIN slots' = 0 .. 0 - 1 /\ count' = 0 /\ DOMAIN held' = {}
      BY <1>0, <2>3 DEF MovedFrom
    <3> QED  BY <3>1 DEF SparseInv
  <2>4. CASE UNCHANGED sparseVars
    BY <2>4 DEF sparseVars, SparseInv
  <2> QED  BY <2>2, <2>3, <2>4, SetKeeps DEF SparseNext
<1>3. SparseInv => LookupsExact
  <2> SUFFICES ASSUME SparseInv PROVE LookupsExact
    OBVIOUS
  <2>1. PICK cap \in Nat : DOMAIN slots = 0 .. cap - 1 /\ count <= cap
    BY DEF SparseInv
  <2>2. InsideArray
    BY <2>1, CapacityIs DEF InsideArray, SparseInv
  <2>3. ASSUME NEW i \in Id
        PROVE  Lookup(i) = IF i \in DOMAIN held THEN held[i] ELSE Unset
    <3>1. i \in Nat /\ count \in Nat
      BY DEF SparseInv, SparseAssumption
    <3>2. CASE i >= count
      BY <3>1, <3>2 DEF Lookup, SparseInv
    <3>3. CASE i < count
      <4>1. i \in 0 .. count - 1
        BY <3>1, <3>3
      <4> QED  BY <3>1, <3>3, <4>1 DEF Lookup, SparseInv
    <3> QED  BY <3>1, <3>2, <3>3
  <2> QED  BY <2>2, <2>3 DEF LookupsExact
<1> QED  BY <1>1, <1>2, <1>3, PTL DEF SparseSpec

-----------------------------------------------------------------------------
(* Query terms *)

\* append adds the id to those of the array, if it is not there.
LEMMA AppendedAdds ==
    ASSUME NEW s \in Seq(TermId), NEW c \in TermId
    PROVE  Appended(s, c) \in Seq(TermId) /\ Range(Appended(s, c)) = Range(s) \cup {c}
<1>1. CASE c \in Range(s)
  BY <1>1 DEF Appended
<1>2. CASE c \notin Range(s)
  <2>1. PICK n, t : n = Len(s) /\ t = Append(s, c)
    OBVIOUS
  <2>2. /\ n \in Nat /\ DOMAIN s = 1 .. n /\ DOMAIN t = 1 .. n + 1 /\ t[n + 1] = c
        /\ \A i \in 1 .. n : t[i] = s[i]
    BY <2>1
  <2>3. Range(t) = Range(s) \cup {c}
    BY <2>2 DEF Range
  <2> QED  BY <1>2, <2>1, <2>3 DEF Appended
<1> QED  BY <1>1, <1>2

\* So do several one after the other.
LEMMA AllAppended ==
    ASSUME NEW s \in Seq(TermId), NEW cids0 \in Seq(TermId)
    PROVE  /\ AppendedAll(s, cids0) \in Seq(TermId)
           /\ Range(AppendedAll(s, cids0)) = Range(s) \cup Range(cids0)
<1>1. PICK n : n = Len(cids0) /\ n \in Nat /\ DOMAIN cids0 = 1 .. n
  OBVIOUS
<1>2. AppendedAll(s, cids0) = TermFold!Result(s, cids0)
  BY DEF AppendedAll, FoldLeft, MapThenFoldSet, Max, TermFold!Result, TermFold!Greatest
<1>3. PICK f : /\ f[0] = s
               /\ \A i \in 1 .. n : f[i] = Appended(f[i - 1], cids0[i])
               /\ f[n] = TermFold!Result(s, cids0)
  BY <1>1, TermFold!FoldLeftSteps
<1> DEFINE S == {i \in Nat : f[i] \in Seq(TermId)
                             /\ Range(f[i]) = Range(s) \cup {cids0[j] : j \in 1 .. i}}
<1>4. 0 \in S
  <2>1. 1 .. 0 = {}
    OBVIOUS
  <2> QED  BY <1>3, <2>1
<1>5. ASSUME NEW i \in 1 .. n, i - 1 \in S
      PROVE  i \in S
  <2>1. f[i - 1] \in Seq(TermId) /\ cids0[i] \in TermId /\ i \in Nat
    BY <1>1, <1>5
  <2>2. f[i] \in Seq(TermId) /\ Range(f[i]) = Range(f[i - 1]) \cup {cids0[i]}
    BY <1>3, <2>1, AppendedAdds
  <2>3. {cids0[j] : j \in 1 .. i} = {cids0[j] : j \in 1 .. i - 1} \cup {cids0[i]}
    <3>1. \A j \in 1 .. i : j \in 1 .. i - 1 \/ j = i
      BY <2>1
    <3>2. \A j \in 1 .. i - 1 : j \in 1 .. i
      BY <2>1
    <3>3. i \in 1 .. i
      BY <2>1
    <3> QED  BY ONLY <3>1, <3>2, <3>3
  <2> QED  BY <1>5, <2>1, <2>2, <2>3
<1>6. n \in S
  <2> HIDE DEF S
  <2>1. \A i \in 1 .. n : i - 1 \in S => i \in S
    BY <1>5
  <2>2. n \in Nat /\ n \in 0 .. n
    BY <1>1
  <2>3. \A i \in 0 .. n : i \in S
    BY ONLY <1>4, <2>1, <2>2, TermFold!UpTo
  <2> QED  BY <2>2, <2>3
<1>7. Range(cids0) = {cids0[j] : j \in 1 .. n}
  BY <1>1 DEF Range
<1> QED  BY <1>2, <1>3, <1>6, <1>7

\* The arrays and the filter are made of what was asked for.
TermsInv ==
    /\ required \in Seq(TermId) /\ excluded \in Seq(TermId)
    /\ Range(required) = asked.with /\ Range(excluded) = asked.without
    /\ asked.with \subseteq TermId /\ asked.without \subseteq TermId
    /\ bloom = Bits(asked.with)

\* with and without keep it so.
LEMMA ApplyKeeps ==
    ASSUME TermsInv, NEW more \in Seq(TermId), NEW less \in Seq(TermId), Apply(more, less)
    PROVE  TermsInv'
<1>1. /\ required' \in Seq(TermId) /\ Range(required') = Range(required) \cup Range(more)
      /\ excluded' \in Seq(TermId) /\ Range(excluded') = Range(excluded) \cup Range(less)
  BY AllAppended DEF TermsInv, Apply
<1>2. /\ asked'.with = asked.with \cup Range(more)
      /\ asked'.without = asked.without \cup Range(less)
  BY DEF Apply
<1>3. Range(more) \subseteq TermId /\ Range(less) \subseteq TermId
  BY DEF Range
<1>4. bloom' = Bits(asked.with \cup Range(more))
  BY DEF Apply, Bits, TermsInv
<1> QED  BY <1>1, <1>2, <1>3, <1>4 DEF TermsInv

\* A query matches exactly the tables its terms mean, however often terms repeat ids
\* and in whatever order they come, for any ids and any width of the Bloom filter,
\* which therefore never rules a table out that has what is required.
THEOREM QueriesMeanTerms ==
    ASSUME QueryTermsAssumption PROVE TermsSpec => []QueryMeansTerms
<1>1. TermsInit => TermsInv
  <2>1. Range(<< >>) = {} /\ << >> \in Seq(TermId) /\ Bits({}) = {}
    BY DEF Range, Bits
  <2> QED  BY <2>1 DEF TermsInit, TermsInv
<1>2. TermsInv /\ [TermsNext]_termVars => TermsInv'
  <2> SUFFICES ASSUME TermsInv, [TermsNext]_termVars PROVE TermsInv'
    OBVIOUS
  <2>1. \A c, d \in TermId : <<c>> \in Seq(TermId) /\ <<c, d>> \in Seq(TermId)
    OBVIOUS
  <2>2. << >> \in Seq(TermId)
    OBVIOUS
  <2>3. CASE UNCHANGED termVars
    BY <2>3 DEF termVars, TermsInv
  <2> QED  BY <2>1, <2>2, <2>3, ApplyKeeps DEF TermsNext, With, Without, SystemQuery
<1>3. TermsInv => QueryMeansTerms
  <2> SUFFICES ASSUME TermsInv, NEW type \in Type
               PROVE  Matches(type) <=> asked.with \subseteq type /\ asked.without \cap type = {}
    BY DEF QueryMeansTerms
  <2>1. asked.with = {required[j] : j \in DOMAIN required}
        /\ asked.without = {excluded[j] : j \in DOMAIN excluded}
    BY DEF TermsInv, Range
  <2>2. asked.with \subseteq type => bloom \subseteq Bits(type)
    BY DEF TermsInv, Bits
  <2> QED  BY <2>1, <2>2 DEF Matches
<1> QED  BY <1>1, <1>2, <1>3, PTL DEF TermsSpec

-----------------------------------------------------------------------------
(* Arrays of types *)

\* Strictly ascending.
Ascending(s) == \A i, j \in DOMAIN s : i < j => s[i] < s[j]

\* An array of component ids, the strictly ascending one of the set it stands for.
TypeArray(s) == s \in Seq(ComponentId) /\ Ascending(s)

\* An element inserted.
LEMMA Inserted ==
    ASSUME NEW T, NEW s \in Seq(T), NEW x \in T, NEW i \in 1 .. Len(s) + 1
    PROVE  /\ InsertAt(s, i, x) \in Seq(T) /\ Len(InsertAt(s, i, x)) = Len(s) + 1
           /\ \A j \in 1 .. Len(s) + 1 :
                 InsertAt(s, i, x)[j] = IF j < i THEN s[j] ELSE IF j = i THEN x ELSE s[j - 1]
<1>1. PICK n, a, b, m : /\ n = Len(s) /\ a = SubSeq(s, 1, i - 1) /\ b = SubSeq(s, i, n)
                        /\ m = a \o <<x>>
  OBVIOUS
<1>2. n \in Nat /\ i \in Nat /\ i >= 1 /\ i <= n + 1
  BY <1>1
<1>0. \A j \in 1 .. n : s[j] \in T
  BY ONLY <1>1, s \in Seq(T)
<1>3. a \in Seq(T) /\ Len(a) = i - 1 /\ \A j \in 1 .. i - 1 : a[j] = s[j]
  <2>1. PICK k \in Int : k = i - 1
    BY ONLY <1>2
  <2>2. \A j \in 1 .. k : s[j] \in T
    BY ONLY <1>2, <1>0, <2>1
  <2>3. /\ SubSeq(s, 1, k) \in Seq(T) /\ Len(SubSeq(s, 1, k)) = IF 1 <= k THEN k - 1 + 1 ELSE 0
        /\ \A j \in 1 .. k - 1 + 1 : SubSeq(s, 1, k)[j] = s[1 + j - 1]
    BY ONLY <2>1, <2>2, SubSeqProperties
  <2>4. a = SubSeq(s, 1, k)
    BY ONLY <1>1, <2>1
  <2>5. (IF 1 <= k THEN k - 1 + 1 ELSE 0) = i - 1 /\ \A j \in 1 .. i - 1 : j \in 1 .. k - 1 + 1 /\ 1 + j - 1 = j
    BY ONLY <1>2, <2>1
  <2> QED  BY ONLY <2>3, <2>4, <2>5
<1>4. b \in Seq(T) /\ Len(b) = n - i + 1 /\ \A j \in 1 .. n - i + 1 : b[j] = s[i + j - 1]
  <2>1. i \in Int /\ n \in Int /\ \A j \in i .. n : s[j] \in T
    BY ONLY <1>2, <1>0
  <2>2. /\ SubSeq(s, i, n) \in Seq(T) /\ Len(SubSeq(s, i, n)) = IF i <= n THEN n - i + 1 ELSE 0
        /\ \A j \in 1 .. n - i + 1 : SubSeq(s, i, n)[j] = s[i + j - 1]
    BY ONLY <2>1, SubSeqProperties
  <2>3. (IF i <= n THEN n - i + 1 ELSE 0) = n - i + 1
    BY ONLY <1>2
  <2> QED  BY ONLY <1>1, <2>2, <2>3
<1>5. m \in Seq(T) /\ Len(m) = i /\ m[i] = x /\ \A j \in 1 .. i - 1 : m[j] = a[j]
  <2>1. m = Append(a, x)
    BY ONLY <1>1, <1>3
  <2>2. /\ Append(a, x) \in Seq(T) /\ Len(Append(a, x)) = Len(a) + 1
        /\ Append(a, x)[Len(a) + 1] = x /\ \A j \in 1 .. Len(a) : Append(a, x)[j] = a[j]
    BY ONLY <1>3, x \in T
  <2>3. Len(a) + 1 = i
    BY ONLY <1>2, <1>3
  <2> QED  BY ONLY <1>3, <2>1, <2>2, <2>3
<1>6. /\ m \o b \in Seq(T) /\ Len(m \o b) = n + 1
      /\ \A j \in 1 .. n + 1 : (m \o b)[j] = IF j <= i THEN m[j] ELSE b[j - i]
  <2>1. /\ m \o b \in Seq(T) /\ Len(m \o b) = Len(m) + Len(b)
        /\ \A j \in 1 .. Len(m) + Len(b) :
              (m \o b)[j] = IF j <= Len(m) THEN m[j] ELSE b[j - Len(m)]
    BY ONLY <1>4, <1>5, ConcatProperties
  <2>2. Len(m) = i /\ Len(m) + Len(b) = n + 1
    BY <1>2, <1>4, <1>5
  <2> QED  BY ONLY <2>1, <2>2
<1>7. InsertAt(s, i, x) = m \o b
  BY <1>1 DEF InsertAt
<1>8. ASSUME NEW j \in 1 .. n + 1
      PROVE  (m \o b)[j] = IF j < i THEN s[j] ELSE IF j = i THEN x ELSE s[j - 1]
  <2>0. (m \o b)[j] = IF j <= i THEN m[j] ELSE b[j - i]
    BY ONLY <1>6, <1>8
  <2>1. CASE j < i
    <3>1. j \in 1 .. i - 1 /\ j <= i
      BY ONLY <1>2, <1>8, <2>1
    <3>2. m[j] = s[j]
      BY ONLY <1>3, <1>5, <3>1
    <3> QED  BY ONLY <2>0, <2>1, <3>1, <3>2
  <2>2. CASE j = i
    <3>1. ~(j < i) /\ j <= i
      BY ONLY <1>2, <2>2
    <3> QED  BY ONLY <1>5, <2>0, <2>2, <3>1
  <2>3. CASE j > i
    <3>1. j - i \in 1 .. n - i + 1 /\ i + (j - i) - 1 = j - 1
      BY ONLY <1>2, <1>8, <2>3
    <3>2. b[j - i] = s[j - 1]
      BY ONLY <1>4, <3>1
    <3>3. ~(j < i) /\ j # i /\ ~(j <= i)
      BY ONLY <1>2, <1>8, <2>3
    <3> QED  BY ONLY <2>0, <3>2, <3>3
  <2>4. j < i \/ j = i \/ j > i
    BY <1>2
  <2> QED  BY ONLY <1>2, <2>1, <2>2, <2>3, <2>4
<1> QED  BY <1>1, <1>6, <1>7, <1>8

\* An element taken out.
LEMMA TakenOut ==
    ASSUME NEW T, NEW s \in Seq(T), NEW i \in 1 .. Len(s)
    PROVE  /\ RemoveAt(s, i) \in Seq(T) /\ Len(RemoveAt(s, i)) = Len(s) - 1
           /\ \A j \in 1 .. Len(s) - 1 :
                 RemoveAt(s, i)[j] = IF j < i THEN s[j] ELSE s[j + 1]
<1>1. PICK n, a, b : n = Len(s) /\ a = SubSeq(s, 1, i - 1) /\ b = SubSeq(s, i + 1, n)
  OBVIOUS
<1>2. n \in Nat /\ i \in Nat /\ i >= 1 /\ i <= n
  BY <1>1
<1>3. a \in Seq(T) /\ Len(a) = i - 1 /\ \A j \in 1 .. i - 1 : a[j] = s[j]
  BY <1>1, <1>2
<1>4. b \in Seq(T) /\ Len(b) = n - i /\ \A j \in 1 .. n - i : b[j] = s[i + j]
  BY <1>1, <1>2
<1>5. /\ a \o b \in Seq(T) /\ Len(a \o b) = n - 1
      /\ \A j \in 1 .. n - 1 : (a \o b)[j] = IF j <= i - 1 THEN a[j] ELSE b[j - (i - 1)]
  <2>1. /\ a \o b \in Seq(T) /\ Len(a \o b) = Len(a) + Len(b)
        /\ \A j \in 1 .. Len(a) + Len(b) :
              (a \o b)[j] = IF j <= Len(a) THEN a[j] ELSE b[j - Len(a)]
    BY ONLY <1>3, <1>4, ConcatProperties
  <2>2. Len(a) = i - 1 /\ Len(a) + Len(b) = n - 1
    BY <1>2, <1>3, <1>4
  <2> QED  BY ONLY <2>1, <2>2
<1>6. RemoveAt(s, i) = a \o b
  BY <1>1 DEF RemoveAt
<1>7. ASSUME NEW j \in 1 .. n - 1
      PROVE  (a \o b)[j] = IF j < i THEN s[j] ELSE s[j + 1]
  <2>0. (a \o b)[j] = IF j <= i - 1 THEN a[j] ELSE b[j - (i - 1)]
    BY ONLY <1>5, <1>7
  <2>1. CASE j < i
    <3>1. j \in 1 .. i - 1 /\ j <= i - 1
      BY ONLY <1>2, <1>7, <2>1
    <3> QED  BY ONLY <1>3, <2>0, <2>1, <3>1
  <2>2. CASE j >= i
    <3>1. /\ j - (i - 1) \in 1 .. n - i /\ i + (j - (i - 1)) = j + 1
          /\ ~(j < i) /\ ~(j <= i - 1)
      BY ONLY <1>2, <1>7, <2>2
    <3>2. b[j - (i - 1)] = s[j + 1]
      BY ONLY <1>4, <3>1
    <3> QED  BY ONLY <2>0, <3>1, <3>2
  <2>3. j < i \/ j >= i
    BY <1>2
  <2> QED  BY ONLY <1>2, <2>1, <2>2, <2>3
<1> QED  BY <1>1, <1>5, <1>6, <1>7

\* findInsertPos: what is before the position is smaller, what is from it on is not.
LEMMA InsertPosition ==
    ASSUME EntityTypesAssumption, NEW s, TypeArray(s), NEW c \in ComponentId
    PROVE  /\ FindInsertPos(s, c) \in 0 .. Len(s)
           /\ \A j \in 1 .. Len(s) : s[j] < c <=> j <= FindInsertPos(s, c)
<1>1. PICK n, S : n = Len(s) /\ S = {pos \in 0 .. n : pos = n \/ ElementAt(s, pos) >= c}
  OBVIOUS
<1>2. n \in Nat /\ DOMAIN s = 1 .. n /\ c \in Nat /\ \A j \in 1 .. n : s[j] \in Nat
  <2>1. \A x \in ComponentId : x \in Nat
    BY DEF EntityTypesAssumption
  <2>2. s \in Seq(ComponentId)
    BY DEF TypeArray
  <2>3. n \in Nat /\ DOMAIN s = 1 .. n /\ \A j \in 1 .. n : s[j] \in ComponentId
    BY ONLY <1>1, <2>2
  <2> QED  BY <2>1, <2>3
<1>3. S \subseteq Nat /\ n \in S
  BY <1>1, <1>2
<1>4. PICK x \in S : \A y \in S : x <= y
  BY <1>3, Least
<1>5. PICK p : p = FindInsertPos(s, c)
  OBVIOUS
<1>6. p = CHOOSE z \in S : \A y \in S : z <= y
  BY <1>1, <1>5 DEF FindInsertPos, Min
<1>7. p \in S /\ \A y \in S : p <= y
  BY <1>4, <1>6
<1>8. ASSUME NEW j \in 1 .. n
      PROVE  s[j] < c <=> j <= p
  <2>1. CASE j <= p
    <3>1. j - 1 \in 0 .. n /\ j - 1 < p /\ j - 1 # n
      BY <1>1, <1>2, <1>7, <2>1
    <3>2. j - 1 \notin S
      BY <1>3, <1>7, <3>1
    <3>3. ~(ElementAt(s, j - 1) >= c)
      BY <1>1, <3>1, <3>2
    <3> QED  BY <1>2, <2>1, <3>3 DEF ElementAt
  <2>2. CASE j > p
    <3>1. p \in 0 .. n /\ p # n /\ p + 1 \in 1 .. n
      BY <1>1, <1>2, <1>7, <2>2
    <3>2. s[p + 1] >= c
      BY <1>1, <1>7, <3>1 DEF ElementAt
    <3>3. p + 1 = j \/ p + 1 < j
      BY <1>2, <2>2, <3>1
    <3>4. s[p + 1] <= s[j]
      BY <1>2, <3>1, <3>3 DEF TypeArray, Ascending
    <3> QED  BY <1>2, <2>2, <3>1, <3>2, <3>4
  <2> QED  BY <1>1, <1>2, <1>3, <1>7, <2>1, <2>2
<1> QED  BY <1>1, <1>5, <1>7, <1>8

\* A type array, its elements and positions.
LEMMA ArrayFacts ==
    ASSUME EntityTypesAssumption, NEW s, TypeArray(s)
    PROVE  /\ s \in Seq(ComponentId) /\ Len(s) \in Nat /\ DOMAIN s = 1 .. Len(s)
           /\ \A j \in 1 .. Len(s) : s[j] \in ComponentId /\ s[j] \in Nat
           /\ \A i, j \in 1 .. Len(s) : i < j => s[i] < s[j]
           /\ Range(s) = {s[j] : j \in 1 .. Len(s)}
<1>1. \A x \in ComponentId : x \in Nat
  BY DEF EntityTypesAssumption
<1>2. s \in Seq(ComponentId) /\ Ascending(s)
  BY DEF TypeArray
<1>3. Len(s) \in Nat /\ DOMAIN s = 1 .. Len(s) /\ \A j \in 1 .. Len(s) : s[j] \in ComponentId
  BY ONLY <1>2
<1> QED  BY <1>1, <1>2, <1>3 DEF Ascending, Range

\* An array that is ascending position by position.
LEMMA IsTypeArray ==
    ASSUME NEW s \in Seq(ComponentId),
           \A i, j \in 1 .. Len(s) : i < j => s[i] < s[j]
    PROVE  TypeArray(s) /\ Range(s) = {s[j] : j \in 1 .. Len(s)}
BY DEF TypeArray, Ascending, Range

\* A component is in the array if and only if it is where it would be inserted.
LEMMA PresentWhereInserted ==
    ASSUME EntityTypesAssumption, NEW s, TypeArray(s), NEW c \in ComponentId
    PROVE  Present(s, FindInsertPos(s, c), c) <=> c \in Range(s)
<1>1. PICK n, p : n = Len(s) /\ p = FindInsertPos(s, c)
  OBVIOUS
<1>2. /\ n \in Nat /\ \A j \in 1 .. n : s[j] \in Nat
      /\ \A i, j \in 1 .. n : i < j => s[i] < s[j]
      /\ Range(s) = {s[j] : j \in 1 .. n}
  BY <1>1, ArrayFacts
<1>3. p \in 0 .. n /\ \A j \in 1 .. n : s[j] < c <=> j <= p
  BY ONLY <1>1, EntityTypesAssumption, TypeArray(s), c \in ComponentId, InsertPosition
<1>4. c \in Nat
  BY DEF EntityTypesAssumption
<1>5. Present(s, p, c) <=> p < n /\ s[p + 1] = c
  BY <1>1 DEF Present, ElementAt
<1>6. ASSUME c \in Range(s) PROVE p < n /\ s[p + 1] = c
  <2>1. PICK j \in 1 .. n : s[j] = c
    BY <1>2, <1>6
  <2>2. j > p
    BY <1>3, <1>4, <2>1
  <2>3. p + 1 \in 1 .. n /\ p < n
    BY <1>2, <1>3, <2>2
  <2>4. ~(s[p + 1] < c)
    BY <1>3, <2>3
  <2>5. j = p + 1
    <3>1. j = p + 1 \/ p + 1 < j
      BY <1>3, <2>2
    <3>2. p + 1 < j => s[p + 1] < s[j]
      BY <1>2, <2>3
    <3> QED  BY <2>1, <2>4, <3>1, <3>2
  <2> QED  BY <2>1, <2>3, <2>5
<1>7. ASSUME p < n, s[p + 1] = c PROVE c \in Range(s)
  <2>1. p + 1 \in 1 .. n
    BY <1>2, <1>3, <1>7
  <2> QED  BY <1>2, <1>7, <2>1
<1> QED  BY <1>1, <1>5, <1>6, <1>7

\* withAdd yields the array of the type with the component.
LEMMA AddYields ==
    ASSUME EntityTypesAssumption, NEW s, TypeArray(s), NEW c \in ComponentId
    PROVE  TypeArray(WithAdd(s, c)) /\ Range(WithAdd(s, c)) = Range(s) \cup {c}
<1>1. PICK n, p, t : n = Len(s) /\ p = FindInsertPos(s, c) /\ t = InsertAt(s, p + 1, c)
  OBVIOUS
<1>2. /\ s \in Seq(ComponentId)
      /\ n \in Nat /\ \A j \in 1 .. n : s[j] \in Nat
      /\ \A i, j \in 1 .. n : i < j => s[i] < s[j]
      /\ Range(s) = {s[j] : j \in 1 .. n}
  BY <1>1, ArrayFacts
<1>3. p \in 0 .. n /\ \A j \in 1 .. n : s[j] < c <=> j <= p
  BY ONLY <1>1, EntityTypesAssumption, TypeArray(s), c \in ComponentId, InsertPosition
<1>4. c \in Nat
  BY DEF EntityTypesAssumption
<1>5. CASE c \in Range(s)
  <2>1. WithAdd(s, c) = s
    BY <1>1, <1>5, PresentWhereInserted DEF WithAdd
  <2> QED  BY <1>5, <2>1
<1>6. CASE c \notin Range(s)
  <2>1. WithAdd(s, c) = t
    BY <1>1, <1>6, PresentWhereInserted DEF WithAdd
  <2>2. p + 1 \in 1 .. Len(s) + 1
    BY <1>1, <1>2, <1>3
  <2>3. /\ t \in Seq(ComponentId) /\ Len(t) = n + 1
        /\ \A j \in 1 .. n + 1 :
              t[j] = IF j < p + 1 THEN s[j] ELSE IF j = p + 1 THEN c ELSE s[j - 1]
    <3>1. PICK i \in 1 .. Len(s) + 1 : i = p + 1
      BY <2>2
    <3>2. /\ InsertAt(s, i, c) \in Seq(ComponentId) /\ Len(InsertAt(s, i, c)) = Len(s) + 1
          /\ \A j \in 1 .. Len(s) + 1 :
                InsertAt(s, i, c)[j] = IF j < i THEN s[j] ELSE IF j = i THEN c ELSE s[j - 1]
      BY ONLY <1>2, <3>1, c \in ComponentId, Inserted
    <3> QED  BY ONLY <1>1, <3>1, <3>2
  <2>4. \A j \in 1 .. n : j > p => c < s[j]
    <3>1. \A j \in 1 .. n : s[j] # c
      BY <1>2, <1>6
    <3> QED  BY <1>2, <1>3, <1>4, <3>1
  <2>5. ASSUME NEW i \in 1 .. n + 1, NEW j \in 1 .. n + 1, i < j
        PROVE  t[i] < t[j]
    <3>1. CASE j < p + 1
      <4>1. t[i] = s[i] /\ t[j] = s[j] /\ i \in 1 .. n /\ j \in 1 .. n
        BY <1>2, <1>3, <2>3, <2>5, <3>1
      <4> QED  BY <1>2, <2>5, <4>1
    <3>2. CASE j = p + 1
      <4>1. t[i] = s[i] /\ t[j] = c /\ i \in 1 .. n /\ i <= p
        BY <1>2, <1>3, <2>3, <2>5, <3>2
      <4> QED  BY <1>3, <4>1
    <3>3. CASE j > p + 1 /\ i = p + 1
      <4>1. t[i] = c /\ t[j] = s[j - 1] /\ j - 1 \in 1 .. n /\ j - 1 > p
        BY <1>2, <1>3, <2>3, <3>3
      <4> QED  BY <2>4, <4>1
    <3>4. CASE j > p + 1 /\ i > p + 1
      <4>1. t[i] = s[i - 1] /\ t[j] = s[j - 1] /\ i - 1 \in 1 .. n /\ j - 1 \in 1 .. n
        BY <1>2, <1>3, <2>3, <3>4
      <4> QED  BY <1>2, <2>5, <4>1
    <3>5. CASE j > p + 1 /\ i < p + 1
      <4>1. t[i] = s[i] /\ t[j] = s[j - 1] /\ i \in 1 .. n /\ j - 1 \in 1 .. n /\ i < j - 1
        BY <1>2, <1>3, <2>3, <3>5
      <4> QED  BY <1>2, <4>1
    <3> QED  BY <1>3, <3>1, <3>2, <3>3, <3>4, <3>5
  <2>6. TypeArray(t) /\ Range(t) = {t[j] : j \in 1 .. n + 1}
    BY <2>3, <2>5, IsTypeArray
  <2>7. {t[j] : j \in 1 .. n + 1} = {s[j] : j \in 1 .. n} \cup {c}
    <3>1. \A j \in 1 .. n + 1 : t[j] = c \/ \E i \in 1 .. n : t[j] = s[i]
      <4> TAKE j \in 1 .. n + 1
      <4>1. CASE j < p + 1
        <5>1. j \in 1 .. n /\ t[j] = s[j]
          BY <1>2, <1>3, <2>3, <4>1
        <5> QED  BY <5>1
      <4>2. CASE j > p + 1
        <5>1. j - 1 \in 1 .. n /\ t[j] = s[j - 1]
          BY <1>2, <1>3, <2>3, <4>2
        <5> QED  BY <5>1
      <4>3. CASE j = p + 1
        BY <2>3, <4>3
      <4> QED  BY <1>3, <4>1, <4>2, <4>3
    <3>2. \A i \in 1 .. n : \E j \in 1 .. n + 1 : t[j] = s[i]
      <4> TAKE i \in 1 .. n
      <4>1. CASE i < p + 1
        <5>1. i \in 1 .. n + 1 /\ t[i] = s[i]
          BY <1>2, <2>3, <4>1
        <5> QED  BY <5>1
      <4>2. CASE i >= p + 1
        <5>1. i + 1 \in 1 .. n + 1 /\ t[i + 1] = s[i + 1 - 1] /\ i + 1 - 1 = i
          BY <1>2, <1>3, <2>3, <4>2
        <5> QED  BY <5>1
      <4> QED  BY <1>3, <4>1, <4>2
    <3>3. p + 1 \in 1 .. n + 1 /\ t[p + 1] = c
      BY <1>2, <1>3, <2>3
    <3> QED  BY <3>1, <3>2, <3>3
  <2> QED  BY <1>2, <2>1, <2>6, <2>7
<1> QED  BY <1>5, <1>6

\* withRemove yields the array of the type without it.
LEMMA RemoveYields ==
    ASSUME EntityTypesAssumption, NEW s, TypeArray(s), NEW c \in ComponentId
    PROVE  TypeArray(WithRemove(s, c)) /\ Range(WithRemove(s, c)) = Range(s) \ {c}
<1>1. PICK n, p, t : n = Len(s) /\ p = FindInsertPos(s, c) /\ t = RemoveAt(s, p + 1)
  OBVIOUS
<1>2. /\ s \in Seq(ComponentId)
      /\ n \in Nat /\ \A j \in 1 .. n : s[j] \in Nat
      /\ \A i, j \in 1 .. n : i < j => s[i] < s[j]
      /\ Range(s) = {s[j] : j \in 1 .. n}
  BY <1>1, ArrayFacts
<1>3. p \in 0 .. n
  BY ONLY <1>1, EntityTypesAssumption, TypeArray(s), c \in ComponentId, InsertPosition
<1>4. CASE c \notin Range(s)
  <2>1. WithRemove(s, c) = s
    BY <1>1, <1>4, PresentWhereInserted DEF WithRemove
  <2> QED  BY <1>4, <2>1
<1>5. CASE c \in Range(s)
  <2>1. WithRemove(s, c) = t /\ p < n /\ s[p + 1] = c
    BY <1>1, <1>5, PresentWhereInserted DEF WithRemove, Present, ElementAt
  <2>2. p + 1 \in 1 .. Len(s) /\ p \in Nat
    BY <1>1, <1>2, <1>3, <2>1
  <2>3. /\ t \in Seq(ComponentId) /\ Len(t) = n - 1
        /\ \A j \in 1 .. n - 1 : t[j] = IF j < p + 1 THEN s[j] ELSE s[j + 1]
    <3>1. PICK i \in 1 .. Len(s) : i = p + 1
      BY ONLY <2>2
    <3>2. /\ RemoveAt(s, i) \in Seq(ComponentId) /\ Len(RemoveAt(s, i)) = Len(s) - 1
          /\ \A j \in 1 .. Len(s) - 1 : RemoveAt(s, i)[j] = IF j < i THEN s[j] ELSE s[j + 1]
      BY ONLY <1>2, TakenOut
    <3> QED  BY ONLY <1>1, <3>1, <3>2
  <2>4. ASSUME NEW i \in 1 .. n - 1, NEW j \in 1 .. n - 1, i < j
        PROVE  t[i] < t[j]
    <3>1. PICK a \in 1 .. n : t[i] = s[a] /\ a = IF i < p + 1 THEN i ELSE i + 1
      BY <1>2, <2>2, <2>3
    <3>2. PICK b \in 1 .. n : t[j] = s[b] /\ b = IF j < p + 1 THEN j ELSE j + 1
      BY <1>2, <2>2, <2>3
    <3>3. a < b
      BY <1>2, <2>2, <2>4, <3>1, <3>2
    <3> QED  BY <1>2, <3>1, <3>2, <3>3
  <2>5. TypeArray(t) /\ Range(t) = {t[j] : j \in 1 .. n - 1}
    BY <1>2, <2>3, <2>4, IsTypeArray
  <2>6. \A j \in 1 .. n - 1 : \E i \in 1 .. n : i # p + 1 /\ t[j] = s[i]
    <3> TAKE j \in 1 .. n - 1
    <3>1. PICK a \in 1 .. n : t[j] = s[a] /\ a = IF j < p + 1 THEN j ELSE j + 1
      BY <1>2, <2>2, <2>3
    <3>2. a # p + 1
      BY <2>2, <3>1
    <3> QED  BY <3>1, <3>2
  <2>7. \A i \in 1 .. n : i # p + 1 => \E j \in 1 .. n - 1 : t[j] = s[i]
    <3> SUFFICES ASSUME NEW i \in 1 .. n, i # p + 1 PROVE \E j \in 1 .. n - 1 : t[j] = s[i]
      OBVIOUS
    <3>1. CASE i < p + 1
      <4>1. i \in 1 .. n - 1 /\ t[i] = s[i]
        BY <1>1, <1>2, <2>2, <2>3, <3>1
      <4> QED  BY <4>1
    <3>2. CASE i > p + 1
      <4>1. i - 1 \in 1 .. n - 1 /\ t[i - 1] = s[i - 1 + 1] /\ i - 1 + 1 = i
        BY <1>2, <2>2, <2>3, <3>2
      <4> QED  BY <4>1
    <3> QED  BY <2>2, <3>1, <3>2
  <2>8. \A i \in 1 .. n : s[i] = c <=> i = p + 1
    <3>1. \A i, j \in 1 .. n : s[i] = s[j] => ~(i < j) /\ ~(j < i)
      BY <1>2
    <3>2. p + 1 \in 1 .. n
      BY <1>1, <2>2
    <3> QED  BY <2>1, <2>2, <3>1, <3>2
  <2>9. {t[j] : j \in 1 .. n - 1} = {s[i] : i \in 1 .. n} \ {c}
    BY <2>6, <2>7, <2>8
  <2> QED  BY <1>2, <2>1, <2>5, <2>9
<1> QED  BY <1>4, <1>5

\* An ascending array of n numbers.
Sorted(s, n) ==
    /\ n \in Nat /\ \A q \in 0 .. n - 1 : ElementAt(s, q) \in Nat
    /\ \A q, k \in 0 .. n - 1 : q < k => ElementAt(s, q) < ElementAt(s, k)

\* p is the first position from l on, before r, of a component that is not smaller.
IsFirst(s, c, l, r, p) ==
    /\ p \in l .. r
    /\ \A q \in l .. p - 1 : ElementAt(s, q) < c
    /\ p = r \/ ElementAt(s, p) >= c

\* f is the function that LowerBounds defines, for an array of n elements.
IsLower(f, s, c, n) ==
    f = [part \in (0 .. n) \X (0 .. n) |->
            LET left == part[1]
                right == part[2]
                mid == left + (right - left) \div 2
            IN  IF left >= right THEN left
                ELSE IF ElementAt(s, mid) < c THEN f[<<mid + 1, right>>]
                ELSE f[<<left, mid>>]]

\* There is one such position.
LEMMA FirstExists ==
    ASSUME NEW s, NEW c \in Nat, NEW n, Sorted(s, n), NEW l \in 0 .. n, NEW r \in 0 .. n, l <= r
    PROVE  \E p : IsFirst(s, c, l, r, p)
<1>0. n \in Nat /\ \A q \in 0 .. n - 1 : ElementAt(s, q) \in Nat
  BY DEF Sorted
<1>1. PICK S : S = {q \in l .. r : q = r \/ ElementAt(s, q) >= c}
  OBVIOUS
<1>2. S \subseteq Nat /\ r \in S
  BY <1>0, <1>1
<1>3. PICK p \in S : \A y \in S : p <= y
  BY <1>2, Least
<1>4. ASSUME NEW q \in l .. p - 1 PROVE ElementAt(s, q) < c
  <2>1. p \in l .. r /\ q \in l .. r /\ q # r /\ ~(p <= q) /\ q \in 0 .. n - 1
    BY <1>0, <1>1, <1>3
  <2>2. q \notin S
    BY <1>3, <2>1
  <2>3. ~(ElementAt(s, q) >= c)
    BY <1>1, <2>1, <2>2
  <2> QED  BY <1>0, <2>1, <2>3
<1> QED  BY <1>1, <1>3, <1>4 DEF IsFirst

\* And no other.
LEMMA FirstUnique ==
    ASSUME NEW s, NEW c \in Nat, NEW n, Sorted(s, n), NEW l \in 0 .. n, NEW r \in 0 .. n,
           NEW p, NEW o, IsFirst(s, c, l, r, p), IsFirst(s, c, l, r, o)
    PROVE  p = o
<1>1. /\ p \in l .. r /\ o \in l .. r
      /\ \A q \in l .. p - 1 : ElementAt(s, q) < c
      /\ \A q \in l .. o - 1 : ElementAt(s, q) < c
      /\ p = r \/ ElementAt(s, p) >= c
      /\ o = r \/ ElementAt(s, o) >= c
      /\ n \in Nat /\ \A q \in 0 .. n - 1 : ElementAt(s, q) \in Nat
  BY DEF IsFirst, Sorted
<1>2. ~(p < o)
  <2> SUFFICES ASSUME p < o PROVE FALSE
    OBVIOUS
  <2>1. p \in l .. o - 1 /\ p # r /\ p \in 0 .. n - 1
    BY <1>1
  <2> QED  BY <1>1, <2>1
<1>3. ~(o < p)
  <2> SUFFICES ASSUME o < p PROVE FALSE
    OBVIOUS
  <2>1. o \in l .. p - 1 /\ o # r /\ o \in 0 .. n - 1
    BY <1>1
  <2> QED  BY <1>1, <2>1
<1> QED  BY <1>1, <1>2, <1>3

\* In an ascending array, what the middle tells about the rest.
LEMMA HalvesAgree ==
    ASSUME NEW s, NEW c \in Nat, NEW n, Sorted(s, n), NEW l \in 0 .. n, NEW r \in 0 .. n,
           NEW mid \in l .. r - 1, NEW p
    PROVE  /\ ElementAt(s, mid) < c /\ IsFirst(s, c, mid + 1, r, p) => IsFirst(s, c, l, r, p)
           /\ ~(ElementAt(s, mid) < c) /\ IsFirst(s, c, l, mid, p) => IsFirst(s, c, l, r, p)
<1>1. /\ n \in Nat /\ mid \in 0 .. n - 1 /\ mid \in Nat
      /\ \A q \in 0 .. n - 1 : ElementAt(s, q) \in Nat
      /\ \A q, k \in 0 .. n - 1 : q < k => ElementAt(s, q) < ElementAt(s, k)
  BY DEF Sorted
<1>2. ASSUME ElementAt(s, mid) < c, IsFirst(s, c, mid + 1, r, p)
      PROVE  IsFirst(s, c, l, r, p)
  <2>1. /\ p \in mid + 1 .. r
        /\ \A q \in mid + 1 .. p - 1 : ElementAt(s, q) < c
        /\ p = r \/ ElementAt(s, p) >= c
    BY <1>2 DEF IsFirst
  <2>2. ASSUME NEW q \in l .. p - 1 PROVE ElementAt(s, q) < c
    <3>1. q \in mid + 1 .. p - 1 \/ q = mid \/ q < mid
      BY <1>1, <2>1
    <3>2. q \in 0 .. n - 1
      BY <1>1, <2>1
    <3>3. CASE q < mid
      BY <1>1, <1>2, <3>2, <3>3
    <3> QED  BY <1>2, <2>1, <3>1, <3>3
  <2>3. p \in l .. r
    BY <1>1, <2>1
  <2> QED  BY <2>1, <2>2, <2>3 DEF IsFirst
<1>3. ASSUME ~(ElementAt(s, mid) < c), IsFirst(s, c, l, mid, p)
      PROVE  IsFirst(s, c, l, r, p)
  <2>1. /\ p \in l .. mid
        /\ \A q \in l .. p - 1 : ElementAt(s, q) < c
        /\ p = mid \/ ElementAt(s, p) >= c
    BY <1>3 DEF IsFirst
  <2>2. p \in l .. r /\ ElementAt(s, p) >= c
    BY <1>1, <1>3, <2>1
  <2> QED  BY <2>1, <2>2 DEF IsFirst
<1> QED  BY <1>2, <1>3

\* The middle of a part that is not empty.
LEMMA Middle ==
    ASSUME NEW l \in Nat, NEW r \in Nat, l < r
    PROVE  l + (r - l) \div 2 \in l .. r - 1
<1>1. (r - l) \div 2 \in Int /\ 2 * ((r - l) \div 2) <= r - l /\ r - l < 2 * ((r - l) \div 2) + 2
  OBVIOUS
<1> QED  BY <1>1

\* An empty part has one position.
LEMMA EmptyPart ==
    ASSUME NEW s, NEW c, NEW l \in Nat
    PROVE  IsFirst(s, c, l, l, l)
<1>1. l .. l - 1 = {} /\ l \in l .. l
  OBVIOUS
<1> QED  BY <1>1 DEF IsFirst

\* The first position of a part, as a function of the part.
FirstOf(s, c, l, r) == IF l >= r THEN l ELSE CHOOSE p : IsFirst(s, c, l, r, p)

\* It is one.
LEMMA FirstOfIsFirst ==
    ASSUME NEW s, NEW c \in Nat, NEW n, Sorted(s, n), NEW l \in 0 .. n, NEW r \in 0 .. n, l <= r
    PROVE  IsFirst(s, c, l, r, FirstOf(s, c, l, r))
<1>0. n \in Nat /\ l \in Nat
  BY DEF Sorted
<1>1. CASE l = r
  <2>1. FirstOf(s, c, l, r) = l
    BY <1>0, <1>1 DEF FirstOf
  <2>2. IsFirst(s, c, l, l, l)
    BY ONLY <1>0, EmptyPart
  <2> QED  BY ONLY <1>1, <2>1, <2>2
<1>2. CASE l < r
  <2>1. \E p : IsFirst(s, c, l, r, p)
    BY FirstExists
  <2>2. FirstOf(s, c, l, r) = CHOOSE p : IsFirst(s, c, l, r, p)
    BY <1>0, <1>2 DEF FirstOf
  <2> QED  BY ONLY <2>1, <2>2
<1> QED  BY <1>0, <1>1, <1>2

\* What halving does with a part that is not empty.
LEMMA FirstOfHalf ==
    ASSUME NEW s, NEW c \in Nat, NEW n, Sorted(s, n), NEW l \in 0 .. n, NEW r \in 0 .. n,
           l < r, NEW m \in l .. r - 1
    PROVE  FirstOf(s, c, l, r) = IF ElementAt(s, m) < c THEN FirstOf(s, c, m + 1, r)
                                 ELSE FirstOf(s, c, l, m)
<1>1. n \in Nat /\ m \in 0 .. n /\ m + 1 \in 0 .. n /\ l <= m /\ m + 1 <= r /\ l <= r
  BY DEF Sorted
<1>2. PICK p : p = FirstOf(s, c, l, r)
  OBVIOUS
<1>3. IsFirst(s, c, l, r, p)
  BY <1>1, <1>2, FirstOfIsFirst
<1>4. CASE ElementAt(s, m) < c
  <2>1. PICK k \in 0 .. n : k = m + 1
    BY <1>1
  <2>2. PICK o : o = FirstOf(s, c, k, r)
    OBVIOUS
  <2>3. IsFirst(s, c, k, r, o)
    BY <1>1, <2>1, <2>2, FirstOfIsFirst
  <2>4. IsFirst(s, c, m + 1, r, o)
    BY ONLY <2>1, <2>3
  <2>5. IsFirst(s, c, l, r, o)
    BY <1>4, <2>4, HalvesAgree
  <2>6. p = o
    BY <1>3, <2>5, FirstUnique
  <2> QED  BY <1>2, <1>4, <2>1, <2>2, <2>6
<1>5. CASE ~(ElementAt(s, m) < c)
  <2>1. PICK o : o = FirstOf(s, c, l, m)
    OBVIOUS
  <2>2. IsFirst(s, c, l, m, o)
    BY <1>1, <2>1, FirstOfIsFirst
  <2>3. IsFirst(s, c, l, r, o)
    BY <1>5, <2>2, HalvesAgree
  <2>4. p = o
    BY <1>3, <2>3, FirstUnique
  <2> QED  BY <1>2, <1>5, <2>1, <2>4
<1> QED  BY <1>4, <1>5

\* There is a function that halves, whatever is searched for in an ascending array: the
\* one that yields the first position.
LEMMA LowerExists ==
    ASSUME NEW s, NEW c \in Nat, NEW n, Sorted(s, n)
    PROVE  \E f : IsLower(f, s, c, n)
<1>0. n \in Nat
  BY DEF Sorted
<1>1. PICK f : f = [part \in (0 .. n) \X (0 .. n) |-> FirstOf(s, c, part[1], part[2])]
  OBVIOUS
<1>2. \A l, r \in 0 .. n : f[<<l, r>>] = FirstOf(s, c, l, r)
  BY <1>1
<1>3. ASSUME NEW l \in 0 .. n, NEW r \in 0 .. n, NEW m, m = l + (r - l) \div 2
      PROVE  FirstOf(s, c, l, r) = IF l >= r THEN l
                                   ELSE IF ElementAt(s, m) < c THEN f[<<m + 1, r>>]
                                   ELSE f[<<l, m>>]
  <2>1. CASE l >= r
    BY <2>1 DEF FirstOf
  <2>2. CASE l < r
    <3>1. m \in l .. r - 1
      BY <1>0, <1>3, <2>2, Middle
    <3>2. m \in 0 .. n /\ m + 1 \in 0 .. n /\ ~(l >= r)
      BY <1>0, <2>2, <3>1
    <3>3. FirstOf(s, c, l, r) = IF ElementAt(s, m) < c THEN FirstOf(s, c, m + 1, r)
                                ELSE FirstOf(s, c, l, m)
      BY <2>2, <3>1, FirstOfHalf
    <3>4. f[<<m + 1, r>>] = FirstOf(s, c, m + 1, r) /\ f[<<l, m>>] = FirstOf(s, c, l, m)
      BY <1>2, <3>2
    <3> QED  BY ONLY <3>2, <3>3, <3>4
  <2> QED  BY <1>0, <2>1, <2>2
<1>4. ASSUME NEW part \in (0 .. n) \X (0 .. n)
      PROVE  FirstOf(s, c, part[1], part[2]) =
                 LET left == part[1]
                     right == part[2]
                     mid == left + (right - left) \div 2
                 IN  IF left >= right THEN left
                     ELSE IF ElementAt(s, mid) < c THEN f[<<mid + 1, right>>]
                     ELSE f[<<left, mid>>]
  <2>1. PICK l, r : l = part[1] /\ r = part[2] /\ l \in 0 .. n /\ r \in 0 .. n
    OBVIOUS
  <2>2. PICK m : m = l + (r - l) \div 2
    OBVIOUS
  <2>3. FirstOf(s, c, l, r) = IF l >= r THEN l
                              ELSE IF ElementAt(s, m) < c THEN f[<<m + 1, r>>]
                              ELSE f[<<l, m>>]
    BY ONLY <2>1, <2>2, <1>3
  <2> QED  BY ONLY <2>1, <2>2, <2>3
<1> QED  BY ONLY <1>1, <1>4 DEF IsLower

\* Halving ends at the first position.
LEMMA LowerIsFirst ==
    ASSUME NEW s, NEW c \in Nat, NEW n, Sorted(s, n), NEW f, IsLower(f, s, c, n)
    PROVE  IsFirst(s, c, 0, n, f[<<0, n>>])
<1>0. n \in Nat
  BY DEF Sorted
<1> DEFINE S == {d \in Nat : \A l, r \in 0 .. n :
                     l <= r /\ r - l <= d => IsFirst(s, c, l, r, f[<<l, r>>])}
<1>1. ASSUME NEW l \in 0 .. n, NEW r \in 0 .. n, NEW m, m = l + (r - l) \div 2
      PROVE  f[<<l, r>>] = IF l >= r THEN l
                           ELSE IF ElementAt(s, m) < c THEN f[<<m + 1, r>>]
                           ELSE f[<<l, m>>]
  <2>1. f[<<l, r>>] = IF l >= r THEN l
                      ELSE IF ElementAt(s, l + (r - l) \div 2) < c
                           THEN f[<<l + (r - l) \div 2 + 1, r>>]
                           ELSE f[<<l, l + (r - l) \div 2>>]
    BY DEF IsLower
  <2> QED  BY ONLY <1>1, <2>1
<1>2. ASSUME NEW l \in 0 .. n PROVE IsFirst(s, c, l, l, f[<<l, l>>])
  <2>1. PICK m : m = l + (l - l) \div 2
    OBVIOUS
  <2>2. f[<<l, l>>] = IF l >= l THEN l
                      ELSE IF ElementAt(s, m) < c THEN f[<<m + 1, l>>]
                      ELSE f[<<l, m>>]
    BY ONLY <1>1, <1>2, <2>1
  <2>3. f[<<l, l>>] = l
    BY <1>0, <2>2
  <2>4. IsFirst(s, c, l, l, l)
    BY ONLY l \in 0 .. n, <1>0, EmptyPart
  <2> QED  BY ONLY <2>3, <2>4
<1>3. 0 \in S
  <2> SUFFICES ASSUME NEW l \in 0 .. n, NEW r \in 0 .. n, l <= r, r - l <= 0
               PROVE  IsFirst(s, c, l, r, f[<<l, r>>])
    OBVIOUS
  <2>1. l = r
    BY <1>0
  <2> QED  BY ONLY l \in 0 .. n, <1>2, <2>1
<1>4. ASSUME NEW e \in 1 .. n, e - 1 \in S
      PROVE  e \in S
  <2> SUFFICES ASSUME NEW l \in 0 .. n, NEW r \in 0 .. n, l <= r, r - l <= e
               PROVE  IsFirst(s, c, l, r, f[<<l, r>>])
    BY <1>0
  <2>1. CASE l = r
    BY ONLY l \in 0 .. n, <1>2, <2>1
  <2>2. CASE l < r
    <3>1. PICK m : m = l + (r - l) \div 2
      OBVIOUS
    <3>2. m \in l .. r - 1
      BY <1>0, <2>2, <3>1, Middle
    <3>3. /\ m \in 0 .. n /\ m + 1 \in 0 .. n /\ l <= m /\ m + 1 <= r
          /\ r - (m + 1) <= e - 1 /\ m - l <= e - 1 /\ ~(l >= r)
      BY <1>0, <3>2
    <3>4. f[<<l, r>>] = IF l >= r THEN l
                        ELSE IF ElementAt(s, m) < c THEN f[<<m + 1, r>>]
                        ELSE f[<<l, m>>]
      BY ONLY <1>1, <3>1, l \in 0 .. n, r \in 0 .. n
    <3>5. CASE ElementAt(s, m) < c
      <4>1. IsFirst(s, c, m + 1, r, f[<<m + 1, r>>])
        BY <1>4, <3>3
      <4>2. IsFirst(s, c, l, r, f[<<m + 1, r>>])
        BY ONLY <3>2, <3>5, <4>1, HalvesAgree, c \in Nat, Sorted(s, n), l \in 0 .. n, r \in 0 .. n
      <4> QED  BY ONLY <3>3, <3>4, <3>5, <4>2
    <3>6. CASE ~(ElementAt(s, m) < c)
      <4>1. IsFirst(s, c, l, m, f[<<l, m>>])
        BY <1>4, <3>3
      <4>2. IsFirst(s, c, l, r, f[<<l, m>>])
        BY ONLY <3>2, <3>6, <4>1, HalvesAgree, c \in Nat, Sorted(s, n), l \in 0 .. n, r \in 0 .. n
      <4> QED  BY ONLY <3>3, <3>4, <3>6, <4>2
    <3> QED  BY ONLY <3>5, <3>6
  <2> QED  BY <1>0, <2>1, <2>2
<1>5. n \in S
  <2> HIDE DEF S
  <2>1. \A i \in 1 .. n : i - 1 \in S => i \in S
    BY <1>4
  <2>2. n \in 0 .. n
    BY <1>0
  <2>3. \A i \in 0 .. n : i \in S
    BY ONLY <1>0, <1>3, <2>1, TermFold!UpTo
  <2> QED  BY <2>2, <2>3
<1> QED  BY <1>0, <1>5

\* pos is what looking c up yields: where it is, or NotFound.
Finds(s, c, pos) ==
    IF c \in Range(s) THEN pos # NotFound /\ Present(s, pos, c) ELSE pos = NotFound

\* A type array by positions counted from 0.
LEMMA ArraySorted ==
    ASSUME EntityTypesAssumption, NEW s, TypeArray(s)
    PROVE  /\ Sorted(s, Len(s))
           /\ \A q \in 0 .. Len(s) - 1 : ElementAt(s, q) \in Range(s)
           /\ \A c \in Range(s) : \E q \in 0 .. Len(s) - 1 : ElementAt(s, q) = c
<1>1. PICK n : n = Len(s)
  OBVIOUS
<1>2. /\ n \in Nat /\ \A j \in 1 .. n : s[j] \in Nat
      /\ \A i, j \in 1 .. n : i < j => s[i] < s[j]
      /\ Range(s) = {s[j] : j \in 1 .. n}
  BY <1>1, ArrayFacts
<1>3. \A q \in 0 .. n - 1 : q + 1 \in 1 .. n /\ ElementAt(s, q) = s[q + 1]
  BY <1>2 DEF ElementAt
<1>4. Sorted(s, n)
  <2>1. \A q \in 0 .. n - 1 : ElementAt(s, q) \in Nat
    BY <1>2, <1>3
  <2>2. \A q, k \in 0 .. n - 1 : q < k => ElementAt(s, q) < ElementAt(s, k)
    <3> SUFFICES ASSUME NEW q \in 0 .. n - 1, NEW k \in 0 .. n - 1, q < k
                 PROVE  s[q + 1] < s[k + 1]
      BY <1>3
    <3>1. q + 1 \in 1 .. n /\ k + 1 \in 1 .. n /\ q + 1 < k + 1
      BY <1>2
    <3> QED  BY <1>2, <3>1
  <2> QED  BY <1>2, <2>1, <2>2 DEF Sorted
<1>5. \A q \in 0 .. n - 1 : ElementAt(s, q) \in Range(s)
  BY <1>2, <1>3
<1>6. ASSUME NEW c \in Range(s) PROVE \E q \in 0 .. n - 1 : ElementAt(s, q) = c
  <2>1. PICK j \in 1 .. n : s[j] = c
    BY <1>2
  <2>2. j - 1 \in 0 .. n - 1 /\ j - 1 + 1 = j
    BY <1>2
  <2>3. ElementAt(s, j - 1) = c
    BY <2>1, <2>2 DEF ElementAt
  <2> QED  BY <2>2, <2>3
<1> QED  BY <1>1, <1>4, <1>5, <1>6

\* A position is not past the number at it.
LEMMA PositionBelow ==
    ASSUME NEW s, NEW n, Sorted(s, n), NEW p \in 0 .. n - 1
    PROVE  p <= ElementAt(s, p)
<1>1. /\ n \in Nat /\ \A q \in 0 .. n - 1 : ElementAt(s, q) \in Nat
      /\ \A q, k \in 0 .. n - 1 : q < k => ElementAt(s, q) < ElementAt(s, k)
  BY DEF Sorted
<1> DEFINE S == {q \in Nat : q \in 0 .. n - 1 /\ q <= ElementAt(s, q)}
<1>2. 0 \in S
  BY <1>1
<1>3. ASSUME NEW i \in 1 .. n - 1, i - 1 \in S PROVE i \in S
  <2>1. i - 1 \in 0 .. n - 1 /\ i \in 0 .. n - 1 /\ i - 1 < i
    BY <1>1
  <2>2. ElementAt(s, i - 1) < ElementAt(s, i) /\ ElementAt(s, i) \in Nat
        /\ ElementAt(s, i - 1) \in Nat
    BY <1>1, <2>1
  <2>3. i - 1 <= ElementAt(s, i - 1)
    BY <1>3
  <2> QED  BY <2>1, <2>2, <2>3
<1> HIDE DEF S
<1>4. n - 1 \in Nat
  BY <1>1
<1>5. PICK k \in Nat : k = n - 1
  BY <1>4
<1>6. \A i \in 1 .. k : i - 1 \in S => i \in S
  BY <1>3, <1>5
<1>7. \A i \in 0 .. k : i \in S
  BY ONLY <1>2, <1>6, TermFold!UpTo
<1>8. p \in S
  BY <1>5, <1>7
<1> QED  BY <1>8 DEF S

\* A position at which the component is, is what looking it up yields.
LEMMA PresentFinds ==
    ASSUME EntityTypesAssumption, NEW s, TypeArray(s), NEW c \in ComponentId,
           NEW q \in 0 .. Len(s) - 1, ElementAt(s, q) = c
    PROVE  Finds(s, c, q)
<1>1. Sorted(s, Len(s)) /\ c \in Range(s)
  BY ArraySorted
<1>2. q <= c
  BY <1>1, PositionBelow
<1>3. c \in 0 .. NotFound - 1 /\ NotFound \in Nat
  BY DEF EntityTypesAssumption
<1>4. Len(s) \in Nat
  BY <1>1 DEF Sorted
<1>5. q # NotFound /\ q < Len(s)
  BY <1>2, <1>3, <1>4
<1> QED  BY <1>1, <1>5 DEF Finds, Present

\* Looking through the array finds the component.
LEMMA LinearFinds ==
    ASSUME EntityTypesAssumption, NEW s, TypeArray(s), NEW c \in ComponentId
    PROVE  Finds(s, c, LinearSearch(s, c))
<1>1. PICK hits : hits = {pos \in 0 .. Len(s) - 1 : ElementAt(s, pos) = c}
  OBVIOUS
<1>2. LinearSearch(s, c) = IF hits = {} THEN NotFound ELSE Min(hits)
  BY <1>1 DEF LinearSearch
<1>3. CASE hits = {}
  <2>1. c \notin Range(s)
    BY <1>1, <1>3, ArraySorted
  <2> QED  BY <1>2, <1>3, <2>1 DEF Finds
<1>4. CASE hits # {}
  <2>1. PICK x \in hits : TRUE
    BY <1>4
  <2>2. Len(s) \in Nat
    BY ArrayFacts
  <2>3. hits \subseteq Nat
    BY <1>1, <2>2
  <2>4. PICK y \in hits : \A z \in hits : y <= z
    BY <2>1, <2>3, Least
  <2>5. PICK q : q = CHOOSE z \in hits : \A k \in hits : z <= k
    OBVIOUS
  <2>6. q \in hits
    BY <2>4, <2>5
  <2>7. LinearSearch(s, c) = q
    BY <1>2, <1>4, <2>5 DEF Min
  <2>8. q \in 0 .. Len(s) - 1 /\ ElementAt(s, q) = c
    BY <1>1, <2>6
  <2>9. Finds(s, c, q)
    BY <2>8, PresentFinds
  <2> QED  BY ONLY <2>7, <2>9
<1> QED  BY <1>3, <1>4

\* And so does halving it.
LEMMA BinaryFinds ==
    ASSUME EntityTypesAssumption, NEW s, TypeArray(s), NEW c \in ComponentId
    PROVE  Finds(s, c, BinarySearch(s, c))
<1>1. PICK n : n = Len(s)
  OBVIOUS
<1>2. Sorted(s, n) /\ c \in Nat
  <2>1. c \in Nat
    BY DEF EntityTypesAssumption
  <2> QED  BY <1>1, <2>1, ArraySorted
<1>3. /\ n \in Nat /\ \A q \in 0 .. n - 1 : ElementAt(s, q) \in Nat
      /\ \A q, k \in 0 .. n - 1 : q < k => ElementAt(s, q) < ElementAt(s, k)
  BY <1>2 DEF Sorted
<1>4. PICK f : f = LowerBounds(s, c)
  OBVIOUS
<1>5. f = CHOOSE g : IsLower(g, s, c, n)
  BY <1>1, <1>4 DEF LowerBounds, IsLower
<1>6. IsLower(f, s, c, n)
  BY ONLY <1>2, <1>5, LowerExists
<1>7. PICK p : p = f[<<0, n>>]
  OBVIOUS
<1>8. IsFirst(s, c, 0, n, p)
  BY ONLY <1>2, <1>6, <1>7, LowerIsFirst
<1>9. /\ p \in 0 .. n /\ \A q \in 0 .. p - 1 : ElementAt(s, q) < c
      /\ p = n \/ ElementAt(s, p) >= c
  BY <1>8 DEF IsFirst
<1>10. BinarySearch(s, c) = IF Present(s, p, c) THEN p ELSE NotFound
  BY <1>1, <1>4, <1>7 DEF BinarySearch
<1>11. Present(s, p, c) <=> p < n /\ ElementAt(s, p) = c
  BY <1>1 DEF Present
<1>12. CASE c \in Range(s)
  <2>1. PICK q \in 0 .. n - 1 : ElementAt(s, q) = c
    BY <1>1, <1>12, ArraySorted
  <2>2. ~(q \in 0 .. p - 1)
    BY <1>2, <1>9, <2>1
  <2>3. p <= q /\ p \in 0 .. n - 1 /\ p # n
    BY <1>3, <1>9, <2>2
  <2>4. p = q
    <3>1. p < q => ElementAt(s, p) < c
      BY <1>3, <2>1, <2>3
    <3>2. ElementAt(s, p) >= c /\ ElementAt(s, p) \in Nat
      BY <1>3, <1>9, <2>3
    <3> QED  BY <1>2, <1>3, <2>3, <3>1, <3>2
  <2>5. Finds(s, c, p)
    BY <1>1, <2>1, <2>4, PresentFinds
  <2>6. Present(s, p, c)
    BY <1>3, <1>11, <2>1, <2>3, <2>4
  <2> QED  BY ONLY <1>10, <2>5, <2>6
<1>13. CASE c \notin Range(s)
  <2>1. ~Present(s, p, c)
    <3>1. ASSUME p < n, ElementAt(s, p) = c PROVE FALSE
      <4>1. p \in 0 .. n - 1
        BY <1>3, <1>9, <3>1
      <4> QED  BY <1>1, <1>13, <3>1, <4>1, ArraySorted
    <3> QED  BY <1>11, <3>1
  <2> QED  BY <1>10, <1>13, <2>1 DEF Finds
<1> QED  BY <1>12, <1>13

\* The array is the type array of the members.
TypesInv == TypeArray(cids) /\ Range(cids) = members

\* What the array shows when it is the one of the members.
LEMMA ArrayShows ==
    ASSUME EntityTypesAssumption, TypesInv
    PROVE  ArraysAreSets
<1>1. TypeArray(cids) /\ Range(cids) = members
  BY DEF TypesInv
<1>2. OneArrayPerSet
  BY <1>1 DEF TypeArray, Ascending, OneArrayPerSet
<1>3. ASSUME NEW c \in ComponentId PROVE Finds(cids, c, FindIndex(cids, c))
  BY <1>1, LinearFinds, BinaryFinds DEF FindIndex
<1>4. FindIndexFinds
  BY <1>1, <1>3 DEF Finds, FindIndexFinds
<1> QED  BY <1>2, <1>4 DEF ArraysAreSets

\* EntityType: a type built by withAdd and withRemove in any order is the ascending array of
\* its components, so that equal arrays are equal sets, and findIndex finds what is there and
\* nothing else, whether it looks through the array or halves it.
THEOREM ArraysAreRight ==
    ASSUME EntityTypesAssumption
    PROVE  TypesSpec => []ArraysAreSets
<1>1. TypesInit => TypesInv
  <2> SUFFICES ASSUME TypesInit PROVE TypesInv
    OBVIOUS
  <2>1. cids = << >> /\ members = {}
    BY DEF TypesInit
  <2>2. cids \in Seq(ComponentId) /\ 1 .. Len(cids) = {}
    BY <2>1
  <2>3. TypeArray(cids) /\ Range(cids) = {cids[j] : j \in 1 .. Len(cids)}
    BY <2>2, IsTypeArray
  <2> QED  BY <2>1, <2>2, <2>3 DEF TypesInv
<1>2. TypesInv /\ [TypesNext]_typeVars => TypesInv'
  <2> SUFFICES ASSUME TypesInv, [TypesNext]_typeVars PROVE TypesInv'
    OBVIOUS
  <2>1. TypeArray(cids) /\ Range(cids) = members
    BY DEF TypesInv
  <2>2. ASSUME NEW c \in ComponentId, Add(c) PROVE TypesInv'
    <3>1. cids' = WithAdd(cids, c) /\ members' = members \cup {c}
      BY <2>2 DEF Add
    <3>2. TypeArray(WithAdd(cids, c)) /\ Range(WithAdd(cids, c)) = Range(cids) \cup {c}
      BY <2>1, AddYields
    <3> QED  BY <2>1, <3>1, <3>2 DEF TypesInv, TypeArray, Ascending, Range
  <2>3. ASSUME NEW c \in ComponentId, Drop(c) PROVE TypesInv'
    <3>1. cids' = WithRemove(cids, c) /\ members' = members \ {c}
      BY <2>3 DEF Drop
    <3>2. TypeArray(WithRemove(cids, c)) /\ Range(WithRemove(cids, c)) = Range(cids) \ {c}
      BY <2>1, RemoveYields
    <3> QED  BY <2>1, <3>1, <3>2 DEF TypesInv, TypeArray, Ascending, Range
  <2>4. CASE UNCHANGED typeVars
    BY <2>1, <2>4 DEF typeVars, TypesInv, TypeArray, Ascending, Range
  <2> QED  BY <2>2, <2>3, <2>4 DEF TypesNext
<1>3. TypesInv => ArraysAreSets
  BY ArrayShows
<1> QED  BY <1>1, <1>2, <1>3, PTL DEF TypesSpec

-----------------------------------------------------------------------------
(* Vectors and their blocks *)

\* The fields r fit the heap h.
HeldBy(h, r) ==
    IF r.data = Null THEN r = Empty
    ELSE r.data \in DOMAIN h /\ Len(h[r.data]) = r.size /\ r.size <= r.capacity

\* Fields of a vector, those of all, and the blocks of a heap.
Fields == [data : Block \cup {Null}, size : 0 .. MaxSize, capacity : 0 .. 2 * MaxSize]

\* Vectors f and heap h: what BlocksOwned says of vec and heap.
Owned(f, h) ==
    /\ f \in [Vec -> Fields]
    /\ DOMAIN h \subseteq Block /\ \A b \in DOMAIN h : h[b] \in Seq(Element)
    /\ \A v \in Vec : HeldBy(h, f[v])
    /\ \A v, w \in Vec : f[v].data = f[w].data => v = w \/ f[v].data = Null
    /\ \A b \in DOMAIN h : \E v \in Vec : f[v].data = b

\* The elements of v.
ElementsIn(f, h, v) == IF f[v].data = Null THEN << >> ELSE h[f[v].data]

\* Owned is BlocksOwned.
SameThing ==
    /\ BlocksOwned <=> Owned(vec, heap)
    /\ \A v : Elements(v) = ElementsIn(vec, heap, v)

\* It is, in every state.
LEMMA OwnedIsBlocksOwned == SameThing
<1>1. DOMAIN heap \subseteq {vec[v].data : v \in Vec}
      <=> \A b \in DOMAIN heap : \E v \in Vec : vec[v].data = b
  OBVIOUS
<1>2. BlocksOwned <=> Owned(vec, heap)
  BY <1>1 DEF BlocksOwned, Owned, HeldBy, VectorsTypeOK, Fields
<1> QED  BY <1>2 DEF SameThing, Elements, ElementsIn

\* After a step too.
LEMMA StillSameThing ==
    /\ BlocksOwned' <=> Owned(vec', heap')
    /\ \A v : Elements(v)' = ElementsIn(vec', heap', v)
<1>1. SameThing'
  BY OwnedIsBlocksOwned, PTL
<1> QED  BY <1>1 DEF SameThing, Owned, HeldBy, ElementsIn

\* There is a block that is not in use.
LEMMA BlockLeft ==
    ASSUME VectorsAssumption, NEW f, NEW h, Owned(f, h)
    PROVE  \E b \in Block : b \notin DOMAIN h
<1> SUFFICES ASSUME \A b \in Block : b \in DOMAIN h PROVE FALSE
  OBVIOUS
<1>1. PICK n : n = Cardinality(Vec)
  OBVIOUS
<1>2. n \in Nat /\ IsFiniteSet(Vec)
  BY <1>1, FS_CardinalityType DEF VectorsAssumption
<1>3. IsFiniteSet(1 .. n + 1) /\ Cardinality(1 .. n + 1) = n + 1
  <2>1. PICK k \in Int : k = n + 1
    BY <1>2
  <2>2. IsFiniteSet(1 .. k) /\ Cardinality(1 .. k) = IF 1 > k THEN 0 ELSE k - 1 + 1
    BY ONLY k \in Int, FS_Interval
  <2> QED  BY <1>2, <2>1, <2>2
<1>4. PICK B : B = Block /\ B = 1 .. n + 1
  BY <1>1 DEF Block
<1>5. IsFiniteSet(B) /\ Cardinality(Vec) < Cardinality(B)
  BY <1>1, <1>2, <1>3, <1>4
<1>6. \A b \in B : \E v \in Vec : f[v].data = b
  BY <1>4 DEF Owned
<1>7. PICK g : g = [b \in B |-> CHOOSE v \in Vec : f[v].data = b]
  OBVIOUS
<1>8. \A b \in B : g[b] \in Vec /\ f[g[b]].data = b
  BY <1>6, <1>7
<1>9. g \in [B -> Vec]
  BY <1>7, <1>8
<1>10. \E x, y \in B : x # y /\ g[x] = g[y]
  BY ONLY <1>2, <1>5, <1>9, FS_PigeonHole
<1> QED  BY ONLY <1>8, <1>10

\* What becomes of f and h when the block of v is given back, when an empty v gets block b
\* for the elements s, and when v takes the block of w over.
GivesBack(f, h, v, g, k) == g = [f EXCEPT ![v] = Empty] /\ k = WithoutBlock(h, f[v].data)

Gets(f, h, v, b, s, c, g, k) ==
    /\ g = [f EXCEPT ![v] = [data |-> b, size |-> Len(s), capacity |-> c]]
    /\ k = WithBlock(h, b, s)

TakesOver(f, v, w, g) == g = [f EXCEPT ![v] = f[w], ![w] = Empty]

\* What then is so.
GaveBack(f, h, v, g, k) ==
    /\ Owned(g, k) /\ g[v] = Empty
    /\ DOMAIN k = DOMAIN h \ {f[v].data}
    /\ \A w \in Vec : w # v => g[w] = f[w] /\ ElementsIn(g, k, w) = ElementsIn(f, h, w)

\* The block of v given back.
LEMMA GivenBack ==
    ASSUME VectorsAssumption, NEW f, NEW h, Owned(f, h), NEW v \in Vec, NEW g, NEW k,
           GivesBack(f, h, v, g, k)
    PROVE  GaveBack(f, h, v, g, k)
<1>1. /\ f \in [Vec -> Fields]
      /\ DOMAIN h \subseteq Block /\ \A b \in DOMAIN h : h[b] \in Seq(Element)
      /\ \A w \in Vec : HeldBy(h, f[w])
      /\ \A w, u \in Vec : f[w].data = f[u].data => w = u \/ f[w].data = Null
      /\ \A b \in DOMAIN h : \E w \in Vec : f[w].data = b
  BY DEF Owned
<1>2. DOMAIN k = DOMAIN h \ {f[v].data} /\ \A b \in DOMAIN k : k[b] = h[b]
  BY DEF GivesBack, WithoutBlock
<1>3. Empty \in Fields /\ Empty.data = Null
  BY DEF VectorsAssumption, Empty, Fields
<1>4. g \in [Vec -> Fields] /\ g[v] = Empty /\ \A w \in Vec : w # v => g[w] = f[w]
  BY <1>1, <1>3 DEF GivesBack
<1>5. ASSUME NEW w \in Vec, w # v
      PROVE  HeldBy(k, g[w]) /\ ElementsIn(g, k, w) = ElementsIn(f, h, w)
  <2>1. CASE f[w].data = Null
    BY <1>1, <1>4, <1>5, <2>1 DEF HeldBy, ElementsIn
  <2>2. CASE f[w].data # Null
    <3>1. f[w].data \in DOMAIN h /\ f[w].data # f[v].data
      BY <1>1, <1>5, <2>2 DEF HeldBy
    <3>2. f[w].data \in DOMAIN k /\ k[f[w].data] = h[f[w].data]
      BY <1>2, <3>1
    <3> QED  BY <1>1, <1>4, <1>5, <2>2, <3>2 DEF HeldBy, ElementsIn
  <2> QED  BY <2>1, <2>2
<1>6. HeldBy(k, g[v])
  BY <1>3, <1>4 DEF HeldBy
<1>7. \A w, u \in Vec : g[w].data = g[u].data => w = u \/ g[w].data = Null
  BY <1>1, <1>3, <1>4
<1>8. \A b \in DOMAIN k : \E w \in Vec : g[w].data = b
  <2> TAKE b \in DOMAIN k
  <2>1. PICK w \in Vec : f[w].data = b
    BY <1>1, <1>2
  <2>2. w # v
    BY <1>2, <2>1
  <2> QED  BY <1>4, <2>1, <2>2
<1>9. DOMAIN k \subseteq Block /\ \A b \in DOMAIN k : k[b] \in Seq(Element)
  BY <1>1, <1>2
<1>10. \A w \in Vec : HeldBy(k, g[w])
  BY <1>5, <1>6
<1>11. Owned(g, k)
  BY ONLY <1>4, <1>7, <1>8, <1>9, <1>10 DEF Owned
<1> QED  BY ONLY <1>2, <1>4, <1>5, <1>11 DEF GaveBack

\* A block for an empty v.
LEMMA Given ==
    ASSUME VectorsAssumption, NEW f, NEW h, Owned(f, h), NEW v \in Vec, f[v] = Empty,
           NEW b \in Block, b \notin DOMAIN h, NEW s \in Seq(Element),
           Len(s) <= MaxSize, NEW c \in 0 .. 2 * MaxSize, Len(s) <= c, NEW g, NEW k,
           Gets(f, h, v, b, s, c, g, k)
    PROVE  /\ Owned(g, k) /\ ElementsIn(g, k, v) = s
           /\ \A w \in Vec : w # v => ElementsIn(g, k, w) = ElementsIn(f, h, w)
<1>1. /\ f \in [Vec -> Fields]
      /\ DOMAIN h \subseteq Block /\ \A d \in DOMAIN h : h[d] \in Seq(Element)
      /\ \A w \in Vec : HeldBy(h, f[w])
      /\ \A w, u \in Vec : f[w].data = f[u].data => w = u \/ f[w].data = Null
      /\ \A d \in DOMAIN h : \E w \in Vec : f[w].data = d
  BY DEF Owned
<1>2. PICK r : r = [data |-> b, size |-> Len(s), capacity |-> c]
  OBVIOUS
<1>3. /\ DOMAIN k = DOMAIN h \cup {b} /\ k[b] = s
      /\ \A d \in DOMAIN h : k[d] = h[d]
  BY DEF Gets, WithBlock
<1>4. b # Null /\ Empty.data = Null
  <2>1. b \in Nat
    <3>1. Cardinality(Vec) \in Nat
      BY FS_CardinalityType DEF VectorsAssumption
    <3> QED  BY <3>1 DEF Block
  <2> QED  BY <2>1 DEF VectorsAssumption, Empty
<1>5. r \in Fields /\ r.data = b /\ r.size = Len(s) /\ r.capacity = c
  <2>1. Len(s) \in 0 .. MaxSize
    BY DEF VectorsAssumption
  <2> QED  BY <1>2, <2>1 DEF Fields
<1>6. g = [f EXCEPT ![v] = r]
  BY ONLY <1>2, Gets(f, h, v, b, s, c, g, k) DEF Gets
<1>7. g \in [Vec -> Fields] /\ g[v] = r /\ \A w \in Vec : w # v => g[w] = f[w]
  BY <1>1, <1>5, <1>6
<1>8. HeldBy(k, g[v]) /\ ElementsIn(g, k, v) = s
  BY <1>3, <1>4, <1>5, <1>7 DEF HeldBy, ElementsIn
<1>9. ASSUME NEW w \in Vec, w # v
      PROVE  /\ HeldBy(k, g[w]) /\ ElementsIn(g, k, w) = ElementsIn(f, h, w)
             /\ g[w].data # b
  <2>1. CASE f[w].data = Null
    BY <1>1, <1>4, <1>7, <1>9, <2>1 DEF HeldBy, ElementsIn
  <2>2. CASE f[w].data # Null
    <3>1. f[w].data \in DOMAIN h
      BY <1>1, <2>2 DEF HeldBy
    <3>2. f[w].data \in DOMAIN k /\ k[f[w].data] = h[f[w].data] /\ f[w].data # b
      BY <1>3, <3>1
    <3> QED  BY <1>1, <1>7, <1>9, <2>2, <3>2 DEF HeldBy, ElementsIn
  <2> QED  BY <2>1, <2>2
<1>10. \A w, u \in Vec : g[w].data = g[u].data => w = u \/ g[w].data = Null
  BY <1>1, <1>5, <1>7, <1>9
<1>11. \A d \in DOMAIN k : \E w \in Vec : g[w].data = d
  <2> TAKE d \in DOMAIN k
  <2>1. CASE d = b
    BY <1>5, <1>7, <2>1
  <2>2. CASE d \in DOMAIN h
    <3>1. PICK w \in Vec : f[w].data = d
      BY <1>1, <2>2
    <3>2. w # v
      <4>1. d # Null
        BY <1>1, <1>4, <2>2, FS_CardinalityType DEF Block, VectorsAssumption
      <4> QED  BY <1>4, <3>1, <4>1
    <3> QED  BY <1>7, <3>1, <3>2
  <2> QED  BY <1>3, <2>1, <2>2
<1>12. DOMAIN k \subseteq Block /\ \A d \in DOMAIN k : k[d] \in Seq(Element)
  BY <1>1, <1>3
<1>13. \A w \in Vec : HeldBy(k, g[w])
  BY <1>8, <1>9
<1>14. Owned(g, k)
  BY ONLY <1>7, <1>10, <1>11, <1>12, <1>13 DEF Owned
<1> QED  BY <1>8, <1>9, <1>14

\* The block of w taken over by an empty v.
LEMMA TakenOver ==
    ASSUME VectorsAssumption, NEW f, NEW h, Owned(f, h), NEW v \in Vec, f[v] = Empty,
           NEW w \in Vec, w # v, NEW g, TakesOver(f, v, w, g)
    PROVE  /\ Owned(g, h) /\ ElementsIn(g, h, v) = ElementsIn(f, h, w)
           /\ ElementsIn(g, h, w) = << >>
           /\ \A u \in Vec : u # v /\ u # w => ElementsIn(g, h, u) = ElementsIn(f, h, u)
<1>1. /\ f \in [Vec -> Fields]
      /\ DOMAIN h \subseteq Block /\ \A d \in DOMAIN h : h[d] \in Seq(Element)
      /\ \A u \in Vec : HeldBy(h, f[u])
      /\ \A u, x \in Vec : f[u].data = f[x].data => u = x \/ f[u].data = Null
      /\ \A d \in DOMAIN h : \E u \in Vec : f[u].data = d
  BY DEF Owned
<1>2. Empty \in Fields /\ Empty.data = Null
  BY DEF VectorsAssumption, Empty, Fields
<1>3. /\ g \in [Vec -> Fields] /\ g[v] = f[w] /\ g[w] = Empty
      /\ \A u \in Vec : u # v /\ u # w => g[u] = f[u]
  BY <1>1, <1>2 DEF TakesOver
<1>4. HeldBy(h, Empty)
  BY <1>2 DEF HeldBy
<1>5. \A u \in Vec : HeldBy(h, g[u])
  BY <1>1, <1>3, <1>4
<1>6. \A u, x \in Vec : g[u].data = g[x].data => u = x \/ g[u].data = Null
  BY <1>1, <1>2, <1>3
<1>7. \A d \in DOMAIN h : \E u \in Vec : g[u].data = d
  <2> TAKE d \in DOMAIN h
  <2>1. PICK u \in Vec : f[u].data = d
    BY <1>1
  <2>2. CASE u = w
    BY <1>3, <2>1, <2>2
  <2>3. CASE u = v
    <3>1. FALSE
      <4>1. d = Null
        BY <1>2, <2>1, <2>3
      <4> QED  BY <1>1, <4>1, FS_CardinalityType DEF Block, VectorsAssumption
    <3> QED  BY <3>1
  <2>4. CASE u # v /\ u # w
    BY <1>3, <2>1, <2>4
  <2> QED  BY <2>2, <2>3, <2>4
<1>8. Owned(g, h)
  BY ONLY <1>1, <1>3, <1>5, <1>6, <1>7 DEF Owned
<1> QED  BY <1>2, <1>3, <1>8 DEF ElementsIn

\* What every operation leaves alone: the elements of the other vectors.
Spared(v) == \A w \in Vec : w # v => Elements(w)' = Elements(w)

\* Storing elements in v.
LEMMA Stored ==
    ASSUME VectorsAssumption, BlocksOwned, NEW v \in Vec, NEW s \in Seq(Element),
           NEW c \in 0 .. 2 * MaxSize, Len(s) <= MaxSize, Len(s) <= c, Store(v, s, c)
    PROVE  BlocksOwned' /\ Elements(v)' = s /\ Spared(v)
<1>1. Owned(vec, heap) /\ \A w : Elements(w) = ElementsIn(vec, heap, w)
  BY OwnedIsBlocksOwned DEF SameThing
<1>2. PICK b, d : /\ d = vec[v].data
                  /\ b \in IF d = Null THEN {FreshBlock}
                           ELSE IF c = vec[v].capacity THEN {d} ELSE {d, FreshBlock}
                  /\ heap' = WithBlock(WithoutBlock(heap, d), b, s)
                  /\ vec' = [vec EXCEPT ![v] = [data |-> b, size |-> Len(s), capacity |-> c]]
  BY DEF Store
<1>3. FreshBlock \in Block /\ FreshBlock \notin DOMAIN heap
  BY <1>1, BlockLeft DEF FreshBlock
<1>4. PICK e, m, f, h : e = vec /\ m = heap /\ GivesBack(e, m, v, f, h)
  BY DEF GivesBack
<1>5. /\ Owned(f, h) /\ f[v] = Empty
      /\ DOMAIN h = DOMAIN m \ {e[v].data}
      /\ \A w \in Vec : w # v => f[w] = e[w] /\ ElementsIn(f, h, w) = ElementsIn(e, m, w)
  <2>1. Owned(e, m)
    BY ONLY <1>1, <1>4
  <2>2. GaveBack(e, m, v, f, h)
    BY ONLY VectorsAssumption, v \in Vec, <1>4, <2>1, GivenBack
  <2> QED  BY ONLY <2>2 DEF GaveBack
<1>6. b \in Block /\ b \notin DOMAIN h
  <2>1. d # Null => d \in Block
    BY <1>1, <1>2 DEF Owned, Fields
  <2>2. DOMAIN h = DOMAIN heap \ {d}
    BY ONLY <1>2, <1>4, <1>5
  <2>3. b = FreshBlock \/ (b = d /\ d # Null)
    BY ONLY <1>2
  <2> QED  BY ONLY <1>3, <2>1, <2>2, <2>3
<1>7. PICK g, k : g = vec' /\ k = heap'
  OBVIOUS
<1>8. Gets(f, h, v, b, s, c, g, k)
  <2>1. vec \in [Vec -> Fields]
    BY <1>1 DEF Owned
  <2>2. vec' = [f EXCEPT ![v] = [data |-> b, size |-> Len(s), capacity |-> c]]
    BY <1>2, <1>4, <2>1 DEF GivesBack
  <2>3. heap' = WithBlock(h, b, s)
    BY <1>2, <1>4 DEF GivesBack
  <2> QED  BY ONLY <1>7, <2>2, <2>3 DEF Gets
<1>9. /\ Owned(g, k) /\ ElementsIn(g, k, v) = s
      /\ \A w \in Vec : w # v => ElementsIn(g, k, w) = ElementsIn(f, h, w)
  BY ONLY VectorsAssumption, v \in Vec, s \in Seq(Element), c \in 0 .. 2 * MaxSize,
          Len(s) <= MaxSize, Len(s) <= c, <1>5, <1>6, <1>8, Given
<1>10. Owned(vec', heap') /\ \A w : Elements(w)' = ElementsIn(g, k, w)
  BY ONLY <1>7, <1>9, StillSameThing
<1>11. BlocksOwned'
  BY ONLY <1>10, StillSameThing
<1> QED  BY <1>1, <1>4, <1>5, <1>9, <1>10, <1>11 DEF Spared

\* Giving back the block of v.
LEMMA Freed ==
    ASSUME VectorsAssumption, BlocksOwned, NEW v \in Vec, Free(v)
    PROVE  BlocksOwned' /\ Elements(v)' = << >> /\ Spared(v)
<1>1. Owned(vec, heap) /\ \A w : Elements(w) = ElementsIn(vec, heap, w)
  BY OwnedIsBlocksOwned DEF SameThing
<1>2. PICK e, m, g, k : e = vec /\ m = heap /\ g = vec' /\ k = heap'
  OBVIOUS
<1>3. GivesBack(e, m, v, g, k)
  BY <1>2 DEF Free, GivesBack
<1>4. Owned(e, m)
  BY ONLY <1>1, <1>2
<1>5. /\ Owned(g, k) /\ g[v] = Empty
      /\ DOMAIN k = DOMAIN m \ {e[v].data}
      /\ \A w \in Vec : w # v => g[w] = e[w] /\ ElementsIn(g, k, w) = ElementsIn(e, m, w)
  <2>1. GaveBack(e, m, v, g, k)
    BY ONLY VectorsAssumption, v \in Vec, <1>3, <1>4, GivenBack
  <2> QED  BY ONLY <2>1 DEF GaveBack
<1>6. Owned(vec', heap') /\ \A w : Elements(w)' = ElementsIn(g, k, w)
  BY ONLY <1>2, <1>5, StillSameThing
<1>7. BlocksOwned'
  BY ONLY <1>6, StillSameThing
<1>8. ElementsIn(g, k, v) = << >>
  BY <1>5 DEF ElementsIn, Empty
<1> QED  BY <1>1, <1>2, <1>5, <1>6, <1>7, <1>8 DEF Spared

\* A copy of w in v.
LEMMA Copied ==
    ASSUME VectorsAssumption, BlocksOwned, NEW v \in Vec, NEW w \in Vec, Copy(v, w)
    PROVE  BlocksOwned' /\ Elements(v)' = Elements(w) /\ Spared(v)
<1>1. Owned(vec, heap) /\ \A u : Elements(u) = ElementsIn(vec, heap, u)
  BY OwnedIsBlocksOwned DEF SameThing
<1>2. v # w
  BY DEF Copy
<1>3. vec \in [Vec -> Fields] /\ HeldBy(heap, vec[w])
  BY <1>1 DEF Owned
<1>4. vec[w].size \in 0 .. MaxSize /\ MaxSize \in Nat
  BY <1>3 DEF Fields, VectorsAssumption
<1>5. /\ Elements(w) \in Seq(Element) /\ Len(Elements(w)) = vec[w].size
  <2>1. CASE vec[w].data = Null
    <3>1. vec[w] = Empty
      BY ONLY <1>3, <2>1 DEF HeldBy
    <3>2. Elements(w) = << >>
      BY ONLY <1>1, <2>1 DEF ElementsIn
    <3>3. Empty.size = 0
      BY DEF Empty
    <3> QED  BY ONLY <3>1, <3>2, <3>3
  <2>2. CASE vec[w].data # Null
    <3>1. vec[w].data \in DOMAIN heap /\ Len(heap[vec[w].data]) = vec[w].size
      BY <1>3, <2>2 DEF HeldBy
    <3>2. heap[vec[w].data] \in Seq(Element)
      BY <1>1, <3>1 DEF Owned
    <3> QED  BY <1>1, <2>2, <3>1, <3>2 DEF ElementsIn
  <2> QED  BY <2>1, <2>2
<1>6. CASE vec[w].size = 0
  <2>1. Elements(w) = << >>
    BY <1>5, <1>6
  <2>2. PICK e, m, g, k : e = vec /\ m = heap /\ g = vec' /\ k = heap'
    OBVIOUS
  <2>3. GivesBack(e, m, v, g, k)
    BY <1>6, <2>2 DEF Copy, GivesBack
  <2>4. Owned(e, m)
    BY ONLY <1>1, <2>2
  <2>5. /\ Owned(g, k) /\ g[v] = Empty
        /\ DOMAIN k = DOMAIN m \ {e[v].data}
        /\ \A u \in Vec : u # v => g[u] = e[u] /\ ElementsIn(g, k, u) = ElementsIn(e, m, u)
    <3>1. GaveBack(e, m, v, g, k)
      BY ONLY VectorsAssumption, v \in Vec, <2>3, <2>4, GivenBack
    <3> QED  BY ONLY <3>1 DEF GaveBack
  <2>6. Owned(vec', heap') /\ \A u : Elements(u)' = ElementsIn(g, k, u)
    BY ONLY <2>2, <2>5, StillSameThing
  <2>7. BlocksOwned'
    BY ONLY <2>6, StillSameThing
  <2>8. ElementsIn(g, k, v) = << >>
    BY <2>5 DEF ElementsIn, Empty
  <2> QED  BY <1>1, <2>1, <2>2, <2>5, <2>6, <2>7, <2>8 DEF Spared
<1>7. CASE vec[w].size # 0
  <2>1. PICK s, c : s = Elements(w) /\ c = vec[w].size
    OBVIOUS
  <2>2. PICK e, m, f, h : e = vec /\ m = heap /\ GivesBack(e, m, v, f, h)
    BY DEF GivesBack
  <2>3. /\ Owned(f, h) /\ f[v] = Empty
        /\ DOMAIN h = DOMAIN m \ {e[v].data}
        /\ \A u \in Vec : u # v => f[u] = e[u] /\ ElementsIn(f, h, u) = ElementsIn(e, m, u)
    <3>1. Owned(e, m)
      BY ONLY <1>1, <2>2
    <3>2. GaveBack(e, m, v, f, h)
      BY ONLY VectorsAssumption, v \in Vec, <2>2, <3>1, GivenBack
    <3> QED  BY ONLY <3>2 DEF GaveBack
  <2>4. PICK b : b = CHOOSE x \in Block : x \notin DOMAIN h
    OBVIOUS
  <2>5. b \in Block /\ b \notin DOMAIN h
    BY <2>3, <2>4, BlockLeft
  <2>6. PICK g, k : g = vec' /\ k = heap'
    OBVIOUS
  <2>7. Gets(f, h, v, b, s, c, g, k)
    <3>1. h = WithoutBlock(heap, vec[v].data) /\ f = [vec EXCEPT ![v] = Empty]
      BY <2>2 DEF GivesBack
    <3>2. heap' = WithBlock(h, b, s)
      BY <1>7, <2>1, <2>4, <3>1 DEF Copy
    <3>3. vec' = [vec EXCEPT ![v] = [data |-> b, size |-> c, capacity |-> c]]
      BY <1>7, <2>1, <2>4, <3>1 DEF Copy
    <3>4. c = Len(s)
      BY <1>5, <2>1
    <3>5. vec' = [f EXCEPT ![v] = [data |-> b, size |-> Len(s), capacity |-> c]]
      BY <1>3, <3>1, <3>3, <3>4
    <3> QED  BY ONLY <2>6, <3>2, <3>5 DEF Gets
  <2>8. s \in Seq(Element) /\ Len(s) <= MaxSize /\ c \in 0 .. 2 * MaxSize /\ Len(s) <= c
    BY <1>4, <1>5, <2>1
  <2>9. /\ Owned(g, k) /\ ElementsIn(g, k, v) = s
        /\ \A u \in Vec : u # v => ElementsIn(g, k, u) = ElementsIn(f, h, u)
    BY ONLY VectorsAssumption, v \in Vec, <2>3, <2>5, <2>7, <2>8, Given
  <2>10. Owned(vec', heap') /\ \A u : Elements(u)' = ElementsIn(g, k, u)
    BY ONLY <2>6, <2>9, StillSameThing
  <2>11. BlocksOwned'
    BY ONLY <2>10, StillSameThing
  <2> QED  BY <1>1, <2>1, <2>2, <2>3, <2>9, <2>10, <2>11 DEF Spared
<1> QED  BY <1>6, <1>7

\* w moved to v.
LEMMA Moved ==
    ASSUME VectorsAssumption, BlocksOwned, NEW v \in Vec, NEW w \in Vec, Move(v, w)
    PROVE  /\ BlocksOwned' /\ Elements(v)' = Elements(w) /\ Elements(w)' = << >>
           /\ \A u \in Vec : u # v /\ u # w => Elements(u)' = Elements(u)
<1>1. Owned(vec, heap) /\ \A u : Elements(u) = ElementsIn(vec, heap, u)
  BY OwnedIsBlocksOwned DEF SameThing
<1>2. v # w /\ vec \in [Vec -> Fields]
  BY <1>1 DEF Move, Owned
<1>3. PICK e, m, f, h : e = vec /\ m = heap /\ GivesBack(e, m, v, f, h)
  BY DEF GivesBack
<1>4. /\ Owned(f, h) /\ f[v] = Empty
      /\ DOMAIN h = DOMAIN m \ {e[v].data}
      /\ \A u \in Vec : u # v => f[u] = e[u] /\ ElementsIn(f, h, u) = ElementsIn(e, m, u)
  <2>1. Owned(e, m)
    BY ONLY <1>1, <1>3
  <2>2. GaveBack(e, m, v, f, h)
    BY ONLY VectorsAssumption, v \in Vec, <1>3, <2>1, GivenBack
  <2> QED  BY ONLY <2>2 DEF GaveBack
<1>5. PICK g, k : g = vec' /\ k = heap'
  OBVIOUS
<1>6. TakesOver(f, v, w, g) /\ k = h
  <2>1. h = WithoutBlock(heap, vec[v].data) /\ f = [vec EXCEPT ![v] = Empty]
    BY <1>3 DEF GivesBack
  <2>2. vec' = [vec EXCEPT ![v] = vec[w], ![w] = Empty] /\ heap' = h
    BY <2>1 DEF Move
  <2>3. vec' = [f EXCEPT ![v] = f[w], ![w] = Empty]
    BY <1>2, <2>1, <2>2
  <2> QED  BY <1>5, <2>2, <2>3 DEF TakesOver
<1>7. /\ Owned(g, h) /\ ElementsIn(g, h, v) = ElementsIn(f, h, w)
      /\ ElementsIn(g, h, w) = << >>
      /\ \A u \in Vec : u # v /\ u # w => ElementsIn(g, h, u) = ElementsIn(f, h, u)
  BY ONLY VectorsAssumption, v \in Vec, w \in Vec, <1>2, <1>4, <1>6, TakenOver
<1>8. Owned(vec', heap') /\ \A u : Elements(u)' = ElementsIn(g, h, u)
  BY ONLY <1>5, <1>6, <1>7, StillSameThing
<1>9. BlocksOwned'
  BY ONLY <1>8, StillSameThing
<1> QED  BY <1>1, <1>2, <1>3, <1>4, <1>7, <1>8, <1>9

-----------------------------------------------------------------------------
(* How often elements occur *)

\* Where x is in s, and how often.
Places(s, x) == {i \in DOMAIN s : s[i] = x}
Count(s, x) == Cardinality(Places(s, x))

\* One for x, none for others.
One(x, y) == IF x = y THEN 1 ELSE 0

\* Places are finitely many.
LEMMA PlacesFinite ==
    ASSUME NEW T, NEW s \in Seq(T), NEW x
    PROVE  IsFiniteSet(Places(s, x)) /\ Count(s, x) \in Nat
<1>1. PICK n : n = Len(s)
  OBVIOUS
<1>2. n \in Nat /\ DOMAIN s = 1 .. n
  BY <1>1
<1>3. PICK P : P = 1 .. n
  OBVIOUS
<1>4. IsFiniteSet(P)
  <2>1. 1 \in Int /\ n \in Int
    BY <1>2
  <2>2. IsFiniteSet(1 .. n)
    BY ONLY <2>1, FS_Interval
  <2> QED  BY ONLY <1>3, <2>2
<1>5. PICK Q : Q = Places(s, x)
  OBVIOUS
<1>6. Q \in SUBSET P
  BY <1>2, <1>3, <1>5 DEF Places
<1>7. IsFiniteSet(Q)
  BY ONLY <1>4, <1>6, FS_Subset
<1>8. Cardinality(Q) \in Nat
  BY ONLY <1>7, FS_CardinalityType
<1> QED  BY <1>5, <1>7, <1>8 DEF Count

\* One element more at the end.
LEMMA CountAppend ==
    ASSUME NEW T, NEW s \in Seq(T), NEW x \in T, NEW y
    PROVE  Count(Append(s, x), y) = Count(s, y) + One(x, y)
<1>1. PICK n, t : n = Len(s) /\ t = Append(s, x)
  OBVIOUS
<1>2. /\ n \in Nat /\ DOMAIN s = 1 .. n /\ DOMAIN t = 1 .. n + 1
      /\ t[n + 1] = x /\ \A i \in 1 .. n : t[i] = s[i]
  BY <1>1
<1>3. PICK P : P = Places(s, y)
  OBVIOUS
<1>4. IsFiniteSet(P) /\ Cardinality(P) \in Nat
  BY <1>3, PlacesFinite DEF Count
<1>5. CASE x = y
  <2>1. Places(t, y) = P \cup {n + 1} /\ n + 1 \notin P
    BY <1>2, <1>3, <1>5 DEF Places
  <2>2. Cardinality(P \cup {n + 1}) = Cardinality(P) + 1
    BY ONLY <1>4, <2>1, FS_AddElement
  <2> QED  BY <1>1, <1>3, <1>5, <2>1, <2>2 DEF Count, One
<1>6. CASE x # y
  <2>1. Places(t, y) = P
    BY <1>2, <1>3, <1>6 DEF Places
  <2> QED  BY <1>1, <1>3, <1>4, <1>6, <2>1 DEF Count, One
<1> QED  BY <1>5, <1>6

\* t is s with element i replaced by x, and has y as often as that makes it.
AfterReplace(T, s, i, x, y, t) ==
    /\ t \in Seq(T) /\ Len(t) = Len(s) /\ t[i] = x /\ \A j \in DOMAIN s : j # i => t[j] = s[j]
    /\ Count(t, y) = Count(s, y) - One(s[i], y) + One(x, y)

\* t is s without its last element, and has y as often as that makes it.
AfterFront(T, s, y, t) ==
    /\ t \in Seq(T) /\ Len(t) = Len(s) - 1 /\ \A j \in 1 .. Len(s) - 1 : t[j] = s[j]
    /\ s[Len(s)] \in T
    /\ Count(t, y) = Count(s, y) - One(s[Len(s)], y)

\* One element replaced.
LEMMA CountReplace ==
    ASSUME NEW T, NEW s \in Seq(T), NEW i \in DOMAIN s, NEW x \in T, NEW y, NEW t,
           t = ReplaceAt(s, i, x)
    PROVE  AfterReplace(T, s, i, x, y, t)
<1>1. t = [s EXCEPT ![i] = x]
  BY DEF ReplaceAt
<1>2. /\ t \in Seq(T) /\ Len(t) = Len(s) /\ DOMAIN t = DOMAIN s
      /\ t[i] = x /\ \A j \in DOMAIN s : j # i => t[j] = s[j]
  BY <1>1
<1>3. PICK P, Q : P = Places(s, y) /\ Q = Places(t, y)
  OBVIOUS
<1>4. IsFiniteSet(P) /\ Cardinality(P) \in Nat
  BY <1>3, PlacesFinite DEF Count
<1>5. Count(t, y) = Cardinality(Q) /\ Count(s, y) = Cardinality(P)
  BY <1>3 DEF Count
<1>6. CASE s[i] = y /\ x = y
  <2>1. Q = P
    BY <1>2, <1>3, <1>6 DEF Places
  <2> QED  BY <1>2, <1>4, <1>5, <1>6, <2>1 DEF One, AfterReplace
<1>7. CASE s[i] = y /\ x # y
  <2>1. Q = P \ {i} /\ i \in P
    BY <1>2, <1>3, <1>7 DEF Places
  <2>2. Cardinality(P \ {i}) = Cardinality(P) - 1
    BY ONLY <1>4, <2>1, FS_RemoveElement
  <2> QED  BY <1>2, <1>4, <1>5, <1>7, <2>1, <2>2 DEF One, AfterReplace
<1>8. CASE s[i] # y /\ x = y
  <2>1. Q = P \cup {i} /\ i \notin P
    BY <1>2, <1>3, <1>8 DEF Places
  <2>2. Cardinality(P \cup {i}) = Cardinality(P) + 1
    BY ONLY <1>4, <2>1, FS_AddElement
  <2> QED  BY <1>2, <1>4, <1>5, <1>8, <2>1, <2>2 DEF One, AfterReplace
<1>9. CASE s[i] # y /\ x # y
  <2>1. Q = P
    BY <1>2, <1>3, <1>9 DEF Places
  <2> QED  BY <1>2, <1>4, <1>5, <1>9, <2>1 DEF One, AfterReplace
<1> QED  BY ONLY <1>6, <1>7, <1>8, <1>9

\* The last element given up.
LEMMA CountFront ==
    ASSUME NEW T, NEW s \in Seq(T), s # << >>, NEW y, NEW t,
           t = Front(s)
    PROVE  AfterFront(T, s, y, t)
<1>1. PICK n \in Nat : n + 1 = Len(s)
  <2>1. Len(s) \in Nat /\ Len(s) # 0
    OBVIOUS
  <2> QED  BY <2>1
<1>2. PICK x : x = s[n + 1] /\ x \in T
  BY <1>1
<1>3. /\ t \in Seq(T) /\ Len(t) = n /\ \A j \in 1 .. n : t[j] = s[j]
  <2>1. t = SubSeq(s, 1, n) /\ n <= Len(s)
    BY <1>1 DEF Front
  <2> QED  BY <2>1
<1>4. s = Append(t, x)
  BY <1>1, <1>2, <1>3
<1>5. Count(s, y) = Count(t, y) + One(x, y)
  <2>1. Count(Append(t, x), y) = Count(t, y) + One(x, y)
    BY ONLY <1>2, <1>3, CountAppend
  <2> QED  BY ONLY <1>4, <2>1
<1>6. Count(t, y) \in Nat /\ One(x, y) \in Nat
  BY <1>3, PlacesFinite DEF One
<1>7. Count(t, y) = Count(s, y) - One(x, y)
  BY ONLY <1>5, <1>6
<1>8. Len(s) = n + 1 /\ Len(s) - 1 = n
  BY ONLY <1>1
<1> QED  BY ONLY <1>2, <1>3, <1>7, <1>8 DEF AfterFront

\* The last element in the place of element i.
LEMMA CountFilled ==
    ASSUME NEW T, NEW s \in Seq(T), NEW i \in DOMAIN s, NEW y
    PROVE  /\ Filled(s, i) \in Seq(T) /\ Len(Filled(s, i)) = Len(s) - 1
           /\ Count(Filled(s, i), y) = Count(s, y) - One(s[i], y)
<1>1. PICK n \in Nat : n = Len(s) /\ DOMAIN s = 1 .. n /\ n >= 1 /\ s # << >>
  <2>1. Len(s) \in Nat /\ DOMAIN s = 1 .. Len(s)
    OBVIOUS
  <2>2. PICK k \in Nat : k = Len(s)
    BY ONLY <2>1
  <2>3. k >= 1
    BY ONLY <2>1, <2>2, i \in DOMAIN s
  <2>4. s # << >>
    BY <2>2, <2>3
  <2> QED  BY ONLY <2>1, <2>2, <2>3, <2>4
<1>2. PICK x : x = s[n] /\ x \in T
  BY <1>1
<1>3. PICK t, u : t = ReplaceAt(s, i, x) /\ u = Front(t)
  OBVIOUS
<1>4. /\ t \in Seq(T) /\ Len(t) = Len(s) /\ t[i] = x /\ \A j \in DOMAIN s : j # i => t[j] = s[j]
      /\ Count(t, y) = Count(s, y) - One(s[i], y) + One(x, y)
  <2>1. AfterReplace(T, s, i, x, y, t)
    BY ONLY s \in Seq(T), i \in DOMAIN s, <1>2, <1>3, CountReplace
  <2> QED  BY ONLY <2>1 DEF AfterReplace
<1>5. t # << >> /\ Len(t) = n
  BY ONLY <1>1, <1>4
<1>6. /\ u \in Seq(T) /\ Len(u) = Len(t) - 1 /\ \A j \in 1 .. Len(t) - 1 : u[j] = t[j]
      /\ t[Len(t)] \in T
      /\ Count(u, y) = Count(t, y) - One(t[Len(t)], y)
  <2>1. AfterFront(T, t, y, u)
    BY ONLY <1>3, <1>4, <1>5, CountFront
  <2> QED  BY ONLY <2>1 DEF AfterFront
<1>7. t[n] = x
  BY <1>1, <1>2, <1>4
<1>8. Filled(s, i) = u
  <2>1. \A j \in 1 .. n - 1 : u[j] = IF j = i THEN s[n] ELSE s[j]
    BY <1>1, <1>2, <1>4, <1>5, <1>6
  <2>2. u = [j \in 1 .. n - 1 |-> u[j]]
    BY <1>5, <1>6
  <2>3. Filled(s, i) = [j \in 1 .. n - 1 |-> IF j = i THEN s[n] ELSE s[j]]
    BY <1>1 DEF Filled
  <2> QED  BY <2>1, <2>2, <2>3
<1>9. Count(u, y) = Count(s, y) - One(s[i], y)
  <2>1. Count(s, y) \in Nat /\ One(s[i], y) \in Nat /\ One(x, y) \in Nat
    BY PlacesFinite DEF One
  <2> QED  BY ONLY <1>4, <1>5, <1>6, <1>7, <2>1
<1> QED  BY <1>1, <1>5, <1>6, <1>8, <1>9

\* The same element again and again at the end.
LEMMA CountExtended ==
    ASSUME NEW T, NEW s \in Seq(T), NEW x \in T, NEW n \in Nat, Len(s) <= n, NEW y, NEW t,
           t = [j \in 1 .. n |-> IF j <= Len(s) THEN s[j] ELSE x]
    PROVE  Count(t, y) = Count(s, y) + (IF x = y THEN n - Len(s) ELSE 0)
<1>1. PICK k \in Nat : k = Len(s) /\ DOMAIN s = 1 .. k /\ k <= n
  OBVIOUS
<1>2. DOMAIN t = 1 .. n /\ \A j \in 1 .. n : t[j] = IF j <= k THEN s[j] ELSE x
  BY <1>1
<1>3. PICK P : P = Places(s, y)
  OBVIOUS
<1>4. IsFiniteSet(P) /\ Cardinality(P) \in Nat /\ Count(s, y) = Cardinality(P)
  BY <1>3, PlacesFinite DEF Count
<1>5. CASE x = y
  <2>1. PICK l \in Int : l = k + 1
    OBVIOUS
  <2>2. n \in Int /\ IsFiniteSet(l .. n) /\ Cardinality(l .. n) = IF l > n THEN 0 ELSE n - l + 1
    <3>1. n \in Int
      OBVIOUS
    <3> QED  BY ONLY <3>1, <2>1, FS_Interval
  <2>3. PICK Q : Q = l .. n /\ IsFiniteSet(Q) /\ Cardinality(Q) = n - k
    <3>1. Cardinality(l .. n) = n - k
      BY ONLY <1>1, <2>1, <2>2, n \in Nat
    <3> QED  BY ONLY <2>2, <3>1
  <2>4. Places(t, y) = P \cup Q /\ P \cap Q = {}
    BY <1>1, <1>2, <1>3, <1>5, <2>1, <2>3 DEF Places
  <2>5. Cardinality(P \cup Q) = Cardinality(P) + Cardinality(Q) - Cardinality(P \cap Q)
    BY ONLY <1>4, <2>3, FS_Union
  <2>6. Cardinality(P \cap Q) = 0
    BY ONLY <2>4, FS_EmptySet
  <2>7. Count(t, y) = Cardinality(P \cup Q)
    BY ONLY <2>4 DEF Count
  <2> QED  BY <1>1, <1>4, <1>5, <2>3, <2>5, <2>6, <2>7
<1>6. CASE x # y
  <2>1. Places(t, y) = P
    BY <1>1, <1>2, <1>3, <1>6 DEF Places
  <2> QED  BY <1>3, <1>4, <1>6, <2>1 DEF Count
<1> QED  BY <1>5, <1>6

\* Tallies count.
LEMMA TallyCounts ==
    ASSUME NEW s
    PROVE  Tally(s) = [y \in Element |-> Count(s, y)]
BY DEF Tally, Count, Places

\* n more of x.
LEMMA TallyGains ==
    ASSUME NEW s, NEW t, NEW x \in Element, NEW n,
           \A y \in Element : Count(t, y) = Count(s, y) + (IF x = y THEN n ELSE 0),
           \A y \in Element : Count(s, y) \in Nat
    PROVE  Tally(t) = Gaining(Tally(s), x, n)
<1>1. /\ Tally(t) = [y \in Element |-> Count(t, y)]
      /\ Tally(s) = [y \in Element |-> Count(s, y)]
  BY TallyCounts
<1>2. Gaining(Tally(s), x, n) = [y \in Element |-> IF y = x THEN Count(s, y) + n ELSE Count(s, y)]
  BY <1>1 DEF Gaining
<1>3. \A y \in Element : Count(t, y) = IF y = x THEN Count(s, y) + n ELSE Count(s, y)
  OBVIOUS
<1> QED  BY ONLY <1>1, <1>2, <1>3

\* One less of x.
LEMMA TallyLoses ==
    ASSUME NEW s, NEW t, NEW x \in Element,
           \A y \in Element : Count(t, y) = Count(s, y) - One(x, y),
           \A y \in Element : Count(s, y) \in Nat
    PROVE  Tally(t) = Losing(Tally(s), x)
<1>1. /\ Tally(t) = [y \in Element |-> Count(t, y)]
      /\ Tally(s) = [y \in Element |-> Count(s, y)]
  BY TallyCounts
<1>2. Losing(Tally(s), x) = [y \in Element |-> IF y = x THEN Count(s, y) - 1 ELSE Count(s, y)]
  BY <1>1 DEF Losing
<1>3. \A y \in Element : Count(t, y) = IF y = x THEN Count(s, y) - 1 ELSE Count(s, y)
  BY DEF One
<1> QED  BY ONLY <1>1, <1>2, <1>3

\* One x for one z.
LEMMA TallySwaps ==
    ASSUME NEW s, NEW t, NEW x \in Element, NEW z \in Element,
           \A y \in Element : Count(t, y) = Count(s, y) - One(z, y) + One(x, y),
           \A y \in Element : Count(s, y) \in Nat
    PROVE  Tally(t) = Gaining(Losing(Tally(s), z), x, 1)
<1>1. /\ Tally(t) = [y \in Element |-> Count(t, y)]
      /\ Tally(s) = [y \in Element |-> Count(s, y)]
  BY TallyCounts
<1>2. PICK l : l = [y \in Element |-> Count(s, y) - One(z, y)]
  OBVIOUS
<1>3. Losing(Tally(s), z) = l
  <2>1. Losing(Tally(s), z) = [y \in Element |-> IF y = z THEN Count(s, y) - 1 ELSE Count(s, y)]
    BY <1>1 DEF Losing
  <2>2. \A y \in Element : Count(s, y) - One(z, y) = IF y = z THEN Count(s, y) - 1 ELSE Count(s, y)
    BY DEF One
  <2> QED  BY ONLY <1>2, <2>1, <2>2
<1>4. Gaining(l, x, 1) = [y \in Element |-> IF y = x THEN l[y] + 1 ELSE l[y]]
  BY <1>2 DEF Gaining
<1>5. \A y \in Element : Count(t, y) = IF y = x THEN l[y] + 1 ELSE l[y]
  BY <1>2 DEF One
<1> QED  BY ONLY <1>1, <1>3, <1>4, <1>5

\* Every sequence of elements is counted in numbers.
LEMMA CountsAreNumbers ==
    ASSUME NEW s \in Seq(Element)
    PROVE  \A y \in Element : Count(s, y) \in Nat
BY PlacesFinite

\* push_back adds to the tally.
LEMMA TallyAppend ==
    ASSUME NEW s \in Seq(Element), NEW x \in Element
    PROVE  Tally(Append(s, x)) = Gaining(Tally(s), x, 1)
<1>1. \A y \in Element : Count(Append(s, x), y) = Count(s, y) + One(x, y)
  BY CountAppend
<1>2. \A y \in Element : Count(Append(s, x), y) = Count(s, y) + (IF x = y THEN 1 ELSE 0)
  BY ONLY <1>1 DEF One
<1>3. PICK t : t = Append(s, x)
  OBVIOUS
<1>4. \A y \in Element : Count(s, y) \in Nat
  BY CountsAreNumbers
<1>5. Tally(t) = Gaining(Tally(s), x, 1)
  BY ONLY x \in Element, <1>2, <1>3, <1>4, TallyGains
<1> QED  BY ONLY <1>3, <1>5

\* erase and remove take from it.
LEMMA TallyFilled ==
    ASSUME NEW s \in Seq(Element), NEW i \in DOMAIN s
    PROVE  /\ Filled(s, i) \in Seq(Element) /\ Len(Filled(s, i)) = Len(s) - 1
           /\ s[i] \in Element /\ Tally(Filled(s, i)) = Losing(Tally(s), s[i])
<1>1. PICK t, x : t = Filled(s, i) /\ x = s[i] /\ x \in Element
  OBVIOUS
<1>2. \A y : t \in Seq(Element) /\ Len(t) = Len(s) - 1 /\ Count(t, y) = Count(s, y) - One(x, y)
  BY ONLY s \in Seq(Element), i \in DOMAIN s, <1>1, CountFilled
<1>3. \A y \in Element : Count(s, y) \in Nat
  BY CountsAreNumbers
<1>4. Tally(t) = Losing(Tally(s), x)
  BY ONLY <1>1, <1>2, <1>3, TallyLoses
<1> QED  BY ONLY <1>1, <1>2, <1>4

\* So does pop_back.
LEMMA TallyFront ==
    ASSUME NEW s \in Seq(Element), s # << >>
    PROVE  /\ Front(s) \in Seq(Element) /\ Len(Front(s)) = Len(s) - 1
           /\ Last(s) \in Element /\ Tally(Front(s)) = Losing(Tally(s), Last(s))
<1>1. PICK t, x : t = Front(s) /\ x = Last(s)
  OBVIOUS
<1>2. \A y : AfterFront(Element, s, y, t)
  BY ONLY s \in Seq(Element), s # << >>, <1>1, CountFront
<1>3. x = s[Len(s)]
  BY <1>1 DEF Last
<1>4. \A y : /\ t \in Seq(Element) /\ Len(t) = Len(s) - 1 /\ x \in Element
             /\ Count(t, y) = Count(s, y) - One(x, y)
  BY ONLY <1>2, <1>3 DEF AfterFront
<1>5. \A y \in Element : Count(s, y) \in Nat
  BY CountsAreNumbers
<1>6. Tally(t) = Losing(Tally(s), x)
  BY ONLY <1>4, <1>5, TallyLoses
<1> QED  BY ONLY <1>1, <1>4, <1>6

\* replace gives one for another.
LEMMA TallyReplaced ==
    ASSUME NEW s \in Seq(Element), NEW i \in DOMAIN s, NEW x \in Element
    PROVE  /\ ReplaceAt(s, i, x) \in Seq(Element) /\ Len(ReplaceAt(s, i, x)) = Len(s)
           /\ Tally(ReplaceAt(s, i, x)) = Gaining(Losing(Tally(s), s[i]), x, 1)
<1>1. PICK t, z : t = ReplaceAt(s, i, x) /\ z = s[i] /\ z \in Element
  OBVIOUS
<1>2. \A y : AfterReplace(Element, s, i, x, y, t)
  BY ONLY s \in Seq(Element), i \in DOMAIN s, x \in Element, <1>1, CountReplace
<1>3. \A y : /\ t \in Seq(Element) /\ Len(t) = Len(s)
             /\ Count(t, y) = Count(s, y) - One(z, y) + One(x, y)
  BY ONLY <1>1, <1>2 DEF AfterReplace
<1>4. \A y \in Element : Count(s, y) \in Nat
  BY CountsAreNumbers
<1>5. Tally(t) = Gaining(Losing(Tally(s), z), x, 1)
  BY ONLY x \in Element, <1>1, <1>3, <1>4, TallySwaps
<1> QED  BY ONLY <1>1, <1>3, <1>5

\* resize adds what is new.
LEMMA TallyExtended ==
    ASSUME NEW s \in Seq(Element), NEW x \in Element, NEW n \in Nat, Len(s) <= n, NEW t,
           t = [j \in 1 .. n |-> IF j <= Len(s) THEN s[j] ELSE x]
    PROVE  Tally(t) = Gaining(Tally(s), x, n - Len(s))
<1>1. PICK k : k = n - Len(s)
  OBVIOUS
<1>2. \A y : Count(t, y) = Count(s, y) + (IF x = y THEN n - Len(s) ELSE 0)
  BY CountExtended
<1>3. \A y \in Element : Count(t, y) = Count(s, y) + (IF x = y THEN k ELSE 0)
  BY ONLY <1>1, <1>2
<1>4. \A y \in Element : Count(s, y) \in Nat
  BY CountsAreNumbers
<1>5. Tally(t) = Gaining(Tally(s), x, k)
  BY ONLY x \in Element, <1>3, <1>4, TallyGains
<1> QED  BY ONLY <1>1, <1>5

\* Where remove and replace look.
FirstAt(s, x) == SelectInSeq(s, LAMBDA y : y = x)

\* Looking for x finds it where it is.
LEMMA FirstPlace ==
    ASSUME NEW s \in Seq(Element), NEW x, x \in Range(s), NEW i,
           i = FirstAt(s, x)
    PROVE  i \in DOMAIN s /\ s[i] = x
<1>1. PICK P : P = {j \in 1 .. Len(s) : s[j] = x}
  OBVIOUS
<1>2. DOMAIN s = 1 .. Len(s) /\ Len(s) \in Nat
  OBVIOUS
<1>3. PICK j \in P : TRUE
  BY <1>1, <1>2 DEF Range
<1>4. P \subseteq Nat
  BY <1>1, <1>2
<1>5. PICK k \in P : \A z \in P : k <= z
  BY <1>3, <1>4, Least
<1>6. i = IF P # {} THEN CHOOSE z \in P : \A y \in P : z <= y ELSE 0
  BY <1>1 DEF FirstAt, SelectInSeq, Min
<1>7. i \in P
  BY <1>3, <1>5, <1>6
<1> QED  BY <1>1, <1>2, <1>7

-----------------------------------------------------------------------------
(* Vectors keep their blocks and elements *)

\* Blocks have owners, and the tallies are those of the elements.
VectorsInv == BlocksOwned /\ kept = [v \in Vec |-> Tally(Elements(v))]

\* A vector and its elements.
LEMMA VectorFacts ==
    ASSUME VectorsAssumption, VectorsInv, NEW v \in Vec
    PROVE  /\ Elements(v) \in Seq(Element) /\ Len(Elements(v)) = vec[v].size
           /\ vec[v].size \in 0 .. MaxSize /\ vec[v].size <= vec[v].capacity
           /\ vec[v].capacity \in 0 .. 2 * MaxSize /\ MaxSize \in Nat \ {0}
           /\ kept[v] = Tally(Elements(v))
<1>1. Owned(vec, heap)
  BY OwnedIsBlocksOwned DEF SameThing, VectorsInv
<1>2. vec[v] \in Fields /\ HeldBy(heap, vec[v])
  BY <1>1 DEF Owned
<1>3. /\ vec[v].size \in 0 .. MaxSize /\ vec[v].capacity \in 0 .. 2 * MaxSize
      /\ MaxSize \in Nat \ {0}
  BY <1>2 DEF Fields, VectorsAssumption
<1>4. CASE vec[v].data = Null
  <2>1. vec[v] = Empty /\ Elements(v) = << >>
    BY <1>2, <1>4 DEF HeldBy, Elements
  <2>2. vec[v].size = 0 /\ vec[v].capacity = 0
    BY <2>1 DEF Empty
  <2> QED  BY <1>3, <2>1, <2>2 DEF VectorsInv
<1>5. CASE vec[v].data # Null
  <2>1. /\ vec[v].data \in DOMAIN heap /\ Len(heap[vec[v].data]) = vec[v].size
        /\ vec[v].size <= vec[v].capacity
    BY <1>2, <1>5 DEF HeldBy
  <2>2. heap[vec[v].data] \in Seq(Element)
    BY <1>1, <2>1 DEF Owned
  <2> QED  BY <1>3, <1>5, <2>1, <2>2 DEF VectorsInv, Elements
<1> QED  BY <1>4, <1>5

\* A step that concerns v only.
LEMMA OneKept ==
    ASSUME VectorsInv, NEW v \in Vec, BlocksOwned', Spared(v), NEW t,
           kept' = [kept EXCEPT ![v] = t], t = Tally(Elements(v)')
    PROVE  VectorsInv'
<1>1. kept = [w \in Vec |-> Tally(Elements(w))]
  BY DEF VectorsInv
<1>2. \A w \in Vec : w # v => Elements(w)' = Elements(w)
  BY DEF Spared
<1>3. kept' = [w \in Vec |-> IF w = v THEN t ELSE Tally(Elements(w))]
  BY <1>1
<1>4. \A w \in Vec : (IF w = v THEN t ELSE Tally(Elements(w))) = Tally(Elements(w)')
  BY <1>2
<1>5. kept' = [w \in Vec |-> Tally(Elements(w)')]
  BY ONLY <1>3, <1>4
<1>6. (kept = [w \in Vec |-> Tally(Elements(w))])'
  BY ONLY <1>5 DEF Tally, Element
<1> QED  BY <1>6 DEF VectorsInv

\* Elements stored in v, with the tally they make.
LEMMA StoredKept ==
    ASSUME VectorsAssumption, VectorsInv, NEW v \in Vec, NEW s \in Seq(Element),
           NEW c \in 0 .. 2 * MaxSize, Len(s) <= MaxSize, Len(s) <= c, Store(v, s, c),
           kept' = [kept EXCEPT ![v] = Tally(s)]
    PROVE  VectorsInv'
<1>1. BlocksOwned
  BY DEF VectorsInv
<1>2. BlocksOwned' /\ Elements(v)' = s /\ Spared(v)
  BY <1>1, Stored
<1> QED  BY <1>2, OneKept

\* The capacity push_back leaves is enough.
LEMMA RoomEnough ==
    ASSUME VectorsAssumption, VectorsInv, NEW v \in Vec, vec[v].size < MaxSize
    PROVE  Room(v) \in 0 .. 2 * MaxSize /\ vec[v].size + 1 <= Room(v)
<1>1. PICK n, c : n = vec[v].size /\ c = vec[v].capacity
  OBVIOUS
<1>2. n \in 0 .. MaxSize /\ n <= c /\ c \in 0 .. 2 * MaxSize /\ MaxSize \in Nat \ {0} /\ n < MaxSize
  BY <1>1, VectorFacts
<1>3. Room(v) = IF ~(n >= c) THEN c ELSE IF c = 0 THEN 1 ELSE 2 * c
  BY <1>1 DEF Room, Full
<1> QED  BY ONLY <1>1, <1>2, <1>3

\* push_back.
LEMMA PushBackKeeps ==
    ASSUME VectorsAssumption, VectorsInv, NEW v \in Vec, NEW x \in Element, vec[v].size < MaxSize,
           Store(v, Append(Elements(v), x), Room(v)), kept' = [kept EXCEPT ![v] = Gaining(@, x, 1)]
    PROVE  VectorsInv'
<1>1. PICK s, t : s = Elements(v) /\ t = Append(s, x)
  OBVIOUS
<1>2. s \in Seq(Element) /\ Len(s) = vec[v].size /\ MaxSize \in Nat
      /\ vec[v].size \in 0 .. MaxSize /\ kept[v] = Tally(s)
  BY <1>1, VectorFacts
<1>3. t \in Seq(Element) /\ Len(t) = vec[v].size + 1
  BY <1>1, <1>2
<1>4. Len(t) <= MaxSize /\ Len(t) <= Room(v) /\ Room(v) \in 0 .. 2 * MaxSize
  BY <1>2, <1>3, RoomEnough
<1>5. Tally(t) = Gaining(Tally(s), x, 1)
  BY ONLY x \in Element, <1>1, <1>2, TallyAppend
<1>6. kept' = [kept EXCEPT ![v] = Tally(t)]
  BY <1>2, <1>5 DEF VectorsInv
<1>7. Store(v, t, Room(v))
  BY <1>1
<1> QED  BY ONLY VectorsAssumption, VectorsInv, v \in Vec, <1>3, <1>4, <1>6, <1>7, StoredKept

\* What keeps the capacity.
LEMMA SameCapacityKept ==
    ASSUME VectorsAssumption, VectorsInv, NEW v \in Vec, NEW t \in Seq(Element),
           Len(t) <= Len(Elements(v)), Store(v, t, vec[v].capacity),
           kept' = [kept EXCEPT ![v] = Tally(t)]
    PROVE  VectorsInv'
<1>1. PICK c : c = vec[v].capacity
  OBVIOUS
<1>2. /\ Len(Elements(v)) = vec[v].size /\ vec[v].size \in 0 .. MaxSize /\ vec[v].size <= c
      /\ c \in 0 .. 2 * MaxSize /\ MaxSize \in Nat
  BY <1>1, VectorFacts
<1>3. Len(t) <= MaxSize /\ Len(t) <= c
  BY <1>2
<1>4. Store(v, t, c)
  BY <1>1
<1> QED  BY <1>2, <1>3, <1>4, StoredKept

\* erase.
LEMMA EraseKeeps ==
    ASSUME VectorsAssumption, VectorsInv, NEW v \in Vec, NEW i \in DOMAIN Elements(v), Erase(v, i)
    PROVE  VectorsInv'
<1>1. PICK s, t : s = Elements(v) /\ t = Filled(s, i)
  OBVIOUS
<1>2. s \in Seq(Element) /\ kept[v] = Tally(s) /\ i \in DOMAIN s
  BY <1>1, VectorFacts
<1>3. t \in Seq(Element) /\ Len(t) = Len(s) - 1 /\ Tally(t) = Losing(Tally(s), s[i])
  BY ONLY <1>1, <1>2, TallyFilled
<1>4. Len(t) <= Len(Elements(v))
  BY <1>1, <1>2, <1>3
<1>5. kept' = [kept EXCEPT ![v] = Tally(t)]
  <2>1. kept' = [kept EXCEPT ![v] = Losing(@, s[i])]
    BY <1>1 DEF Erase
  <2> QED  BY <1>2, <1>3, <2>1 DEF VectorsInv
<1>6. Store(v, t, vec[v].capacity)
  BY <1>1 DEF Erase
<1> QED  BY ONLY VectorsAssumption, VectorsInv, v \in Vec, <1>3, <1>4, <1>5, <1>6, SameCapacityKept

\* remove.
LEMMA RemoveKeeps ==
    ASSUME VectorsAssumption, VectorsInv, NEW v \in Vec, NEW x, RemoveValue(v, x)
    PROVE  VectorsInv'
<1>1. PICK s, i, t : s = Elements(v) /\ i = FirstAt(s, x) /\ t = Filled(s, i)
  OBVIOUS
<1>2. s \in Seq(Element) /\ kept[v] = Tally(s) /\ x \in Range(s)
  BY <1>1, VectorFacts DEF RemoveValue, Has
<1>3. i \in DOMAIN s /\ s[i] = x
  BY <1>1, <1>2, FirstPlace
<1>4. t \in Seq(Element) /\ Len(t) = Len(s) - 1 /\ Tally(t) = Losing(Tally(s), s[i])
  BY ONLY <1>1, <1>2, <1>3, TallyFilled
<1>5. Len(t) <= Len(Elements(v))
  BY <1>1, <1>2, <1>4
<1>6. kept' = [kept EXCEPT ![v] = Tally(t)]
  <2>1. kept' = [kept EXCEPT ![v] = Losing(@, x)]
    BY DEF RemoveValue
  <2> QED  BY <1>2, <1>3, <1>4, <2>1 DEF VectorsInv
<1>7. Store(v, t, vec[v].capacity)
  BY <1>1 DEF RemoveValue, FirstAt
<1> QED  BY ONLY VectorsAssumption, VectorsInv, v \in Vec, <1>4, <1>5, <1>6, <1>7, SameCapacityKept

\* replace.
LEMMA ReplaceKeeps ==
    ASSUME VectorsAssumption, VectorsInv, NEW v \in Vec, NEW x, NEW y \in Element, Replace(v, x, y)
    PROVE  VectorsInv'
<1>1. PICK s, i, t : s = Elements(v) /\ i = FirstAt(s, x) /\ t = ReplaceAt(s, i, y)
  OBVIOUS
<1>2. s \in Seq(Element) /\ kept[v] = Tally(s) /\ x \in Range(s)
  BY <1>1, VectorFacts DEF Replace, Has
<1>3. i \in DOMAIN s /\ s[i] = x
  BY <1>1, <1>2, FirstPlace
<1>4. t \in Seq(Element) /\ Len(t) = Len(s) /\ Tally(t) = Gaining(Losing(Tally(s), s[i]), y, 1)
  BY ONLY y \in Element, <1>1, <1>2, <1>3, TallyReplaced
<1>5. Len(t) <= Len(Elements(v))
  BY <1>1, <1>2, <1>4
<1>6. kept' = [kept EXCEPT ![v] = Tally(t)]
  <2>1. kept' = [kept EXCEPT ![v] = Gaining(Losing(@, x), y, 1)]
    BY DEF Replace
  <2> QED  BY <1>2, <1>3, <1>4, <2>1 DEF VectorsInv
<1>7. Store(v, t, vec[v].capacity)
  BY <1>1 DEF Replace, FirstAt
<1> QED  BY ONLY VectorsAssumption, VectorsInv, v \in Vec, <1>4, <1>5, <1>6, <1>7, SameCapacityKept

\* pop_back.
LEMMA PopBackKeeps ==
    ASSUME VectorsAssumption, VectorsInv, NEW v \in Vec, PopBack(v)
    PROVE  VectorsInv'
<1>1. PICK s, t : s = Elements(v) /\ t = Front(s)
  OBVIOUS
<1>2. s \in Seq(Element) /\ kept[v] = Tally(s) /\ Len(s) = vec[v].size /\ vec[v].size > 0
  BY <1>1, VectorFacts DEF PopBack
<1>3. s # << >>
  BY <1>2
<1>4. t \in Seq(Element) /\ Len(t) = Len(s) - 1 /\ Tally(t) = Losing(Tally(s), Last(s))
  BY ONLY <1>1, <1>2, <1>3, TallyFront
<1>5. Len(t) <= Len(Elements(v))
  BY <1>1, <1>2, <1>4
<1>6. kept' = [kept EXCEPT ![v] = Tally(t)]
  <2>1. kept' = [kept EXCEPT ![v] = Losing(@, Last(s))]
    BY <1>1 DEF PopBack
  <2> QED  BY <1>2, <1>4, <2>1 DEF VectorsInv
<1>7. Store(v, t, vec[v].capacity)
  BY <1>1 DEF PopBack
<1> QED  BY ONLY VectorsAssumption, VectorsInv, v \in Vec, <1>4, <1>5, <1>6, <1>7, SameCapacityKept

\* resize.
LEMMA ResizeKeeps ==
    ASSUME VectorsAssumption, VectorsInv, NEW v \in Vec, NEW n \in 0 .. MaxSize, NEW x \in Element,
           Resize(v, n, x)
    PROVE  VectorsInv'
<1>1. PICK s, t, c : /\ s = Elements(v) /\ c = Max({n, vec[v].capacity})
                     /\ t = [j \in 1 .. n |-> IF j <= Len(s) THEN s[j] ELSE x]
  OBVIOUS
<1>2. /\ s \in Seq(Element) /\ kept[v] = Tally(s) /\ Len(s) = vec[v].size
      /\ vec[v].capacity \in 0 .. 2 * MaxSize /\ MaxSize \in Nat \ {0} /\ n \in Nat
      /\ vec[v].size <= vec[v].capacity
  <2>1. MaxSize \in Nat
    BY DEF VectorsAssumption
  <2>2. n \in Nat
    BY <2>1
  <2> QED  BY <1>1, <2>2, VectorFacts
<1>3. t \in Seq(Element) /\ Len(t) = n
  <2>1. \A j \in 1 .. n : (IF j <= Len(s) THEN s[j] ELSE x) \in Element
    BY <1>2
  <2>2. t \in [1 .. n -> Element]
    BY <1>1, <2>1
  <2> QED  BY <1>2, <2>2
<1>4. c \in 0 .. 2 * MaxSize /\ n <= c
  <2>1. PICK k \in Nat : k = vec[v].capacity /\ k <= 2 * MaxSize
    BY <1>2
  <2>2. \E z \in {n, k} : \A y \in {n, k} : z >= y
    <3>1. n >= k \/ k >= n
      BY <1>2
    <3> QED  BY <1>2, <3>1
  <2>3. c = CHOOSE z \in {n, k} : \A y \in {n, k} : z >= y
    BY <1>1, <2>1 DEF Max
  <2>4. c \in {n, k} /\ \A y \in {n, k} : c >= y
    BY <2>2, <2>3
  <2> QED  BY <1>2, <2>1, <2>4
<1>5. Store(v, t, c)
  BY <1>1 DEF Resize
<1>6. kept' = [kept EXCEPT ![v] = IF n < Len(s) THEN Tally(SubSeq(s, 1, n))
                                  ELSE Gaining(@, x, n - Len(s))]
  BY <1>1 DEF Resize
<1>7. kept' = [kept EXCEPT ![v] = Tally(t)]
  <2>1. CASE n < Len(s)
    <3>1. SubSeq(s, 1, n) = t
      BY <1>1, <1>2, <2>1
    <3> QED  BY <1>6, <2>1, <3>1
  <2>2. CASE ~(n < Len(s))
    <3>1. Len(s) <= n
      BY <1>2, <2>2
    <3>2. Tally(t) = Gaining(Tally(s), x, n - Len(s))
      BY <1>1, <1>2, <3>1, TallyExtended
    <3>3. kept' = [kept EXCEPT ![v] = Gaining(@, x, n - Len(s))]
      BY <1>6, <2>2
    <3> QED  BY <1>2, <3>2, <3>3 DEF VectorsInv
  <2> QED  BY <2>1, <2>2
<1>8. Len(t) <= MaxSize /\ Len(t) <= c
  BY <1>2, <1>3, <1>4
<1> QED  BY ONLY VectorsAssumption, VectorsInv, v \in Vec, <1>3, <1>4, <1>5, <1>7, <1>8, StoredKept

\* free, and the copy of another vector.
LEMMA FreeKeeps ==
    ASSUME VectorsAssumption, VectorsInv, NEW v \in Vec, Free(v)
    PROVE  VectorsInv'
<1>1. BlocksOwned' /\ Elements(v)' = << >> /\ Spared(v)
  BY Freed DEF VectorsInv
<1>2. kept' = [kept EXCEPT ![v] = Tally(<< >>)]
  BY DEF Free
<1> QED  BY <1>1, <1>2, OneKept

\* The copy of another vector.
LEMMA CopyKeeps ==
    ASSUME VectorsAssumption, VectorsInv, NEW v \in Vec, NEW w \in Vec, Copy(v, w)
    PROVE  VectorsInv'
<1>1. BlocksOwned' /\ Elements(v)' = Elements(w) /\ Spared(v)
  BY Copied DEF VectorsInv
<1>2. kept' = [kept EXCEPT ![v] = kept[w]]
  BY DEF Copy
<1>3. kept[w] = Tally(Elements(w))
  BY DEF VectorsInv
<1>4. kept[w] = Tally(Elements(v)')
  BY ONLY <1>1, <1>3
<1> QED  BY ONLY VectorsInv, v \in Vec, <1>1, <1>2, <1>4, OneKept

\* The move of one.
LEMMA MoveKeeps ==
    ASSUME VectorsAssumption, VectorsInv, NEW v \in Vec, NEW w \in Vec, Move(v, w)
    PROVE  VectorsInv'
<1>1. /\ BlocksOwned' /\ Elements(v)' = Elements(w) /\ Elements(w)' = << >>
      /\ \A u \in Vec : u # v /\ u # w => Elements(u)' = Elements(u)
  BY Moved DEF VectorsInv
<1>2. v # w /\ kept' = [kept EXCEPT ![v] = kept[w], ![w] = Tally(<< >>)]
  BY DEF Move
<1>3. kept = [u \in Vec |-> Tally(Elements(u))]
  BY DEF VectorsInv
<1>4. kept' = [u \in Vec |-> IF u = w THEN Tally(<< >>)
                             ELSE IF u = v THEN kept[w] ELSE Tally(Elements(u))]
  BY ONLY <1>2, <1>3
<1>5. \A u \in Vec : Tally(Elements(u)') = IF u = w THEN Tally(<< >>)
                                           ELSE IF u = v THEN kept[w] ELSE Tally(Elements(u))
  BY <1>1, <1>3
<1>6. kept' = [u \in Vec |-> Tally(Elements(u)')]
  BY ONLY <1>4, <1>5
<1>7. (kept = [u \in Vec |-> Tally(Elements(u))])'
  BY ONLY <1>6 DEF Tally, Element
<1> QED  BY <1>1, <1>7 DEF VectorsInv

\* At first there is nothing.
LEMMA VectorsInitInv ==
    ASSUME VectorsAssumption, VectorsInit
    PROVE  VectorsInv
<1>1. vec = [v \in Vec |-> Empty] /\ heap = << >> /\ kept = [v \in Vec |-> Tally(<< >>)]
  BY DEF VectorsInit
<1>2. Empty \in Fields /\ Empty.data = Null
  BY DEF VectorsAssumption, Empty, Fields
<1>3. DOMAIN heap = {}
  BY <1>1
<1>4. Owned(vec, heap)
  <2>1. vec \in [Vec -> Fields] /\ \A v \in Vec : vec[v] = Empty
    BY <1>1, <1>2
  <2> QED  BY <1>2, <1>3, <2>1 DEF Owned, HeldBy
<1>5. \A v \in Vec : Elements(v) = << >>
  BY <1>1, <1>2 DEF Elements
<1> QED  BY <1>1, <1>4, <1>5, OwnedIsBlocksOwned DEF SameThing, VectorsInv

\* Every step keeps that.
LEMMA VectorsStep ==
    ASSUME VectorsAssumption, VectorsInv, [VectorsNext]_vectorVars
    PROVE  VectorsInv'
<1>1. \A x \in Item : x \in Element
  BY DEF Element
<1>2. ASSUME NEW v \in Vec, ChangeVector(v) PROVE VectorsInv'
  <2>1. ASSUME NEW x \in Item, PushBack(v, x) PROVE VectorsInv'
    BY <1>1, <2>1, PushBackKeeps DEF PushBack
  <2>2. ASSUME NEW x \in Item, RemoveValue(v, x) PROVE VectorsInv'
    BY <2>2, RemoveKeeps
  <2>3. ASSUME NEW x \in Item, NEW y \in Item, Replace(v, x, y) PROVE VectorsInv'
    BY <1>1, <2>3, ReplaceKeeps
  <2>4. ASSUME NEW i \in DOMAIN Elements(v), Erase(v, i) PROVE VectorsInv'
    BY <2>4, EraseKeeps
  <2>5. ASSUME NEW n \in 0 .. MaxSize, NEW x \in Element, Resize(v, n, x) PROVE VectorsInv'
    BY <2>5, ResizeKeeps
  <2>6. ASSUME PopBack(v) PROVE VectorsInv'
    BY <2>6, PopBackKeeps
  <2>7. ASSUME Free(v) PROVE VectorsInv'
    BY <2>7, FreeKeeps
  <2>8. ASSUME NEW w \in Vec, Copy(v, w) PROVE VectorsInv'
    BY <2>8, CopyKeeps
  <2>9. ASSUME NEW w \in Vec, Move(v, w) PROVE VectorsInv'
    BY <2>9, MoveKeeps
  <2> QED  BY ONLY <1>2, <2>1, <2>2, <2>3, <2>4, <2>5, <2>6, <2>7, <2>8, <2>9 DEF ChangeVector
<1>3. ASSUME NEW v \in Vec, NEW i \in DOMAIN Elements(v), ~Full(v), PushOwn(v, i)
      PROVE  VectorsInv'
  <2>1. PICK x : x = Elements(v)[i] /\ x \in Element
    <3>1. Elements(v) \in Seq(Element)
      BY VectorFacts
    <3> QED  BY <1>3, <3>1
  <2>2. /\ vec[v].size < MaxSize /\ Store(v, Append(Elements(v), x), Room(v))
        /\ kept' = [kept EXCEPT ![v] = Gaining(@, x, 1)]
    BY <1>3, <2>1 DEF PushOwn
  <2> QED  BY <2>1, <2>2, PushBackKeeps
<1>4. CASE UNCHANGED vectorVars
  <2>1. vec' = vec /\ heap' = heap /\ kept' = kept
    BY <1>4 DEF vectorVars
  <2>2. \A v : Elements(v)' = Elements(v)
    BY <2>1 DEF Elements
  <2>3. BlocksOwned'
    BY <2>1 DEF VectorsInv, BlocksOwned, VectorsTypeOK
  <2>4. kept' = [v \in Vec |-> Tally(Elements(v)')]
    BY <2>1, <2>2 DEF VectorsInv
  <2>5. (kept = [v \in Vec |-> Tally(Elements(v))])'
    BY ONLY <2>4 DEF Tally, Element
  <2> QED  BY <2>3, <2>5 DEF VectorsInv
<1> QED  BY <1>2, <1>3, <1>4 DEF VectorsNext

\* The invariant holds.
LEMMA VectorsInvariance ==
    ASSUME VectorsAssumption
    PROVE  VectorsSpec => []VectorsInv
<1>1. VectorsInit => VectorsInv
  BY VectorsInitInv
<1>2. VectorsInv /\ [VectorsNext]_vectorVars => VectorsInv'
  BY VectorsStep
<1> QED  BY <1>1, <1>2, PTL DEF VectorsSpec

\* EcsVec: however vectors are copied, moved, assigned, resized and freed, each has a block to
\* itself that is as large as it says, and no block is left without an owner.
THEOREM BlocksHaveOwners ==
    ASSUME VectorsAssumption
    PROVE  VectorsSpec => []BlocksOwned
<1>1. VectorsInv => BlocksOwned
  BY DEF VectorsInv
<1> QED  BY <1>1, VectorsInvariance, PTL

\* EcsVec: a vector has the elements it was given, each as often as it was, whatever erase,
\* remove and replace have reordered and growing has moved.
THEOREM ContentsAreKept ==
    ASSUME VectorsAssumption
    PROVE  VectorsSpec => []ContentsKept
<1>1. VectorsInv => ContentsKept
  BY DEF VectorsInv, ContentsKept
<1> QED  BY <1>1, VectorsInvariance, PTL

-----------------------------------------------------------------------------
(* Listeners of entities *)

\* What a table has for event e.
Entered(table, e) == IF IsRegistered(table, e) THEN table.dense[e + 1] ELSE NoCallback

\* A table: whatever bit is set, the entry is there.
IsTable(table) ==
    /\ table \in [dense : Seq(Callback \cup {NoCallback}), bits : Seq(SUBSET Nat)]
    /\ \A k \in Nat : IsRegistered(table, k) => k + 1 <= Len(table.dense)

\* The larger of two numbers.
LEMMA Larger ==
    ASSUME NEW n \in Nat, NEW k \in Nat
    PROVE  Max({n, k}) = IF n >= k THEN n ELSE k
<1>1. \E z \in {n, k} : \A y \in {n, k} : z >= y
  <2>1. n >= k \/ k >= n
    OBVIOUS
  <2> QED  BY <2>1
<1>2. PICK m : m = CHOOSE z \in {n, k} : \A y \in {n, k} : z >= y
  OBVIOUS
<1>3. m \in {n, k} /\ \A y \in {n, k} : m >= y
  BY <1>1, <1>2
<1>4. Max({n, k}) = m
  BY <1>2 DEF Max
<1> QED  BY <1>3, <1>4

\* t is s, grown to n entries with x.
AfterResize(T, s, n, x, t) ==
    /\ t \in Seq(T) /\ Len(t) \in Nat /\ n <= Len(t) /\ Len(s) <= Len(t)
    /\ \A j \in 1 .. Len(t) : t[j] = IF j <= Len(s) THEN s[j] ELSE x

\* An array grown to n entries.
LEMMA ResizedProperties ==
    ASSUME NEW T, NEW s \in Seq(T), NEW n \in Nat, NEW x \in T, NEW t, t = Resized(s, n, x)
    PROVE  AfterResize(T, s, n, x, t)
<1>1. PICK k \in Nat : k = Len(s)
  OBVIOUS
<1>2. PICK m \in Nat : m = Max({n, k}) /\ m = IF n >= k THEN n ELSE k
  BY Larger
<1>3. t = [j \in 1 .. m |-> IF j <= k THEN s[j] ELSE x]
  BY <1>1, <1>2 DEF Resized
<1>4. \A j \in 1 .. m : (IF j <= k THEN s[j] ELSE x) \in T
  BY <1>1
<1>5. t \in [1 .. m -> T]
  BY <1>3, <1>4
<1>6. t \in Seq(T) /\ Len(t) = m
  BY <1>5
<1> QED  BY <1>1, <1>2, <1>3, <1>6 DEF AfterResize

\* Quotient and remainder.
LEMMA Division ==
    ASSUME NEW k \in Int, NEW W \in Int, W > 0, NEW q \in Int, NEW r \in Int,
           q = k \div W, r = k % W
    PROVE  k = q * W + r
BY SMT

\* Numbers with the same quotient and the same remainder are the same.
LEMMA SameDivision ==
    ASSUME NEW k \in Int, NEW n \in Int, NEW W \in Int, W > 0,
           k \div W = n \div W, k % W = n % W
    PROVE  k = n
<1>1. PICK q, r : q = k \div W /\ r = k % W /\ q \in Int /\ r \in Int
  OBVIOUS
<1>2. q = n \div W /\ r = n % W
  BY <1>1
<1>3. k = q * W + r
  BY <1>1, Division
<1>4. n = q * W + r
  <2>1. W > 0
    OBVIOUS
  <2> QED  BY ONLY n \in Int, W \in Int, <1>1, <1>2, <2>1, Division
<1> QED  BY ONLY <1>3, <1>4

\* An event type is the bit it has in its word.
LEMMA BitIsEvent ==
    ASSUME EntityEventsAssumption, NEW k \in Nat, NEW key \in Nat,
           Word(k) = Word(key), k % WordBits = key % WordBits
    PROVE  k = key
<1>1. PICK W \in Int : W = WordBits /\ W > 0
  BY DEF EntityEventsAssumption
<1>2. k \div W = key \div W
  <2>1. k \div W \in Int /\ key \div W \in Int
    BY <1>1
  <2> QED  BY <1>1, <2>1 DEF Word
<1>3. k % W = key % W /\ k \in Int /\ key \in Int
  BY <1>1
<1> QED  BY ONLY W \in Int, <1>1, <1>2, <1>3, SameDivision

\* The word of an event type is a position.
LEMMA WordIsPosition ==
    ASSUME EntityEventsAssumption, NEW k \in Nat
    PROVE  Word(k) \in Nat \ {0} /\ k % WordBits \in Nat
<1>1. WordBits \in Nat \ {0}
  BY DEF EntityEventsAssumption
<1>2. k \div WordBits \in Nat /\ k % WordBits \in Nat
  BY <1>1
<1> QED  BY <1>2 DEF Word

\* What is so of a table in which x was registered for key.
AfterRegister(table, key, x, new) ==
    /\ IsTable(new)
    /\ \A e \in Nat : Entered(new, e) = IF e = key THEN x ELSE Entered(table, e)

\* Registering an element enters it, and leaves all others.
LEMMA RegisterEnters ==
    ASSUME EntityEventsAssumption, NEW table, IsTable(table), NEW key \in Nat, NEW x \in Callback,
           NEW new, new = RegisterElement(table, key, x)
    PROVE  AfterRegister(table, key, x, new)
<1>0. PICK C, B : C = Callback \cup {NoCallback} /\ B = SUBSET Nat
  OBVIOUS
<1>1. /\ table.dense \in Seq(C) /\ table.bits \in Seq(B)
      /\ \A k \in Nat : IsRegistered(table, k) => k + 1 <= Len(table.dense)
  BY <1>0 DEF IsTable
<1>2. PICK d, b, w, p : /\ d = Resized(table.dense, key + 1, NoCallback)
                        /\ b = Resized(table.bits, Word(key), {})
                        /\ w = Word(key) /\ p = key % WordBits
  OBVIOUS
<1>3. w \in Nat \ {0} /\ p \in Nat
  BY <1>2, WordIsPosition
<1>4. new = [dense |-> [d EXCEPT ![key + 1] = x], bits |-> [b EXCEPT ![w] = @ \cup {p}]]
  BY <1>2 DEF RegisterElement
<1>5. /\ d \in Seq(C) /\ Len(d) \in Nat /\ key + 1 <= Len(d) /\ Len(table.dense) <= Len(d)
      /\ \A j \in 1 .. Len(d) : d[j] = IF j <= Len(table.dense) THEN table.dense[j] ELSE NoCallback
  <2>1. PICK n \in Nat : n = key + 1
    OBVIOUS
  <2>2. PICK s, y : s = table.dense /\ y = NoCallback /\ s \in Seq(C) /\ y \in C
    BY <1>0, <1>1
  <2>3. d = Resized(s, n, y)
    BY <1>2, <2>1, <2>2
  <2>4. AfterResize(C, s, n, y, d)
    BY ONLY <2>1, <2>2, <2>3, ResizedProperties
  <2> QED  BY ONLY <2>1, <2>2, <2>4 DEF AfterResize
<1>6. /\ b \in Seq(B) /\ Len(b) \in Nat /\ w <= Len(b) /\ Len(table.bits) <= Len(b)
      /\ \A j \in 1 .. Len(b) : b[j] = IF j <= Len(table.bits) THEN table.bits[j] ELSE {}
  <2>1. PICK s, y : s = table.bits /\ y = {} /\ s \in Seq(B) /\ y \in B
    <3>1. {} \in B
      BY <1>0
    <3> QED  BY <1>1, <3>1
  <2>2. b = Resized(s, w, y) /\ w \in Nat
    BY <1>2, <1>3, <2>1
  <2>3. AfterResize(B, s, w, y, b)
    BY ONLY <2>1, <2>2, ResizedProperties
  <2> QED  BY ONLY <2>1, <2>3 DEF AfterResize
<1>7. PICK nd, nb : nd = new.dense /\ nb = new.bits
  OBVIOUS
<1>8. /\ nd \in Seq(C) /\ Len(nd) = Len(d) /\ nd[key + 1] = x
      /\ \A j \in 1 .. Len(d) : j # key + 1 => nd[j] = d[j]
  <2>1. nd = [d EXCEPT ![key + 1] = x]
    BY <1>4, <1>7
  <2>2. key + 1 \in 1 .. Len(d) /\ DOMAIN d = 1 .. Len(d)
    BY <1>5
  <2>3. x \in C
    BY <1>0
  <2> QED  BY <1>5, <2>1, <2>2, <2>3
<1>9. /\ nb \in Seq(B) /\ Len(nb) = Len(b) /\ nb[w] = b[w] \cup {p}
      /\ \A j \in 1 .. Len(b) : j # w => nb[j] = b[j]
  <2>1. nb = [b EXCEPT ![w] = b[w] \cup {p}]
    BY <1>4, <1>7
  <2>2. w \in 1 .. Len(b) /\ DOMAIN b = 1 .. Len(b)
    BY <1>3, <1>6
  <2>3. b[w] \cup {p} \in B
    BY <1>0, <1>3, <1>6, <2>2
  <2> QED  BY <1>6, <2>1, <2>2, <2>3
<1>10. ASSUME NEW k \in Nat
       PROVE  IsRegistered(new, k) <=> k = key \/ IsRegistered(table, k)
  <2>1. PICK v, q : v = Word(k) /\ q = k % WordBits /\ v \in Nat \ {0} /\ q \in Nat
    BY WordIsPosition
  <2>2. IsRegistered(new, k) <=> v <= Len(b) /\ q \in nb[v]
    BY <1>7, <1>9, <2>1 DEF IsRegistered
  <2>3. IsRegistered(table, k) <=> v <= Len(table.bits) /\ q \in table.bits[v]
    BY <2>1 DEF IsRegistered
  <2>4. v <= Len(b) => v \in 1 .. Len(b)
    BY <1>6, <2>1
  <2>5. Len(table.bits) \in Nat
    BY <1>1
  <2>6. CASE k = key
    <3>1. v = w /\ q = p
      BY <1>2, <2>1, <2>6
    <3> QED  BY <1>6, <1>9, <2>2, <2>6, <3>1
  <2>7. CASE k # key
    <3>1. ~(v = w /\ q = p)
      BY <1>2, <2>1, <2>7, BitIsEvent
    <3>2. v <= Len(b) => (q \in nb[v] <=> q \in b[v])
      BY <1>9, <2>4, <3>1
    <3>3. v <= Len(b) => (q \in b[v] <=> v <= Len(table.bits) /\ q \in table.bits[v])
      BY <1>6, <2>4
    <3>4. v <= Len(table.bits) => v <= Len(b)
      BY <1>6, <2>1, <2>5
    <3> QED  BY ONLY <2>2, <2>3, <2>7, <3>2, <3>3, <3>4
  <2> QED  BY <2>6, <2>7
<1>11. IsTable(new)
  <2>1. new \in [dense : Seq(C), bits : Seq(B)]
    BY <1>4, <1>7, <1>8, <1>9
  <2>2. ASSUME NEW k \in Nat, IsRegistered(new, k) PROVE k + 1 <= Len(new.dense)
    BY <1>1, <1>5, <1>7, <1>8, <1>10, <2>2
  <2> QED  BY <1>0, <2>1, <2>2 DEF IsTable
<1>12. ASSUME NEW e \in Nat
       PROVE  Entered(new, e) = IF e = key THEN x ELSE Entered(table, e)
  <2>1. CASE e = key
    BY <1>7, <1>8, <1>10, <2>1 DEF Entered
  <2>2. CASE e # key
    <3>1. CASE IsRegistered(table, e)
      <4>1. e + 1 <= Len(table.dense) /\ Len(table.dense) \in Nat
        BY <1>1, <3>1
      <4>2. e + 1 \in 1 .. Len(d) /\ e + 1 # key + 1
        BY <1>5, <2>2, <4>1
      <4>3. nd[e + 1] = table.dense[e + 1]
        BY <1>5, <1>8, <4>1, <4>2
      <4> QED  BY <1>7, <1>10, <2>2, <3>1, <4>3 DEF Entered
    <3>2. CASE ~IsRegistered(table, e)
      BY <1>10, <2>2, <3>2 DEF Entered
    <3> QED  BY <3>1, <3>2
  <2> QED  BY <2>1, <2>2
<1> QED  BY ONLY <1>11, <1>12 DEF AfterRegister

\* A new table has nothing.
LEMMA NewTableEmpty ==
    ASSUME EntityEventsAssumption
    PROVE  IsTable(NewTable) /\ \A e \in Nat : Entered(NewTable, e) = NoCallback
<1>1. NewTable.dense = << >> /\ NewTable.bits = << >> /\ Len(<< >>) = 0
      /\ NewTable = [dense |-> << >>, bits |-> << >>]
  BY DEF NewTable
<1>2. \A k \in Nat : ~IsRegistered(NewTable, k)
  BY <1>1, WordIsPosition DEF IsRegistered
<1>3. NewTable \in [dense : Seq(Callback \cup {NoCallback}), bits : Seq(SUBSET Nat)]
  BY <1>1
<1> QED  BY <1>2, <1>3 DEF IsTable, Entered

\* The tables that can be.
Whole == {table \in [dense : Seq(Callback \cup {NoCallback}), bits : Seq(SUBSET Nat)] : IsTable(table)}

\* Of a table in Whole, IsTable is all there is to say.
LEMMA WholeTables ==
    ASSUME NEW table
    PROVE  table \in Whole <=> IsTable(table)
BY DEF Whole, IsTable

\* No table of the storage lists anyone.
RowsEmpty == \A t \in TableType : rows[t] = << >>

\* An index stands for one live handle.
OneEach == \A g, h \in live : g.index = h.index => g = h

\* A table of listeners is that of one index, which a live handle has.
TablesHeld ==
    /\ \A i \in Index : listenersId[i] # NoListeners =>
          listenersId[i] < Len(entityListeners) /\ \E h \in live : h.index = i
    /\ \A i, k \in Index :
          listenersId[i] = listenersId[k] /\ listenersId[i] # NoListeners => i = k

\* Only the callbacks of live handles are wanted.
LiveWanted == \A h, e : <<h, e>> \in DOMAIN wanted => h \in live

\* The tables are whole and can be told from NoListeners by their numbers.
ListenersTyped ==
    /\ entityListeners \in Seq(Whole) /\ Len(entityListeners) <= NoListeners
    /\ listenersId \in [Index -> Nat]

\* The listeners of live entities are theirs.
ListenersInv ==
    /\ IInv /\ RowsEmpty
    /\ ListenersTyped /\ TablesHeld /\ LiveWanted
    /\ ListenersBelong

\* The accounting of indices gives each live handle an index of its own.
LEMMA EachItsIndex == IInv => OneEach
BY LiveUnique DEF OneEach

\* Without components there is no listed entity.
LEMMA NobodyListed ==
    ASSUME IInv, RowsEmpty, NEW h \in live
    PROVE  TypeOf(h) = RootType /\ ~Listed(h)
<1>1. TypeOf(h) \in TableType /\ RowOfEntity(h) \in Nat
  BY LiveProperties
<1>2. Len(rows[TypeOf(h)]) = 0
  BY <1>1 DEF RowsEmpty
<1>3. ~Listed(h)
  BY <1>1, <1>2 DEF Listed
<1> QED  BY <1>3 DEF IInv, LivePlaced

\* A destruction keeps to the contract of the storage.
LEMMA DestroysAsAgreed ==
    ASSUME IInv, RowsEmpty, NEW h \in live, h.generation < Generations - 1, DestroyEntity(h)
    PROVE  IInv' /\ RowsEmpty'
<1>1. TypeOf(h) = RootType /\ ~Listed(h)
  BY NobodyListed
<1>2. [ContractNext]_vars
  BY <1>1 DEF ContractNext, ContractDestroy
<1>3. rows' = rows
  BY <1>1 DEF DestroyEntity
<1> QED  BY <1>2, <1>3, InvariantStep DEF RowsEmpty

\* So does a creation.
LEMMA CreatesAsAgreed ==
    ASSUME IInv, RowsEmpty, CreateEntity
    PROVE  IInv' /\ RowsEmpty'
<1>1. [ContractNext]_vars
  BY DEF ContractNext
<1>2. rows' = rows
  BY DEF CreateEntity, NewIndex, RecycledIndex
<1> QED  BY <1>1, <1>2, InvariantStep DEF RowsEmpty

\* What an entity's table has for an event.
LEMMA RegisteredIsEntered ==
    ASSUME NEW h, NEW e
    PROVE  Registered(h, e) = IF listenersId[h.index] # NoListeners
                              THEN Entered(entityListeners[listenersId[h.index] + 1], e)
                              ELSE NoCallback
BY DEF Registered, Entered

\* At first nobody listens.
LEMMA ListenersInit ==
    ASSUME EntityEventsInit, EntityEventsAssumption
    PROVE  ListenersInv
<1>1. IInv
  BY InitInvariant DEF EntityEventsInit
<1>2. rows = [t \in TableType |-> << >>] /\ live = {}
  BY DEF EntityEventsInit, Init
<1>3. RowsEmpty
  BY <1>2 DEF RowsEmpty
<1>4. entityListeners = << >> /\ listenersId = [i \in Index |-> NoListeners] /\ wanted = << >>
  BY DEF EntityEventsInit
<1>5. ListenersTyped
  BY <1>4 DEF ListenersTyped, EntityEventsAssumption
<1>6. TablesHeld
  BY <1>4 DEF TablesHeld
<1>7. LiveWanted
  BY <1>4 DEF LiveWanted
<1>8. ListenersBelong
  BY <1>2 DEF ListenersBelong
<1> QED  BY <1>1, <1>3, <1>5, <1>6, <1>7, <1>8 DEF ListenersInv

\* An entity that is created has no table and nothing is wanted of it.
LEMMA CreateKeepsListeners ==
    ASSUME ListenersInv, Create
    PROVE  ListenersInv'
<1>1. CreateEntity /\ UNCHANGED <<entityListeners, listenersId, wanted>>
  BY DEF Create
<1>2. IInv' /\ RowsEmpty'
  BY <1>1, CreatesAsAgreed DEF ListenersInv
<1>3. OneEach'
  BY <1>2, EachItsIndex, PTL
<1>4. live \subseteq live'
  BY <1>1 DEF CreateEntity, NewIndex, RecycledIndex
<1>5. ListenersTyped' /\ TablesHeld' /\ LiveWanted'
  BY <1>1, <1>4 DEF ListenersInv, ListenersTyped, TablesHeld, LiveWanted
<1>6. ASSUME NEW h \in live', NEW e \in Event
      PROVE  Registered(h, e)' = IF <<h, e>> \in DOMAIN wanted' THEN wanted'[<<h, e>>]
                                 ELSE NoCallback
  <2>1. Registered(h, e)' = Registered(h, e)
    BY <1>1 DEF Registered
  <2>2. CASE h \in live
    BY <1>1, <2>1, <2>2 DEF ListenersInv, ListenersBelong
  <2>3. CASE h \notin live
    <3>1. <<h, e>> \notin DOMAIN wanted
      BY <2>3 DEF ListenersInv, LiveWanted
    <3>2. h.index \in Index
      <4>1. h \in Handle
        BY <1>2 DEF IInv, TypeOK
      <4> QED  BY <4>1 DEF Handle
    <3>3. listenersId[h.index] = NoListeners
      <4> SUFFICES ASSUME listenersId[h.index] # NoListeners PROVE FALSE
        OBVIOUS
      <4>1. PICK g \in live : g.index = h.index
        BY <3>2 DEF ListenersInv, TablesHeld
      <4> QED  BY <1>3, <1>4, <2>3, <4>1 DEF OneEach
    <3> QED  BY <1>1, <2>1, <3>1, <3>3, RegisteredIsEntered
  <2> QED  BY <2>2, <2>3
<1>7. ListenersBelong'
  BY <1>6 DEF ListenersBelong
<1> QED  BY <1>2, <1>5, <1>7 DEF ListenersInv

\* An entity without listeners leaves those of others when it is destroyed.
LEMMA DestroyKeepsListeners ==
    ASSUME ListenersInv, NEW h \in live, listenersId[h.index] = NoListeners,
           h.generation < Generations - 1, Destroy(h)
    PROVE  ListenersInv'
<1>1. /\ DestroyEntity(h) /\ UNCHANGED <<entityListeners, listenersId>>
      /\ wanted' = [k \in {w \in DOMAIN wanted : w[1] # h} |-> wanted[k]]
  BY DEF Destroy
<1>2. IInv' /\ RowsEmpty'
  BY <1>1, DestroysAsAgreed DEF ListenersInv
<1>3. live' = live \ {h}
  BY <1>1 DEF DestroyEntity
<1>4. OneEach
  BY EachItsIndex DEF ListenersInv
<1>5. ListenersTyped'
  BY <1>1 DEF ListenersInv, ListenersTyped
<1>6. TablesHeld'
  <2>1. ASSUME NEW i \in Index, listenersId[i] # NoListeners
        PROVE  \E g \in live' : g.index = i
    <3>1. PICK g \in live : g.index = i
      BY <2>1 DEF ListenersInv, TablesHeld
    <3>2. g # h
      BY <2>1, <3>1
    <3> QED  BY <1>3, <3>1, <3>2
  <2> QED  BY <1>1, <2>1 DEF ListenersInv, TablesHeld
<1>7. ASSUME NEW g, NEW e
      PROVE  /\ <<g, e>> \in DOMAIN wanted' <=> <<g, e>> \in DOMAIN wanted /\ g # h
             /\ <<g, e>> \in DOMAIN wanted' => wanted'[<<g, e>>] = wanted[<<g, e>>]
  <2>1. PICK k : k = <<g, e>>
    OBVIOUS
  <2>0. k[1] = g
    BY ONLY <2>1
  <2>2. k \in DOMAIN wanted' <=> k \in DOMAIN wanted /\ k[1] # h
    BY <1>1
  <2>3. k \in DOMAIN wanted' => wanted'[k] = wanted[k]
    BY <1>1
  <2> QED  BY <2>0, <2>1, <2>2, <2>3
<1>8. LiveWanted'
  BY <1>3, <1>7 DEF ListenersInv, LiveWanted
<1>9. ASSUME NEW g \in live', NEW e \in Event
      PROVE  Registered(g, e)' = IF <<g, e>> \in DOMAIN wanted' THEN wanted'[<<g, e>>]
                                 ELSE NoCallback
  <2>1. Registered(g, e)' = Registered(g, e)
    BY <1>1 DEF Registered
  <2>2. g \in live /\ g # h
    BY <1>3
  <2>3. Registered(g, e) = IF <<g, e>> \in DOMAIN wanted THEN wanted[<<g, e>>] ELSE NoCallback
    BY <2>2 DEF ListenersInv, ListenersBelong
  <2> QED  BY <1>7, <2>1, <2>2, <2>3
<1>10. ListenersBelong'
  BY <1>9 DEF ListenersBelong
<1> QED  BY <1>2, <1>5, <1>6, <1>8, <1>10 DEF ListenersInv

\* The tables among which h gets its listener, and which of them is its own: a
\* new one at the end if it had none.
OwnTable(h, tables, j) ==
    /\ tables \in Seq(Whole) /\ Len(tables) <= NoListeners
    /\ j \in 1 .. Len(tables) /\ j \in Nat
    /\ Len(entityListeners) <= Len(tables)
    /\ \A k \in 1 .. Len(entityListeners) : tables[k] = entityListeners[k]
    /\ \A e \in Event : Entered(tables[j], e) = Registered(h, e)
    /\ \A i \in Index : i # h.index => listenersId[i] # j - 1

\* What a listener of h for e changes.
Listens(h, e, f, tables, j) ==
    /\ entityListeners' = [tables EXCEPT ![j] = RegisterElement(tables[j], e, f)]
    /\ listenersId' = [listenersId EXCEPT ![h.index] = j - 1]
    /\ wanted' = [k \in DOMAIN wanted \cup {<<h, e>>} |->
                     IF k = <<h, e>> THEN f ELSE wanted[k]]
    /\ UNCHANGED vars

\* listen finds the entity's table or makes it one.
LEMMA ListenEffect ==
    ASSUME EntityEventsAssumption, ListenersInv, NEW h \in live,
           listenersId[h.index] # NoListeners \/ Len(entityListeners) < NoListeners,
           NEW e \in Event, NEW f \in Callback, ListenTo(h, e, f)
    PROVE  \E tables, j : OwnTable(h, tables, j) /\ Listens(h, e, f, tables, j)
<1>1. /\ entityListeners \in Seq(Whole) /\ Len(entityListeners) \in Nat
      /\ Len(entityListeners) <= NoListeners /\ NoListeners \in Nat \ {0}
      /\ listenersId \in [Index -> Nat]
  BY DEF ListenersInv, ListenersTyped, EntityEventsAssumption
<1>2. h.index \in Index
  <2>1. h \in Handle
    BY DEF ListenersInv, IInv, TypeOK
  <2> QED  BY <2>1 DEF Handle
<1>3. PICK n \in Nat : n = Len(entityListeners)
  BY <1>1
<1>4. PICK known \in Nat : known = listenersId[h.index]
  BY <1>1, <1>2
<1>5. CASE known # NoListeners
  <2>1. known < n
    BY <1>2, <1>3, <1>4, <1>5 DEF ListenersInv, TablesHeld
  <2>2. PICK j \in 1 .. n : j = known + 1
    BY <2>1
  <2>3. OwnTable(h, entityListeners, j)
    <3>1. \A k \in Event : Entered(entityListeners[j], k) = Registered(h, k)
      BY <1>4, <1>5, <2>2, RegisteredIsEntered
    <3>2. \A i \in Index : i # h.index => listenersId[i] # j - 1
      BY <1>2, <1>4, <1>5, <2>2 DEF ListenersInv, TablesHeld
    <3> QED  BY <1>1, <1>3, <3>1, <3>2 DEF OwnTable
  <2>4. Listens(h, e, f, entityListeners, j)
    <3>1. known = j - 1
      BY <2>2
    <3> QED  BY <1>4, <1>5, <2>2, <3>1 DEF ListenTo, Listens
  <2> QED  BY <2>3, <2>4
<1>6. CASE known = NoListeners
  <2>1. n < NoListeners
    BY <1>3, <1>4, <1>6
  <2>2. PICK j \in Nat : j = n + 1
    OBVIOUS
  <2>3. PICK tables : tables = Append(entityListeners, NewTable)
    OBVIOUS
  <2>4. NewTable \in Whole /\ \A k \in Event : Entered(NewTable, k) = NoCallback
    BY NewTableEmpty, WholeTables DEF EntityEventsAssumption
  <2>5. /\ tables \in Seq(Whole) /\ Len(tables) = j /\ tables[j] = NewTable
        /\ \A k \in 1 .. n : tables[k] = entityListeners[k]
    BY <1>1, <1>3, <2>2, <2>3, <2>4
  <2>6. OwnTable(h, tables, j)
    <3>1. \A k \in Event : Entered(tables[j], k) = Registered(h, k)
      BY <1>4, <1>6, <2>4, <2>5, RegisteredIsEntered
    <3>2. \A i \in Index : listenersId[i] # j - 1
      <4> SUFFICES ASSUME NEW i \in Index, listenersId[i] = j - 1 PROVE FALSE
        OBVIOUS
      <4>1. listenersId[i] = n /\ n # NoListeners
        BY <1>1, <2>1, <2>2
      <4> QED  BY <1>3, <4>1 DEF ListenersInv, TablesHeld
    <3> QED  BY <1>1, <1>3, <2>1, <2>2, <2>5, <3>1, <3>2 DEF OwnTable
  <2>7. Listens(h, e, f, tables, j)
    <3>1. (Len(tables) - 1) % (NoListeners + 1) = j - 1
      <4>1. Len(tables) - 1 = n /\ j - 1 = n
        BY <2>2, <2>5
      <4>2. PICK W \in Nat : W = NoListeners + 1
        BY <1>1
      <4>3. n < W /\ n \in Nat
        BY <1>1, <2>1, <4>2
      <4>4. n % W = n
        BY ONLY W \in Nat, <4>3
      <4> QED  BY <4>1, <4>2, <4>4
    <3> QED  BY <1>4, <1>6, <2>3, <2>5, <3>1 DEF ListenTo, Listens
  <2> QED  BY <2>6, <2>7
<1> QED  BY <1>5, <1>6

\* A listener is added to the table of its entity, for its event.
LEMMA ListenKeepsListeners ==
    ASSUME EntityEventsAssumption, ListenersInv, NEW h \in live,
           NEW e \in Event, NEW f \in Callback, NEW tables, NEW j,
           OwnTable(h, tables, j), Listens(h, e, f, tables, j)
    PROVE  ListenersInv'
<1>1. /\ tables \in Seq(Whole) /\ Len(tables) \in Nat /\ Len(tables) <= NoListeners
      /\ j \in 1 .. Len(tables) /\ j \in Nat
      /\ Len(entityListeners) \in Nat /\ Len(entityListeners) <= Len(tables)
      /\ \A k \in 1 .. Len(entityListeners) : tables[k] = entityListeners[k]
      /\ NoListeners \in Nat \ {0} /\ listenersId \in [Index -> Nat]
      /\ e \in Nat /\ Event \subseteq Nat
  <2>1. /\ tables \in Seq(Whole) /\ Len(tables) <= NoListeners
        /\ j \in 1 .. Len(tables) /\ j \in Nat
        /\ Len(entityListeners) <= Len(tables)
        /\ \A k \in 1 .. Len(entityListeners) : tables[k] = entityListeners[k]
    BY DEF OwnTable
  <2>2. entityListeners \in Seq(Whole) /\ listenersId \in [Index -> Nat]
    BY DEF ListenersInv, ListenersTyped
  <2>3. NoListeners \in Nat \ {0} /\ e \in Nat /\ Event \subseteq Nat
    BY DEF EntityEventsAssumption
  <2>4. Len(tables) \in Nat /\ Len(entityListeners) \in Nat
    BY ONLY <2>1, <2>2
  <2> QED  BY ONLY <2>1, <2>2, <2>3, <2>4
<1>2. \A k \in Event : Entered(tables[j], k) = Registered(h, k)
  BY DEF OwnTable
<1>3. \A i \in Index : i # h.index => listenersId[i] # j - 1
  BY DEF OwnTable
<1>4. PICK old, new : old = tables[j] /\ new = RegisterElement(old, e, f)
  OBVIOUS
<1>5. IsTable(new) /\ \A k \in Event : Entered(new, k) = IF k = e THEN f ELSE Registered(h, k)
  <2>1. IsTable(old)
    BY <1>1, <1>4, WholeTables
  <2>2. AfterRegister(old, e, f, new)
    BY ONLY EntityEventsAssumption, <1>1, <1>4, <2>1, f \in Callback, RegisterEnters
  <2> QED  BY <1>1, <1>2, <1>4, <2>2 DEF AfterRegister
<1>6. /\ entityListeners' \in Seq(Whole) /\ Len(entityListeners') = Len(tables)
      /\ entityListeners'[j] = new
      /\ \A k \in 1 .. Len(tables) : k # j => entityListeners'[k] = tables[k]
  <2>1. entityListeners' = [tables EXCEPT ![j] = new]
    BY <1>4 DEF Listens
  <2>2. new \in Whole
    BY <1>5, WholeTables
  <2>3. DOMAIN tables = 1 .. Len(tables)
    BY <1>1
  <2> QED  BY <1>1, <2>1, <2>2, <2>3
<1>7. h.index \in Index
  <2>1. h \in Handle
    BY DEF ListenersInv, IInv, TypeOK
  <2> QED  BY <2>1 DEF Handle
<1>8. /\ listenersId' \in [Index -> Nat] /\ listenersId'[h.index] = j - 1
      /\ \A i \in Index : i # h.index => listenersId'[i] = listenersId[i]
  <2>1. j - 1 \in Nat
    BY <1>1
  <2> QED  BY <1>1, <1>7, <2>1 DEF Listens
<1>9. UNCHANGED vars /\ live' = live /\ rows' = rows
  BY DEF Listens, vars
<1>10. IInv' /\ RowsEmpty'
  <2>1. [ContractNext]_vars
    BY <1>9
  <2> QED  BY <1>9, <2>1, InvariantStep DEF ListenersInv, RowsEmpty
<1>11. ListenersTyped'
  BY <1>1, <1>6, <1>8 DEF ListenersTyped
<1>12. TablesHeld'
  <2>1. ASSUME NEW i \in Index, listenersId'[i] # NoListeners
        PROVE  listenersId'[i] < Len(entityListeners') /\ \E g \in live' : g.index = i
    <3>1. CASE i = h.index
      BY <1>1, <1>6, <1>8, <1>9, <3>1
    <3>2. CASE i # h.index
      <4>1. listenersId'[i] = listenersId[i] /\ listenersId[i] \in Nat
        BY <1>1, <1>8, <3>2
      <4>2. listenersId[i] < Len(entityListeners) /\ \E g \in live : g.index = i
        BY <2>1, <4>1 DEF ListenersInv, TablesHeld
      <4> QED  BY <1>1, <1>6, <1>9, <4>1, <4>2
    <3> QED  BY <3>1, <3>2
  <2>2. ASSUME NEW i \in Index, NEW k \in Index,
               listenersId'[i] = listenersId'[k], listenersId'[i] # NoListeners
        PROVE  i = k
    BY <1>3, <1>8, <2>2 DEF ListenersInv, TablesHeld
  <2> QED  BY <2>1, <2>2 DEF TablesHeld
<1>13. ASSUME NEW g, NEW k
       PROVE  /\ <<g, k>> \in DOMAIN wanted' <=> <<g, k>> \in DOMAIN wanted \/ (g = h /\ k = e)
              /\ g = h /\ k = e => wanted'[<<g, k>>] = f
              /\ <<g, k>> \in DOMAIN wanted /\ ~(g = h /\ k = e) =>
                    wanted'[<<g, k>>] = wanted[<<g, k>>]
  <2>1. PICK y, x : y = <<g, k>> /\ x = <<h, e>>
    OBVIOUS
  <2>2. y = x <=> g = h /\ k = e
    BY ONLY <2>1
  <2>3. wanted' = [w \in DOMAIN wanted \cup {x} |-> IF w = x THEN f ELSE wanted[w]]
    BY <2>1 DEF Listens
  <2>4. y \in DOMAIN wanted' <=> y \in DOMAIN wanted \/ y = x
    BY ONLY <2>3
  <2>5. y = x => wanted'[y] = f
    BY ONLY <2>3
  <2>6. y \in DOMAIN wanted /\ y # x => wanted'[y] = wanted[y]
    BY ONLY <2>3
  <2> QED  BY ONLY <2>1, <2>2, <2>4, <2>5, <2>6
<1>14. LiveWanted'
  BY <1>9, <1>13 DEF ListenersInv, LiveWanted
<1>15. ASSUME NEW g \in live, NEW k \in Event
       PROVE  Registered(g, k)' = IF g = h /\ k = e THEN f ELSE Registered(g, k)
  <2>1. g.index \in Index
    <3>1. g \in Handle
      BY DEF ListenersInv, IInv, TypeOK
    <3> QED  BY <3>1 DEF Handle
  <2>2. Registered(g, k)' = IF listenersId'[g.index] # NoListeners
                            THEN Entered(entityListeners'[listenersId'[g.index] + 1], k)
                            ELSE NoCallback
    BY DEF Registered, Entered
  <2>3. CASE g = h
    <3>1. listenersId'[g.index] # NoListeners /\ listenersId'[g.index] + 1 = j
      BY <1>1, <1>8, <2>3
    <3>2. Registered(g, k)' = Entered(new, k)
      BY <1>6, <2>2, <3>1
    <3> QED  BY <1>5, <2>3, <3>2
  <2>4. CASE g # h
    <3>1. g.index # h.index
      BY <2>4, LiveUnique DEF ListenersInv
    <3>2. PICK m \in Nat : m = listenersId[g.index] /\ listenersId'[g.index] = m /\ m # j - 1
      BY <1>1, <1>3, <1>8, <2>1, <3>1
    <3>3. CASE m = NoListeners
      BY <2>2, <2>4, <3>2, <3>3, RegisteredIsEntered
    <3>4. CASE m # NoListeners
      <4>1. m < Len(entityListeners)
        BY <2>1, <3>2, <3>4 DEF ListenersInv, TablesHeld
      <4>2. PICK n \in Nat : n = m + 1 /\ n # j /\ n \in 1 .. Len(entityListeners)
        <5>1. m \in Nat /\ m # j - 1 /\ j \in Nat /\ Len(entityListeners) \in Nat
          BY <1>1, <3>2
        <5> QED  BY ONLY <4>1, <5>1
      <4>3. entityListeners'[n] = entityListeners[n]
        BY <1>1, <1>6, <4>2
      <4> QED  BY <2>2, <2>4, <3>2, <3>4, <4>2, <4>3, RegisteredIsEntered
    <3> QED  BY <3>3, <3>4
  <2> QED  BY <2>3, <2>4
<1>16. ListenersBelong'
  <2>1. ASSUME NEW g \in live', NEW k \in Event
        PROVE  Registered(g, k)' = IF <<g, k>> \in DOMAIN wanted' THEN wanted'[<<g, k>>]
                                   ELSE NoCallback
    <3>1. Registered(g, k) = IF <<g, k>> \in DOMAIN wanted THEN wanted[<<g, k>>]
                             ELSE NoCallback
      BY <1>9 DEF ListenersInv, ListenersBelong
    <3>2. g \in live
      BY <1>9
    <3> QED  BY <1>13, <1>15, <3>1, <3>2
  <2> QED  BY <2>1 DEF ListenersBelong
<1> QED  BY <1>10, <1>11, <1>12, <1>14, <1>16 DEF ListenersInv

\* The invariant of the listeners holds at first and after every step.
LEMMA ListenersStep ==
    ASSUME EntityEventsAssumption, ListenersInv, [EntityEventsNext]_entityEventVars
    PROVE  ListenersInv'
<1>1. CASE Create
  BY <1>1, CreateKeepsListeners
<1>2. ASSUME NEW h \in live, listenersId[h.index] = NoListeners,
             h.generation < Generations - 1, Destroy(h)
      PROVE  ListenersInv'
  BY <1>2, DestroyKeepsListeners
<1>3. ASSUME NEW h \in live,
             listenersId[h.index] # NoListeners \/ Len(entityListeners) < NoListeners,
             NEW e \in Event, NEW f \in Callback, ListenTo(h, e, f)
      PROVE  ListenersInv'
  <2>1. PICK tables, j : OwnTable(h, tables, j) /\ Listens(h, e, f, tables, j)
    BY <1>3, ListenEffect
  <2> QED  BY <2>1, ListenKeepsListeners
<1>4. CASE UNCHANGED entityEventVars
  <2>1. UNCHANGED <<rec, free, rows, live, dead, entityListeners, listenersId, wanted>>
    BY <1>4 DEF entityEventVars, vars
  <2>2. IInv'
    <3>1. [ContractNext]_vars
      BY <2>1 DEF vars
    <3> QED  BY <3>1, InvariantStep DEF ListenersInv
  <2>3. RowsEmpty' /\ ListenersTyped' /\ TablesHeld' /\ LiveWanted' /\ ListenersBelong'
    BY <2>1 DEF ListenersInv, RowsEmpty, ListenersTyped, TablesHeld, LiveWanted,
                ListenersBelong, Registered
  <2> QED  BY <2>2, <2>3 DEF ListenersInv
<1> QED  BY <1>1, <1>2, <1>3, <1>4 DEF EntityEventsNext

\* Under the discipline of EntityEventsSpec the registry has for each live entity
\* the callbacks that were given for it and no others.
THEOREM ListenersAreTheirs ==
    ASSUME EntityEventsAssumption
    PROVE  EntityEventsSpec => []ListenersBelong
<1>1. EntityEventsInit => ListenersInv
  BY ListenersInit
<1>2. ListenersInv /\ [EntityEventsNext]_entityEventVars => ListenersInv'
  BY ListenersStep
<1>3. ListenersInv => ListenersBelong
  BY DEF ListenersInv
<1> QED  BY <1>1, <1>2, <1>3, PTL DEF EntityEventsSpec

-----------------------------------------------------------------------------
(* Required components *)

\* A list of components that has none twice.
Distinct(list) == list \in Seq(ComponentType) /\ IsInjective(list)

\* Such a list continues another and has these components more.
Continues(new, old, more) ==
    /\ Distinct(new)
    /\ Len(old) <= Len(new) /\ \A i \in 1 .. Len(old) : new[i] = old[i]
    /\ Range(new) = Range(old) \cup more

\* Such a list is as long as the set of its components is large, which is at most all.
LEMMA ListedLength ==
    ASSUME IsFiniteSet(ComponentType), NEW list, Distinct(list)
    PROVE  /\ Len(list) = Cardinality(Range(list))
           /\ Len(list) <= Cardinality(ComponentType)
<1>1. PICK n : n = Len(list) /\ n \in Nat /\ DOMAIN list = 1 .. n /\ list \in Seq(ComponentType)
  BY DEF Distinct
<1>2. IsFiniteSet(1 .. n) /\ Cardinality(1 .. n) = n
  <2>1. n \in Int /\ 1 \in Int /\ n \in Nat
    BY <1>1
  <2>2. IsFiniteSet(1 .. n)
    BY ONLY <2>1, FS_Interval
  <2>3. Cardinality(1 .. n) = IF 1 > n THEN 0 ELSE n - 1 + 1
    BY ONLY <2>1, FS_Interval
  <2> QED  BY ONLY <2>1, <2>2, <2>3
<1>3. list \in [1 .. n -> Range(list)] /\ Range(list) \subseteq ComponentType
  BY <1>1 DEF Range
<1>4. \A i, j \in 1 .. n : list[i] = list[j] => i = j
  BY <1>1 DEF Distinct, IsInjective
<1>5. list \in Bijection(1 .. n, Range(list))
  <2>1. \A d \in Range(list) : \E i \in 1 .. n : list[i] = d
    BY <1>1 DEF Range
  <2> QED  BY <1>3, <1>4, <2>1 DEF Bijection, Injection, Surjection, IsInjective
<1>6. n = Cardinality(Range(list))
  BY <1>2, <1>5, FS_Bijection DEF ExistsBijection
<1>7. Cardinality(Range(list)) <= Cardinality(ComponentType)
  BY <1>3, FS_Subset
<1> QED  BY <1>1, <1>6, <1>7

\* One component more.
LEMMA OneListed ==
    ASSUME NEW list, Distinct(list), NEW cid \in ComponentType
    PROVE  Continues(AddNewId(list, cid), list, {cid})
<1>1. list \in Seq(ComponentType) /\ Len(list) \in Nat
  BY DEF Distinct
<1>2. CASE cid \in Range(list)
  BY <1>1, <1>2 DEF AddNewId, Continues
<1>3. CASE cid \notin Range(list)
  <2>1. PICK n, t : n = Len(list) /\ t = Append(list, cid)
    OBVIOUS
  <2>2. /\ n \in Nat /\ DOMAIN list = 1 .. n /\ DOMAIN t = 1 .. n + 1 /\ t[n + 1] = cid
        /\ t \in Seq(ComponentType) /\ Len(t) = n + 1
        /\ \A i \in 1 .. n : t[i] = list[i]
    BY <1>1, <2>1
  <2>3. Range(t) = Range(list) \cup {cid}
    BY <2>2 DEF Range
  <2>4. \A i \in 1 .. n : list[i] # cid
    BY <1>3, <2>2 DEF Range
  <2>5. \A i, j \in 1 .. n : list[i] = list[j] => i = j
    BY <2>2 DEF Distinct, IsInjective
  <2>6. \A i, j \in 1 .. n + 1 : t[i] = t[j] => i = j
    BY <2>2, <2>4, <2>5
  <2>7. Distinct(t)
    BY <2>2, <2>6 DEF Distinct, IsInjective
  <2>8. AddNewId(list, cid) = t
    BY <1>3, <2>1 DEF AddNewId
  <2>9. Continues(t, list, {cid})
    BY <2>1, <2>2, <2>3, <2>7 DEF Continues
  <2> QED  BY <2>8, <2>9
<1> QED  BY <1>2, <1>3

\* What is continued twice is continued with both.
LEMMA ContinuesTwice ==
    ASSUME NEW a, NEW b, NEW c, NEW more, NEW rest, a \in Seq(ComponentType),
           Continues(b, a, more), Continues(c, b, rest)
    PROVE  Continues(c, a, more \cup rest)
<1>1. PICK k, m, n : k = Len(a) /\ m = Len(b) /\ n = Len(c)
  OBVIOUS
<1>2. k \in Nat /\ m \in Nat /\ n \in Nat /\ k <= m /\ m <= n
  BY <1>1 DEF Continues, Distinct
<1>3. \A i \in 1 .. k : c[i] = a[i]
  <2>1. \A i \in 1 .. k : i \in 1 .. m /\ b[i] = a[i]
    BY <1>1, <1>2 DEF Continues
  <2>2. \A i \in 1 .. m : c[i] = b[i]
    BY <1>1 DEF Continues
  <2> QED  BY <2>1, <2>2
<1>4. Range(c) = Range(a) \cup (more \cup rest)
  BY DEF Continues
<1>5. k <= n
  BY ONLY <1>2
<1> QED  BY <1>1, <1>3, <1>4, <1>5 DEF Continues

\* push_back of those that the list does not have yet.
LEMMA AllListed ==
    ASSUME NEW list, Distinct(list), NEW more \in Seq(ComponentType)
    PROVE  Continues(AddNew(list, more), list, Range(more))
<1>1. PICK n : n = Len(more) /\ n \in Nat /\ DOMAIN more = 1 .. n
  OBVIOUS
<1>2. AddNew(list, more) = IdFold!Result(list, more)
  BY DEF AddNew, FoldLeft, MapThenFoldSet, Max, IdFold!Result, IdFold!Greatest
<1>3. PICK f : /\ f[0] = list
               /\ \A i \in 1 .. n : f[i] = AddNewId(f[i - 1], more[i])
               /\ f[n] = IdFold!Result(list, more)
  BY <1>1, IdFold!FoldLeftSteps
<1>0. list \in Seq(ComponentType)
  BY DEF Distinct
<1> DEFINE S == {i \in Nat : Continues(f[i], list, {more[j] : j \in 1 .. i})}
<1>4. 0 \in S
  <2>1. 1 .. 0 = {}
    OBVIOUS
  <2>2. Continues(list, list, {})
    BY <1>0 DEF Continues
  <2> QED  BY <1>3, <2>1, <2>2
<1>5. ASSUME NEW i \in 1 .. n, i - 1 \in S
      PROVE  i \in S
  <2>1. Distinct(f[i - 1]) /\ more[i] \in ComponentType /\ i \in Nat
    BY <1>1, <1>5 DEF Continues
  <2>2. Continues(f[i], f[i - 1], {more[i]})
    BY <1>3, <2>1, OneListed
  <2>3. {more[j] : j \in 1 .. i} = {more[j] : j \in 1 .. i - 1} \cup {more[i]}
    <3>1. \A j \in 1 .. i : j \in 1 .. i - 1 \/ j = i
      BY <2>1
    <3>2. \A j \in 1 .. i - 1 : j \in 1 .. i
      BY <2>1
    <3>3. i \in 1 .. i
      BY <2>1
    <3> QED  BY ONLY <3>1, <3>2, <3>3
  <2>4. Continues(f[i - 1], list, {more[j] : j \in 1 .. i - 1})
    BY <1>5
  <2>5. Continues(f[i], list, {more[j] : j \in 1 .. i - 1} \cup {more[i]})
    BY ONLY <1>0, <2>2, <2>4, ContinuesTwice
  <2>6. Continues(f[i], list, {more[j] : j \in 1 .. i})
    BY ONLY <2>3, <2>5
  <2> QED  BY <2>1, <2>6
<1>6. n \in S
  <2> HIDE DEF S
  <2>1. \A i \in 1 .. n : i - 1 \in S => i \in S
    BY <1>5
  <2>2. n \in Nat /\ n \in 0 .. n
    BY <1>1
  <2>3. \A i \in 0 .. n : i \in S
    BY ONLY <1>4, <2>1, <2>2, IdFold!UpTo
  <2> QED  BY <2>2, <2>3
<1>7. Range(more) = {more[j] : j \in 1 .. n}
  BY <1>1 DEF Range
<1>8. Continues(f[n], list, {more[j] : j \in 1 .. n})
  BY <1>6
<1> QED  BY ONLY <1>2, <1>3, <1>7, <1>8

\* With every component the set has those that its list names.
ClosedUnder(lists, s) == \A e \in s : Range(lists[e]) \subseteq s

\* A walk through a list that began as `list` and has passed i positions: those
\* required there have been entered, and nothing that no closed set needs.
Walked(walk, req, list, i) ==
    /\ walk = [list |-> walk.list, required |-> req]
    /\ Distinct(walk.list) /\ Range(list) \subseteq Range(walk.list)
    /\ \A j \in 1 .. i : j <= Len(walk.list) =>
          Range(req[walk.list[j]]) \subseteq Range(walk.list)
    /\ \A s \in SUBSET ComponentType :
          Range(list) \subseteq s /\ ClosedUnder(req, s) => Range(walk.list) \subseteq s

\* One position more.
LEMMA WalkGoesOn ==
    ASSUME NEW req \in [ComponentType -> Seq(ComponentType)], NEW list,
           NEW walk, NEW i \in Nat, i # 0, Walked(walk, req, list, i - 1)
    PROVE  Walked(Expand(walk, i), req, list, i)
<1>1. PICK l, n : l = walk.list /\ n = Len(l)
  OBVIOUS
<1>2. /\ walk = [list |-> l, required |-> req] /\ Distinct(l) /\ Range(list) \subseteq Range(l)
      /\ \A j \in 1 .. i - 1 : j <= n => Range(req[l[j]]) \subseteq Range(l)
  BY <1>1 DEF Walked
<1>3. n \in Nat /\ DOMAIN l = 1 .. n /\ l \in Seq(ComponentType)
  BY <1>1, <1>2 DEF Distinct
<1>4. CASE ~(i <= n)
  <2>1. Expand(walk, i) = walk
    BY <1>1, <1>4 DEF Expand
  <2>2. \A j \in 1 .. i : j <= n => j \in 1 .. i - 1
    BY <1>3, <1>4
  <2> QED  BY <1>1, <2>1, <2>2 DEF Walked
<1>5. CASE i <= n
  <2>1. i \in 1 .. n /\ l[i] \in ComponentType
    BY <1>3, <1>5
  <2>2. PICK t : t = AddNew(l, req[l[i]])
    OBVIOUS
  <2>3. Expand(walk, i) = [list |-> t, required |-> req]
    <3>1. walk.required = req
      BY <1>2
    <3> QED  BY <1>1, <1>2, <1>5, <2>2, <3>1 DEF Expand
  <2>4. Continues(t, l, Range(req[l[i]]))
    <3>1. req[l[i]] \in Seq(ComponentType)
      BY <2>1
    <3> QED  BY <1>2, <2>2, <3>1, AllListed
  <2>5. /\ Distinct(t) /\ n <= Len(t) /\ Len(t) \in Nat /\ \A j \in 1 .. n : t[j] = l[j]
        /\ Range(t) = Range(l) \cup Range(req[l[i]])
    BY <1>1, <2>4 DEF Continues, Distinct
  <2>6. \A j \in 1 .. i : Range(req[t[j]]) \subseteq Range(t)
    <3> SUFFICES ASSUME NEW j \in 1 .. i PROVE Range(req[t[j]]) \subseteq Range(t)
      OBVIOUS
    <3>1. j \in 1 .. n /\ (j = i \/ j \in 1 .. i - 1) /\ j <= n
      BY <1>3, <1>5
    <3>2. t[j] = l[j]
      BY <2>5, <3>1
    <3>3. CASE j = i
      BY <2>5, <3>2, <3>3
    <3>4. CASE j \in 1 .. i - 1
      BY <1>2, <2>5, <3>1, <3>2, <3>4
    <3> QED  BY <3>1, <3>3, <3>4
  <2>7. ASSUME NEW s \in SUBSET ComponentType, Range(list) \subseteq s, ClosedUnder(req, s)
        PROVE  Range(t) \subseteq s
    <3>1. Range(l) \subseteq s
      BY <1>1, <2>7 DEF Walked
    <3>2. l[i] \in s
      BY <1>3, <2>1, <3>1 DEF Range
    <3>3. Range(req[l[i]]) \subseteq s
      BY <2>7, <3>2 DEF ClosedUnder
    <3> QED  BY <2>5, <3>1, <3>3
  <2>8. PICK w : w = Expand(walk, i)
    OBVIOUS
  <2>9. w = [list |-> t, required |-> req] /\ w.list = t
    BY <2>3, <2>8
  <2>10. Range(list) \subseteq Range(t)
    BY <1>2, <2>5
  <2>11. Walked(w, req, list, i)
    BY ONLY <2>5, <2>6, <2>7, <2>9, <2>10 DEF Walked
  <2> QED  BY <2>8, <2>11
<1> QED  BY <1>4, <1>5

\* What Close returns: the direct ones and, with every component, those its record
\* names, none twice and nothing besides.
LEMMA CloseCloses ==
    ASSUME IsFiniteSet(ComponentType), NEW reg,
           reg.required \in [ComponentType -> Seq(ComponentType)], NEW list, Distinct(list)
    PROVE  /\ Distinct(Close(reg, list))
           /\ Range(list) \subseteq Range(Close(reg, list))
           /\ ClosedUnder(reg.required, Range(Close(reg, list)))
           /\ \A s \in SUBSET ComponentType :
                 Range(list) \subseteq s /\ ClosedUnder(reg.required, s)
                     => Range(Close(reg, list)) \subseteq s
<1>1. PICK n, req, base, order :
        /\ n = Cardinality(ComponentType) /\ req = reg.required
        /\ base = [list |-> list, required |-> req] /\ order = [i \in 1 .. n |-> i]
  OBVIOUS
<1>2. n \in Nat
  BY <1>1, FS_CardinalityType
<1>3. order \in Seq(Nat) /\ Len(order) = n /\ \A i \in 1 .. n : order[i] = i
  BY <1>1, <1>2
<1>4. FoldLeft(Expand, base, order) = WalkFold!Result(base, order)
  BY DEF FoldLeft, MapThenFoldSet, Max, WalkFold!Result, WalkFold!Greatest
<1>5. Close(reg, list) = WalkFold!Result(base, order).list
  BY <1>1, <1>4 DEF Close
<1>6. PICK f : /\ f[0] = base
               /\ \A i \in 1 .. n : f[i] = Expand(f[i - 1], order[i])
               /\ f[n] = WalkFold!Result(base, order)
  <2>1. \E f : /\ f[0] = base
               /\ \A i \in 1 .. Len(order) : f[i] = Expand(f[i - 1], order[i])
               /\ f[Len(order)] = WalkFold!Result(base, order)
    BY ONLY <1>3, WalkFold!FoldLeftSteps
  <2> QED  BY <1>3, <2>1
<1>7. req \in [ComponentType -> Seq(ComponentType)]
  BY <1>1
<1> DEFINE S == {i \in Nat : Walked(f[i], req, list, i)}
<1>8. 0 \in S
  <2>1. 1 .. 0 = {}
    OBVIOUS
  <2>2. base = [list |-> base.list, required |-> req] /\ base.list = list
    BY <1>1
  <2>3. Walked(base, req, list, 0)
    BY <2>1, <2>2 DEF Walked
  <2> QED  BY <1>6, <2>3
<1>9. ASSUME NEW i \in 1 .. n, i - 1 \in S
      PROVE  i \in S
  <2>1. i \in Nat /\ i # 0
    BY <1>2
  <2>2. f[i] = Expand(f[i - 1], i)
    BY <1>3, <1>6
  <2>3. Walked(f[i - 1], req, list, i - 1)
    BY <1>9
  <2>4. Walked(f[i], req, list, i)
    BY <1>7, <2>1, <2>2, <2>3, WalkGoesOn
  <2> QED  BY <2>1, <2>4
<1>10. n \in S
  <2> HIDE DEF S
  <2>1. \A i \in 1 .. n : i - 1 \in S => i \in S
    BY <1>9
  <2>2. n \in Nat /\ n \in 0 .. n
    BY <1>2
  <2>3. \A i \in 0 .. n : i \in S
    BY ONLY <1>8, <2>1, <2>2, WalkFold!UpTo
  <2> QED  BY <2>2, <2>3
<1>11. Walked(f[n], req, list, n)
  BY <1>10
<1>12. PICK l : l = Close(reg, list) /\ l = f[n].list
  BY <1>5, <1>6
<1>13. Distinct(l) /\ Range(list) \subseteq Range(l)
       /\ \A s \in SUBSET ComponentType :
             Range(list) \subseteq s /\ ClosedUnder(req, s) => Range(l) \subseteq s
  BY <1>11, <1>12 DEF Walked
<1>14. ClosedUnder(req, Range(l))
  <2>1. Len(l) <= n /\ Len(l) \in Nat /\ DOMAIN l = 1 .. Len(l)
    <3>1. Len(l) <= n
      BY <1>1, <1>13, ListedLength
    <3> QED  BY <1>13, <3>1 DEF Distinct
  <2> SUFFICES ASSUME NEW e \in Range(l) PROVE Range(req[e]) \subseteq Range(l)
    BY DEF ClosedUnder
  <2>2. PICK j \in 1 .. Len(l) : e = l[j]
    BY <2>1 DEF Range
  <2>3. j \in 1 .. n /\ j <= Len(l)
    BY <1>2, <2>1
  <2> QED  BY <1>11, <1>12, <2>2, <2>3 DEF Walked
<1> QED  BY <1>1, <1>12, <1>13, <1>14

\* What a component needs: the least closed set that has what it names itself.
LEMMA NeededIsLeast ==
    ASSUME NEW lists \in [ComponentType -> Seq(ComponentType)], NEW c \in ComponentType
    PROVE  /\ Needed(lists, c) \in SUBSET ComponentType
           /\ Range(lists[c]) \subseteq Needed(lists, c)
           /\ ClosedUnder(lists, Needed(lists, c))
           /\ \A s \in SUBSET ComponentType :
                 Range(lists[c]) \subseteq s /\ ClosedUnder(lists, s) => Needed(lists, c) \subseteq s
<1>1. PICK N : N = Needed(lists, c)
  OBVIOUS
<1>2. ASSUME NEW d
      PROVE  d \in N <=> /\ d \in ComponentType
                         /\ \A s \in SUBSET ComponentType :
                               Range(lists[c]) \subseteq s /\ ClosedUnder(lists, s) => d \in s
  BY <1>1 DEF Needed, ClosedUnder
<1>3. \A e \in ComponentType : Range(lists[e]) \subseteq ComponentType
  BY DEF Range
<1>4. Range(lists[c]) \subseteq N
  BY <1>2, <1>3
<1>5. ClosedUnder(lists, N)
  <2> SUFFICES ASSUME NEW e \in N, NEW d \in Range(lists[e]) PROVE d \in N
    BY DEF ClosedUnder
  <2>1. d \in ComponentType
    BY <1>2, <1>3
  <2>2. ASSUME NEW s \in SUBSET ComponentType, Range(lists[c]) \subseteq s, ClosedUnder(lists, s)
        PROVE  d \in s
    <3>1. e \in s
      BY <1>2, <2>2
    <3> QED  BY <2>2, <3>1 DEF ClosedUnder
  <2> QED  BY <1>2, <2>1, <2>2
<1>6. N \in SUBSET ComponentType
      /\ \A s \in SUBSET ComponentType :
            Range(lists[c]) \subseteq s /\ ClosedUnder(lists, s) => N \subseteq s
  BY <1>2
<1> QED  BY ONLY <1>1, <1>4, <1>5, <1>6

\* The larger of two numbers is one.
LEMMA LargerIsNumber ==
    ASSUME NEW a \in Nat, NEW b \in Nat
    PROVE  Max({a, b}) \in Nat
<1> DEFINE P(z) == z \in {a, b} /\ \A t \in {a, b} : z >= t
<1>1. P(a) \/ P(b)
  OBVIOUS
<1>2. \E z : P(z)
  BY <1>1
<1>3. P(CHOOSE z : P(z))
  BY <1>2
<1>4. Max({a, b}) = CHOOSE z : P(z)
  BY DEF Max
<1> QED  BY <1>3, <1>4

\* A registry whose components need registered ones only, and whose records say which.
Recorded(lists, reg) ==
    /\ reg \in Registry
    /\ \A c \in reg.registered :
          /\ Range(lists[c]) \subseteq reg.registered
          /\ Distinct(reg.required[c]) /\ Range(reg.required[c]) = Needed(lists, c)

\* In such a registry a component that names registered ones gets a record that lists
\* what it needs.
LEMMA RecordIsRight ==
    ASSUME RequiredAssumption, NEW lists \in [ComponentType -> Seq(ComponentType)],
           NEW reg, Recorded(lists, reg), NEW c \in ComponentType,
           Range(lists[c]) \subseteq reg.registered, Distinct(lists[c])
    PROVE  /\ Distinct(Close(reg, lists[c]))
           /\ Range(Close(reg, lists[c])) = Needed(lists, c)
<1>1. PICK l, req, has, N : /\ l = Close(reg, lists[c]) /\ req = reg.required
                            /\ has = reg.registered /\ N = Needed(lists, c)
  OBVIOUS
<1>2. /\ has \in SUBSET ComponentType /\ req \in [ComponentType -> Seq(ComponentType)]
      /\ \A e \in has : Range(lists[e]) \subseteq has /\ Range(req[e]) = Needed(lists, e)
  BY <1>1 DEF Recorded, Registry
<1>3. /\ Distinct(l) /\ Range(lists[c]) \subseteq Range(l) /\ ClosedUnder(req, Range(l))
      /\ \A s \in SUBSET ComponentType :
            Range(lists[c]) \subseteq s /\ ClosedUnder(req, s) => Range(l) \subseteq s
  BY <1>1, <1>2, CloseCloses DEF RequiredAssumption
<1>4. /\ N \in SUBSET ComponentType /\ Range(lists[c]) \subseteq N /\ ClosedUnder(lists, N)
      /\ \A s \in SUBSET ComponentType :
            Range(lists[c]) \subseteq s /\ ClosedUnder(lists, s) => N \subseteq s
  BY <1>1, NeededIsLeast
<1>5. ClosedUnder(lists, has) /\ N \subseteq has
  BY <1>1, <1>2, <1>4 DEF ClosedUnder
<1>6. ClosedUnder(req, N)
  <2> SUFFICES ASSUME NEW e \in N PROVE Range(req[e]) \subseteq N
    BY DEF ClosedUnder
  <2>1. e \in has /\ e \in ComponentType /\ Range(lists[e]) \subseteq N
    BY <1>4, <1>5 DEF ClosedUnder
  <2>2. Needed(lists, e) \subseteq N
    BY <1>4, <2>1, NeededIsLeast
  <2> QED  BY <1>2, <2>1, <2>2
<1>7. Range(l) \subseteq N
  BY <1>3, <1>4, <1>6
<1>8. ClosedUnder(lists, Range(l))
  <2> SUFFICES ASSUME NEW e \in Range(l) PROVE Range(lists[e]) \subseteq Range(l)
    BY DEF ClosedUnder
  <2>1. e \in has /\ e \in ComponentType /\ Range(req[e]) \subseteq Range(l)
    BY <1>2, <1>3, <1>5, <1>7 DEF ClosedUnder
  <2>2. Range(lists[e]) \subseteq Needed(lists, e)
    BY <2>1, NeededIsLeast
  <2> QED  BY <1>2, <2>1, <2>2
<1>9. N \subseteq Range(l)
  <2>1. Range(l) \in SUBSET ComponentType
    BY <1>4, <1>7
  <2> QED  BY <1>3, <1>4, <1>8, <2>1
<1> QED  BY <1>1, <1>3, <1>7, <1>9

\* Registering such a component keeps the registry so.
LEMMA RegistryKeeps ==
    ASSUME RequiredAssumption, NEW lists \in [ComponentType -> Seq(ComponentType)],
           NEW reg, Recorded(lists, reg), NEW c \in ComponentType,
           Range(lists[c]) \subseteq reg.registered, Distinct(lists[c])
    PROVE  Recorded(lists, WithComponent(reg, c, lists[c]))
<1>1. CASE c \in reg.registered
  BY <1>1 DEF WithComponent
<1>2. CASE c \notin reg.registered
  <2>1. PICK has, req, n, l, m, new :
          /\ has = reg.registered /\ req = reg.required /\ n = reg.slots
          /\ l = Close(reg, lists[c]) /\ m = Max({reg.slots, c + 1})
          /\ new = [registered |-> has \cup {c}, required |-> [req EXCEPT ![c] = l], slots |-> m]
    OBVIOUS
  <2>2. /\ has \in SUBSET ComponentType /\ req \in [ComponentType -> Seq(ComponentType)]
        /\ n \in Nat
        /\ \A e \in has : /\ Range(lists[e]) \subseteq has
                          /\ Distinct(req[e]) /\ Range(req[e]) = Needed(lists, e)
    BY <2>1 DEF Recorded, Registry
  <2>3. Distinct(l) /\ Range(l) = Needed(lists, c) /\ l \in Seq(ComponentType)
    BY <2>1, RecordIsRight DEF Distinct
  <2>4. m \in Nat
    <3>1. PICK k : k = c + 1 /\ k \in Nat
      BY DEF RequiredAssumption
    <3>2. Max({n, k}) \in Nat
      BY ONLY <2>2, <3>1, LargerIsNumber
    <3> QED  BY Zenon, <2>1, <3>1, <3>2
  <2>5. WithComponent(reg, c, lists[c]) = new
    BY <1>2, <2>1 DEF WithComponent
  <2>6. PICK req2 : req2 = [req EXCEPT ![c] = l]
    OBVIOUS
  <2>7. /\ req2 \in [ComponentType -> Seq(ComponentType)] /\ req2[c] = l
        /\ \A e \in has : req2[e] = req[e]
    BY <1>2, <2>1, <2>2, <2>3, <2>6
  <2>8. new.registered = has \cup {c} /\ new.required = req2
    BY <2>1, <2>6
  <2>9. new \in Registry
    BY <2>1, <2>2, <2>4, <2>6, <2>7 DEF Registry
  <2>10. ASSUME NEW e \in has \cup {c}
         PROVE  /\ Range(lists[e]) \subseteq has \cup {c}
                /\ Distinct(req2[e]) /\ Range(req2[e]) = Needed(lists, e)
    <3>1. CASE e = c
      BY <2>1, <2>3, <2>7, <3>1
    <3>2. CASE e \in has
      BY <2>2, <2>7, <3>2
    <3> QED  BY <3>1, <3>2
  <2> QED  BY <2>5, <2>8, <2>9, <2>10 DEF Recorded
<1> QED  BY <1>1, <1>2

\* Each component type has its list, and each world's registry says what follows.
RequiredInv ==
    /\ direct \in [ComponentType -> Lists]
    /\ registry \in [World -> Registry]
    /\ \A w \in World : Recorded(direct, registry[w])

\* A component registered after those it requires keeps it so, in one world.
LEMMA AddRecordKeeps ==
    ASSUME RequiredAssumption, SetupAssumption, RequiredInv, NEW w \in World,
           NEW c \in ComponentType, NEW outer, ComponentInOrder(w, c),
           AddRecord(w, c, outer), direct' = direct
    PROVE  RequiredInv'
<1>1. PICK new : new = WithComponent(registry[w], c, direct[c])
  OBVIOUS
<1>2. registry' = [registry EXCEPT ![w] = new]
  BY <1>1 DEF AddRecord
<1>3. Recorded(direct, new)
  <2>1. \A d \in ComponentType : direct[d] \in Seq(ComponentType) /\ Distinct(direct[d])
    BY DEF RequiredInv, SetupAssumption, Distinct
  <2>2. direct \in [ComponentType -> Seq(ComponentType)]
    BY <2>1 DEF RequiredInv
  <2>3. Recorded(direct, registry[w]) /\ Range(direct[c]) \subseteq registry[w].registered
    BY DEF RequiredInv, ComponentInOrder
  <2> QED  BY <1>1, <2>1, <2>2, <2>3, RegistryKeeps
<1>4. new \in Registry /\ registry \in [World -> Registry]
  BY <1>3 DEF Recorded, RequiredInv
<1>5. registry' \in [World -> Registry]
      /\ \A v \in World : registry'[v] = IF v = w THEN new ELSE registry[v]
  BY <1>2, <1>4
<1>6. ASSUME NEW v \in World PROVE Recorded(direct, registry'[v])
  <2>1. CASE v = w
    BY <1>3, <1>5, <2>1
  <2>2. CASE v # w
    BY <1>5, <2>2 DEF RequiredInv
  <2> QED  BY <2>1, <2>2
<1> QED  BY <1>5, <1>6 DEF RequiredInv

\* No other step changes a registry, and none a list.
LEMMA RequiredStep ==
    ASSUME RequiredAssumption, SetupAssumption, RequiredInv, [InOrderNext]_setupVars
    PROVE  RequiredInv'
<1>1. ASSUME UNCHANGED <<direct, registry>>
      PROVE  RequiredInv'
  BY <1>1 DEF RequiredInv
<1>2. ASSUME NEW w, NEW p, NEW outer, PlugIn(w, p, outer), direct' = direct
      PROVE  RequiredInv'
  BY <1>1, <1>2 DEF PlugIn
<1>3. ASSUME NEW w \in World, NEW p \in Plugin, RegisterPlugin(w, p)
      PROVE  RequiredInv'
  BY <1>2, <1>3 DEF RegisterPlugin
<1>4. ASSUME NEW w \in World, NEW c \in ComponentType, ComponentInOrder(w, c),
             RegisterComponent(w, c)
      PROVE  RequiredInv'
  BY <1>4, AddRecordKeeps DEF RegisterComponent
<1>5. ASSUME NEW w \in World, StepInOrder(w), BuildStep(w)
      PROVE  RequiredInv'
  <2>1. PICK x, outer : x = Head(Left(w))
                        /\ outer = [building[w] EXCEPT ![Len(building[w])] = Tail(@)]
    OBVIOUS
  <2>2. \/ x \in Plugin /\ PlugIn(w, x, outer)
        \/ x \in ComponentType /\ AddRecord(w, x, outer)
    BY <1>5, <2>1 DEF BuildStep
  <2>3. x \in ComponentType => ComponentInOrder(w, x)
    BY <1>5, <2>1 DEF StepInOrder
  <2>4. direct' = direct
    BY <1>5 DEF BuildStep
  <2> QED  BY <1>2, <2>2, <2>3, <2>4, AddRecordKeeps
<1>6. ASSUME NEW w \in World, BuildReturns(w)
      PROVE  RequiredInv'
  BY <1>1, <1>6 DEF BuildReturns
<1>7. CASE UNCHANGED setupVars
  BY <1>1, <1>7 DEF setupVars
<1> QED  BY <1>3, <1>4, <1>5, <1>6, <1>7 DEF InOrderNext

\* A world that registers a component after those it requires, at the top level and
\* from within plugins' builds, keeps a record of everything the component requires,
\* directly and through others, each once.
THEOREM RecordsAreClosures ==
    ASSUME SetupAssumption, RequiredAssumption PROVE InOrderSpec => []RequiredIsClosure
<1>1. SetupInit => RequiredInv
  <2> SUFFICES ASSUME SetupInit PROVE RequiredInv
    OBVIOUS
  <2>1. direct \in [ComponentType -> Lists] /\ registry = [w \in World |-> NoRecords]
    BY DEF SetupInit
  <2>2. NoRecords \in Registry /\ NoRecords.registered = {}
    BY DEF NoRecords, Registry
  <2>3. \A w \in World : registry[w] = NoRecords
    BY <2>1
  <2>4. Recorded(direct, NoRecords)
    BY <2>2 DEF Recorded
  <2> QED  BY <2>1, <2>2, <2>3, <2>4 DEF RequiredInv
<1>2. RequiredInv /\ [InOrderNext]_setupVars => RequiredInv'
  BY RequiredStep
<1>3. RequiredInv => RequiredIsClosure
  <2> SUFFICES ASSUME RequiredInv, NEW w \in World, NEW c \in registry[w].registered
               PROVE  /\ Range(registry[w].required[c]) = Requires(c)
                      /\ Len(registry[w].required[c]) = Cardinality(Requires(c))
    BY DEF RequiredInv, RequiredIsClosure, RegistriesTyped
  <2>1. PICK l : l = registry[w].required[c]
    OBVIOUS
  <2>2. Distinct(l) /\ Range(l) = Requires(c)
    BY <2>1 DEF RequiredInv, Recorded, Requires
  <2>3. Len(l) = Cardinality(Range(l))
    BY <2>2, ListedLength DEF RequiredAssumption
  <2> QED  BY <2>1, <2>2, <2>3
<1> QED  BY <1>1, <1>2, <1>3, PTL DEF InOrderSpec

=============================================================================
