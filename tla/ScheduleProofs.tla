---------------------------- MODULE ScheduleProofs ----------------------------
(***************************************************************************)
(* Theorems about Schedule, for every set of systems, conditions and       *)
(* states and every number of commands and of singletons allocated.        *)
(***************************************************************************)
EXTENDS Schedule, Integers, SequenceTheorems, FiniteSetTheorems, TLAPS

-----------------------------------------------------------------------------
(* The invariant *)

\* What TypeOK leaves out.
Typed ==
    /\ called \in {<< >>, StartPhases, ProgressPhases}
    /\ todo \in Seq(Phase)
    /\ turn \in Nat /\ loop \in 0 .. 4 /\ reached \in Nat /\ issued \in Nat
    /\ executed \in Seq(Nat) /\ ran \in Seq(Nat)

\* Every condition points at the singleton there is.
PointersFresh ==
    \A p \in Phase : \A s \in DOMAIN systems[p] :
        \A c \in DOMAIN systems[p][s].conditions :
            systems[p][s].conditions[c].object = Len(objects)

\* How many commands the loops before number l have to execute.
Before(l) ==
    CASE l = 1 -> 0
      [] l = 2 -> Len(queues["add"])
      [] l = 3 -> Len(queues["add"]) + Len(queues["remove"])
      [] l = 4 -> Len(queues["add"]) + Len(queues["remove"]) + Len(queues["set"])

\* Every command issued is queued once.
QueuedOnce ==
    /\ Before(4) + Len(queues["kill"]) = issued
    /\ \A n \in 1 .. issued :
          \E k \in Kind : \E i \in DOMAIN queues[k] : queues[k][i] = n
    /\ \A k, m \in Kind : \A i \in DOMAIN queues[k], j \in DOMAIN queues[m] :
          queues[k][i] = queues[m][j] => k = m /\ i = j

\* How far loop l of the flush has come.
Done(l) == IF l < loop THEN Len(queues[FlushSequence[l]]) ELSE reached

\* The flush has executed the queues one after the other, in order.
ExecutedInOrder ==
    loop # 0 =>
        /\ Len(executed) = Before(loop) + reached
        /\ \A l \in 1 .. loop : \A i \in 1 .. Done(l) :
              executed[Before(l) + i] = queues[FlushSequence[l]][i]

ScheduleInv ==
    TypeOK /\ Typed /\ PointersFresh /\ QueuedOnce /\ ExecutedInOrder

-----------------------------------------------------------------------------
(* Sequences *)

\* A suffix, element by element.
LEMMA SuffixElements ==
    ASSUME NEW T, NEW s \in Seq(T), NEW t \in Seq(T)
    PROVE  IsSuffix(s, t) <=>
             /\ Len(s) <= Len(t)
             /\ \A i \in 1 .. Len(s) : s[i] = t[Len(t) - Len(s) + i]
<1>0. PICK m, n : m = Len(s) /\ n = Len(t)
  OBVIOUS
<1>1. m \in Nat /\ n \in Nat /\ m = Len(s) /\ n = Len(t)
  BY <1>0
<1>2. PICK u, v : u = Reverse(s) /\ v = Reverse(t)
  OBVIOUS
<1>3. /\ u \in Seq(T) /\ Len(u) = m /\ \A i \in 1 .. m : u[i] = s[m - i + 1]
      /\ v \in Seq(T) /\ Len(v) = n /\ \A i \in 1 .. n : v[i] = t[n - i + 1]
  <2>1. \A i \in 1 .. m : m - i + 1 \in 1 .. m
    BY <1>1
  <2>2. \A i \in 1 .. n : n - i + 1 \in 1 .. n
    BY <1>1
  <2>3. u = [i \in 1 .. m |-> s[m - i + 1]] /\ v = [i \in 1 .. n |-> t[n - i + 1]]
    BY <1>1, <1>2 DEF Reverse
  <2>4. u \in [1 .. m -> T]
    BY <1>1, <2>1, <2>3
  <2>5. v \in [1 .. n -> T]
    BY <1>1, <2>2, <2>3
  <2> QED  BY ONLY <1>1, <2>3, <2>4, <2>5
<1>4. CASE m <= n
  <2>1. /\ SubSeq(u, 1, m) \in Seq(T) /\ Len(SubSeq(u, 1, m)) = m
        /\ SubSeq(v, 1, m) \in Seq(T) /\ Len(SubSeq(v, 1, m)) = m
        /\ \A i \in 1 .. m : SubSeq(u, 1, m)[i] = u[i] /\ SubSeq(v, 1, m)[i] = v[i]
    BY ONLY <1>1, <1>3, <1>4
  <2>2. IsSuffix(s, t) <=> \A i \in 1 .. m : u[i] = v[i]
    <3>1. IsSuffix(s, t) <=> SubSeq(u, 1, m) = SubSeq(v, 1, m)
      BY <1>2, <1>3, <1>4 DEF IsSuffix, IsPrefix
    <3> QED  BY ONLY <2>1, <3>1, <1>1
  <2>3. (\A i \in 1 .. m : u[i] = v[i]) <=> (\A i \in 1 .. m : s[i] = t[n - m + i])
    <3>2. ASSUME \A i \in 1 .. m : u[i] = v[i], NEW i \in 1 .. m
          PROVE  s[i] = t[n - m + i]
      <4>1. PICK j : j = m - i + 1
        OBVIOUS
      <4>2. u[j] = s[i] /\ v[j] = t[n - m + i] /\ u[j] = v[j]
        <5>1. j \in 1 .. m /\ j \in 1 .. n /\ m - j + 1 = i /\ n - j + 1 = n - m + i
          BY ONLY <1>1, <1>4, <4>1, i \in 1 .. m
        <5>2. u[j] = s[m - j + 1] /\ v[j] = t[n - j + 1] /\ u[j] = v[j]
          BY ONLY <1>3, <3>2, <5>1
        <5> QED  BY ONLY <5>1, <5>2
      <4> QED  BY <4>2
    <3>3. ASSUME \A i \in 1 .. m : s[i] = t[n - m + i], NEW i \in 1 .. m
          PROVE  u[i] = v[i]
      <4>1. PICK j : j = m - i + 1
        OBVIOUS
      <4>2. u[i] = s[j] /\ v[i] = t[n - m + j] /\ s[j] = t[n - m + j]
        <5>1. j \in 1 .. m /\ i \in 1 .. n /\ n - i + 1 = n - m + j
          BY ONLY <1>1, <1>4, <4>1, i \in 1 .. m
        <5>2. u[i] = s[m - i + 1] /\ v[i] = t[n - i + 1] /\ s[j] = t[n - m + j]
          BY ONLY <1>3, <3>3, <5>1, i \in 1 .. m
        <5> QED  BY ONLY <4>1, <5>1, <5>2
      <4> QED  BY <4>2
    <3> QED  BY <3>2, <3>3
  <2> QED  BY ONLY <1>1, <1>4, <2>2, <2>3
<1>5. CASE ~(m <= n)
  BY <1>1, <1>2, <1>3, <1>5 DEF IsSuffix, IsPrefix
<1> QED  BY <1>4, <1>5

\* A sequence is its own suffix.
LEMMA SuffixSelf ==
    ASSUME NEW T, NEW s \in Seq(T)
    PROVE  IsSuffix(s, s)
<1>1. Len(s) \in Nat /\ \A i \in 1 .. Len(s) : Len(s) - Len(s) + i = i
  OBVIOUS
<1> QED  BY <1>1, SuffixElements

\* A suffix that loses its head is a suffix still.
LEMMA SuffixTail ==
    ASSUME NEW T, NEW s \in Seq(T), NEW t \in Seq(T), s # << >>, IsSuffix(s, t)
    PROVE  IsSuffix(Tail(s), t)
<1>0. PICK m, n, r : m = Len(s) /\ n = Len(t) /\ r = Tail(s)
  OBVIOUS
<1>1. /\ m \in Nat /\ n \in Nat /\ m # 0 /\ r \in Seq(T) /\ Len(r) = m - 1
      /\ \A i \in 1 .. m - 1 : r[i] = s[i + 1]
  BY <1>0
<1>2. m <= n /\ \A i \in 1 .. m : s[i] = t[n - m + i]
  BY <1>0, SuffixElements
<1>3. ASSUME NEW i \in 1 .. m - 1
      PROVE  r[i] = t[n - (m - 1) + i]
  <2>1. i + 1 \in 1 .. m /\ n - m + (i + 1) = n - (m - 1) + i
    BY <1>1
  <2> QED  BY ONLY <1>1, <1>2, <2>1, i \in 1 .. m - 1
<1>4. m - 1 <= n
  BY <1>1, <1>2
<1>5. IsSuffix(r, t)
  BY ONLY <1>0, <1>1, <1>3, <1>4, SuffixElements, t \in Seq(T)
<1> QED  BY <1>0, <1>5

-----------------------------------------------------------------------------
(* Types *)

\* The queues in the order of the flush.
LEMMA FlushOrder ==
    /\ FlushSequence[1] = "add" /\ FlushSequence[2] = "remove"
    /\ FlushSequence[3] = "set" /\ FlushSequence[4] = "kill"
    /\ Len(FlushSequence) = 4
BY DEF FlushSequence

\* The phases of start and of progress.
LEMMA PhaseLists ==
    StartPhases \in Seq(Phase) /\ ProgressPhases \in Seq(Phase) /\ << >> \in Seq(Phase)
<1>1. \A i \in DOMAIN StartPhases : StartPhases[i] \in Phase
  BY DEF Phase, Range
<1>2. \A i \in DOMAIN ProgressPhases : ProgressPhases[i] \in Phase
  BY DEF Phase, Range
<1>3. DOMAIN StartPhases = 1 .. 3 /\ DOMAIN ProgressPhases = 1 .. 6
  BY DEF StartPhases, ProgressPhases
<1>4. StartPhases = [i \in 1 .. 3 |-> StartPhases[i]]
      /\ ProgressPhases = [i \in 1 .. 6 |-> ProgressPhases[i]]
  BY DEF StartPhases, ProgressPhases
<1> QED  BY <1>1, <1>2, <1>3, <1>4

\* The number of systems is one.
LEMMA SystemsCounted ==
    ASSUME TypeOK
    PROVE  Cardinality({sys.id : sys \in Registered}) \in Nat
<1>1. {sys.id : sys \in Registered} \subseteq 1 .. MaxSystems
  <2> SUFFICES ASSUME NEW p \in Phase, NEW sys \in Range(systems[p])
               PROVE  sys.id \in 1 .. MaxSystems
    BY DEF Registered
  <2>1. systems[p] \in Seq(System)
    BY DEF TypeOK
  <2>2. sys \in System
    BY <2>1 DEF Range
  <2> QED  BY <2>2 DEF System
<1>2. IsFiniteSet(1 .. MaxSystems)
  BY FS_Interval, ScheduleAssumption
<1> QED  BY <1>1, <1>2, FS_Subset, FS_CardinalityType

\* Issue appends the next number to one queue.
LEMMA IssueAppends ==
    ASSUME queues \in [Kind -> Seq(1 .. issued)], issued \in Nat, NEW k \in Kind, Issue(k)
    PROVE  /\ issued' = issued + 1 /\ issued' <= MaxCommands
           /\ queues' \in [Kind -> Seq(1 .. issued')]
           /\ \A m \in Kind : m # k => queues'[m] = queues[m]
           /\ Len(queues'[k]) = Len(queues[k]) + 1
           /\ queues'[k][Len(queues[k]) + 1] = issued + 1
           /\ \A i \in 1 .. Len(queues[k]) : queues'[k][i] = queues[k][i]
<1>1. PICK q : q = Append(queues[k], issued + 1)
  OBVIOUS
<1>2. /\ queues' = [queues EXCEPT ![k] = q] /\ issued' = issued + 1 /\ issued < MaxCommands
  BY <1>1 DEF Issue
<1>3. \A m \in Kind : queues[m] \in Seq(1 .. issued + 1) /\ Len(queues[m]) \in Nat
  <2> SUFFICES ASSUME NEW m \in Kind
               PROVE  queues[m] \in Seq(1 .. issued + 1) /\ Len(queues[m]) \in Nat
    OBVIOUS
  <2>1. queues[m] \in Seq(1 .. issued) /\ Len(queues[m]) \in Nat
    OBVIOUS
  <2>2. \A i \in 1 .. Len(queues[m]) : queues[m][i] \in 1 .. issued + 1
    <3>1. \A x \in 1 .. issued : x \in 1 .. issued + 1
      OBVIOUS
    <3> QED  BY <2>1, <3>1
  <2> QED  BY <2>1, <2>2
<1>4. /\ q \in Seq(1 .. issued + 1) /\ Len(q) = Len(queues[k]) + 1
      /\ q[Len(queues[k]) + 1] = issued + 1
      /\ \A i \in 1 .. Len(queues[k]) : q[i] = queues[k][i]
  <2>1. queues[k] \in Seq(1 .. issued + 1) /\ issued + 1 \in 1 .. issued + 1
    BY <1>3
  <2> QED  BY ONLY <1>1, <2>1
<1>5. /\ queues' \in [Kind -> Seq(1 .. issued + 1)] /\ queues'[k] = q
      /\ \A m \in Kind : m # k => queues'[m] = queues[m]
  BY <1>2, <1>3, <1>4
<1>6. issued' <= MaxCommands
  BY <1>2, ScheduleAssumption
<1> QED  BY ONLY <1>2, <1>4, <1>5, <1>6

\* What a system, a hook or the client may do to the queues.
LEMMA MayIssueTypes ==
    ASSUME TypeOK, Typed, NEW kinds \in SUBSET Kind, MayIssue(kinds)
    PROVE  /\ queues' \in [Kind -> Seq(1 .. issued')] /\ issued' \in Nat
           /\ issued' <= MaxCommands
           /\ \A m \in Kind \ kinds : queues'[m] = queues[m]
<1>1. /\ queues \in [Kind -> Seq(1 .. issued)] /\ issued \in Nat
      /\ issued <= MaxCommands
  BY DEF TypeOK, Typed
<1>2. CASE UNCHANGED <<queues, issued>>
  BY <1>1, <1>2
<1>3. ASSUME NEW k \in kinds, Issue(k)
      PROVE  /\ queues' \in [Kind -> Seq(1 .. issued')] /\ issued' \in Nat
             /\ issued' <= MaxCommands
             /\ \A m \in Kind \ kinds : queues'[m] = queues[m]
  <2>1. k \in Kind
    OBVIOUS
  <2>2. /\ issued' = issued + 1 /\ issued' <= MaxCommands
        /\ queues' \in [Kind -> Seq(1 .. issued')]
        /\ \A m \in Kind : m # k => queues'[m] = queues[m]
    BY <1>1, <1>3, <2>1, IssueAppends
  <2> QED  BY <1>1, <2>2
<1> QED  BY <1>2, <1>3 DEF MayIssue

\* The parts of the state that the client, the position and the queues are.
ClientTyped ==
    /\ systems \in [Phase -> Seq(System)]
    /\ objects \in Seq(State) /\ Len(objects) \in 1 .. MaxObjects

PositionTyped ==
    /\ called \in {<< >>, StartPhases, ProgressPhases}
    /\ todo \in Seq(Phase) /\ IsSuffix(todo, called)
    /\ turn \in Nat /\ loop \in 0 .. 4 /\ reached \in Nat
    /\ todo # << >> => turn <= Len(systems[Head(todo)])
    /\ loop # 0 => /\ todo # << >>
                   /\ reached <= Len(queues[FlushSequence[loop]])

QueuesTyped ==
    /\ queues \in [Kind -> Seq(1 .. issued)]
    /\ issued \in Nat /\ issued <= MaxCommands
    /\ executed \in Seq(Nat) /\ ran \in Seq(Nat)

\* They are the whole.
LEMMA TypesSplit == TypeOK /\ Typed <=> ClientTyped /\ PositionTyped /\ QueuesTyped
BY DEF TypeOK, Typed, ClientTyped, PositionTyped, QueuesTyped

\* The initial state is well typed.
LEMMA ScheduleInitTypes == Init => TypeOK /\ Typed
<1> SUFFICES ASSUME Init PROVE TypeOK /\ Typed
  OBVIOUS
<1>1. ClientTyped
  <2>1. \A p \in Phase : << >> \in Seq(System)
    OBVIOUS
  <2>2. objects \in Seq(State) /\ Len(objects) = 1
    BY ScheduleAssumption DEF Init
  <2> QED  BY <2>1, <2>2, ScheduleAssumption DEF Init, ClientTyped
<1>2. PositionTyped
  <2>1. << >> \in Seq(Phase) /\ IsSuffix(<< >>, << >>)
    BY SuffixSelf, PhaseLists
  <2> QED  BY <2>1 DEF Init, PositionTyped
<1>3. QueuesTyped
  <2>1. \A k \in Kind : << >> \in Seq(1 .. 0)
    OBVIOUS
  <2>2. << >> \in Seq(Nat)
    OBVIOUS
  <2> QED  BY <2>1, <2>2, ScheduleAssumption DEF Init, QueuesTyped
<1> QED  BY <1>1, <1>2, <1>3, TypesSplit

\* Where the flush is: its loop's queue.
LEMMA LoopQueue ==
    ASSUME queues \in [Kind -> Seq(1 .. issued)], NEW l \in 1 .. 4
    PROVE  /\ FlushSequence[l] \in Kind
           /\ queues[FlushSequence[l]] \in Seq(1 .. issued)
           /\ Len(queues[FlushSequence[l]]) \in Nat
<1>1. FlushSequence[l] \in Kind
  BY FlushOrder DEF Kind
<1> QED  BY <1>1

\* The hooks of loop l issue only what comes after it.
LEMMA StillToComeLater ==
    ASSUME loop \in 1 .. 4
    PROVE  /\ StillToCome \subseteq Kind
           /\ \A l \in 1 .. loop : FlushSequence[l] \notin StillToCome
<1>1. loop = 1 \/ loop = 2 \/ loop = 3 \/ loop = 4
  OBVIOUS
<1>2. CASE loop = 1
  BY <1>2, FlushOrder DEF StillToCome, Kind
<1>3. CASE loop = 2
  <2>1. \A l \in 1 .. loop : l = 1 \/ l = 2
    BY <1>3
  <2> QED  BY <1>3, <2>1, FlushOrder DEF StillToCome, Kind
<1>4. CASE loop = 3
  <2>1. \A l \in 1 .. loop : l = 1 \/ l = 2 \/ l = 3
    BY <1>4
  <2> QED  BY <1>4, <2>1, FlushOrder DEF StillToCome, Kind
<1>5. CASE loop = 4
  BY <1>5, FlushOrder DEF StillToCome
<1> QED  BY <1>1, <1>2, <1>3, <1>4, <1>5

\* Every step keeps the types.
LEMMA ScheduleTypeStep ==
    ASSUME TypeOK, Typed, [Next]_vars
    PROVE  TypeOK' /\ Typed'
<1>a. (ClientTyped /\ PositionTyped /\ QueuesTyped)' => (TypeOK /\ Typed)'
  BY TypesSplit, PTL
<1> SUFFICES ClientTyped' /\ PositionTyped' /\ QueuesTyped'
  BY <1>a
<1>0. ClientTyped /\ PositionTyped /\ QueuesTyped
  BY TypesSplit
<1>1. \A l \in 1 .. 4 : Len(queues[FlushSequence[l]]) \in Nat
  BY <1>0, LoopQueue DEF QueuesTyped
<1>2. \A p \in Phase : systems[p] \in Seq(System) /\ Len(systems[p]) \in Nat
  BY <1>0 DEF ClientTyped
<1>3. todo # << >> => Head(todo) \in Phase
  BY <1>0 DEF PositionTyped
<1>4. ASSUME NEW p \in UsedPhases, NEW wish \in Wishes, RegisterSystem(p, wish)
      PROVE  ClientTyped' /\ PositionTyped' /\ QueuesTyped'
  <2>1. PICK n : n = Cardinality({sys.id : sys \in Registered})
    OBVIOUS
  <2>2. PICK sys : sys = [id |-> n + 1, conditions |-> [j \in DOMAIN wish |-> Built(wish[j])]]
    OBVIOUS
  <2>3. /\ n < MaxSystems /\ Idle
        /\ systems' = [systems EXCEPT ![p] = Append(@, sys)]
        /\ UNCHANGED <<objects, position, queues, issued, executed, ran>>
    BY <1>4, <2>1, <2>2 DEF RegisterSystem
  <2>4. p \in Phase /\ wish \in Seq(State)
    BY ScheduleAssumption
  <2>5. n + 1 \in 1 .. MaxSystems
    BY <2>1, <2>3, SystemsCounted, ScheduleAssumption
  <2>6. [j \in DOMAIN wish |-> Built(wish[j])] \in Seq(Condition)
    <3>1. DOMAIN wish = 1 .. Len(wish) /\ Len(wish) \in Nat
      BY <2>4
    <3>2. \A j \in DOMAIN wish : Built(wish[j]) \in Condition
      BY <1>0, <2>4 DEF Built, Condition, ClientTyped
    <3>3. [j \in DOMAIN wish |-> Built(wish[j])] \in [1 .. Len(wish) -> Condition]
      BY <3>1, <3>2
    <3> QED  BY <3>1, <3>3
  <2>7. sys \in System
    BY <2>2, <2>5, <2>6 DEF System
  <2>8. ClientTyped'
    <3>1. Append(systems[p], sys) \in Seq(System)
      BY <1>2, <2>4, <2>7
    <3>2. systems' \in [Phase -> Seq(System)]
      BY <1>0, <2>3, <2>4, <3>1 DEF ClientTyped
    <3> QED  BY <1>0, <2>3, <3>2 DEF ClientTyped
  <2>9. PositionTyped'
    BY <1>0, <2>3 DEF PositionTyped, position, Idle
  <2>10. QueuesTyped'
    BY <1>0, <2>3 DEF QueuesTyped
  <2> QED  BY <2>8, <2>9, <2>10
<1>5. ASSUME NEW k \in Kind, ClientIssue(k)
      PROVE  ClientTyped' /\ PositionTyped' /\ QueuesTyped'
  <2>1. Issue(k) /\ Idle /\ UNCHANGED <<client, position, executed, ran>>
    BY <1>5 DEF ClientIssue
  <2>2. QueuesTyped'
    <3>1. issued' = issued + 1 /\ issued' <= MaxCommands
          /\ queues' \in [Kind -> Seq(1 .. issued')]
      BY <1>0, <2>1, IssueAppends DEF QueuesTyped
    <3> QED  BY <1>0, <2>1, <3>1 DEF QueuesTyped
  <2>3. ClientTyped'
    BY <1>0, <2>1 DEF ClientTyped, client
  <2>4. PositionTyped'
    BY <1>0, <2>1 DEF PositionTyped, position, client, Idle
  <2> QED  BY <2>2, <2>3, <2>4
<1>6. CASE InitSingleton
  <2>1. /\ Len(objects) < MaxObjects /\ objects' = Append(objects, Default)
        /\ UNCHANGED <<systems, position, queues, issued, executed, ran>>
    BY <1>6 DEF InitSingleton
  <2>2. ClientTyped'
    <3>1. objects' \in Seq(State) /\ Len(objects') = Len(objects) + 1
      BY <1>0, <2>1, ScheduleAssumption DEF ClientTyped
    <3> QED  BY <1>0, <2>1, <3>1, ScheduleAssumption DEF ClientTyped
  <2> QED  BY <1>0, <2>1, <2>2 DEF PositionTyped, QueuesTyped, position
<1>7. ASSUME NEW phases \in {StartPhases, ProgressPhases}, Call(phases)
      PROVE  ClientTyped' /\ PositionTyped' /\ QueuesTyped'
  <2>1. /\ Idle /\ called' = phases /\ todo' = phases /\ turn' = 0 /\ ran' = << >>
        /\ UNCHANGED <<client, loop, reached, queues, issued, executed>>
    BY <1>7 DEF Call
  <2>2. phases \in Seq(Phase) /\ IsSuffix(phases, phases)
    BY PhaseLists, SuffixSelf
  <2>3. loop = 0
    BY <1>0, <2>1 DEF PositionTyped, Idle
  <2>4. todo' # << >> => Head(todo') \in Phase
    BY <2>1, <2>2
  <2>5. PositionTyped'
    BY <1>0, <1>2, <2>1, <2>2, <2>3, <2>4 DEF PositionTyped, client
  <2>6. << >> \in Seq(Nat)
    OBVIOUS
  <2> QED  BY <1>0, <2>1, <2>5, <2>6 DEF ClientTyped, QueuesTyped, client
<1>8. CASE RunSystem
  <2>1. /\ turn < Len(systems[Head(todo)]) /\ turn' = turn + 1 /\ todo # << >> /\ loop = 0
        /\ ran' = Append(ran, Current.id)
        /\ MayIssue(Kind)
        /\ UNCHANGED <<systems, called, todo, loop, reached, executed>>
    BY <1>8 DEF RunSystem, Running, Idle
  <2>2. ClientTyped'
    <3>1. PICK s \in State : objects' = [objects EXCEPT ![Len(objects)] = s]
      BY <1>8 DEF RunSystem
    <3>2. objects' \in Seq(State) /\ Len(objects') = Len(objects)
      BY <1>0, <3>1 DEF ClientTyped
    <3> QED  BY <1>0, <2>1, <3>2 DEF ClientTyped
  <2>3. PositionTyped'
    <3>1. turn' \in Nat /\ turn' <= Len(systems[Head(todo)])
      BY <1>0, <1>2, <1>3, <2>1 DEF PositionTyped
    <3> QED  BY <1>0, <2>1, <3>1 DEF PositionTyped
  <2>4. QueuesTyped'
    <3>1. ran' \in Seq(Nat)
      <4>1. Current \in System
        <5>1. turn \in Nat /\ turn + 1 \in 1 .. Len(systems[Head(todo)])
          BY <1>0, <1>2, <1>3, <2>1 DEF PositionTyped
        <5> QED  BY <1>2, <1>3, <2>1, <5>1 DEF Current
      <4>2. Current.id \in Nat
        BY <4>1 DEF System
      <4> QED  BY <1>0, <2>1, <4>2 DEF QueuesTyped
    <3>2. /\ queues' \in [Kind -> Seq(1 .. issued')] /\ issued' \in Nat
          /\ issued' <= MaxCommands
      BY <2>1, MayIssueTypes
    <3> QED  BY <1>0, <2>1, <3>1, <3>2 DEF QueuesTyped
  <2> QED  BY <2>2, <2>3, <2>4
<1>9. CASE SkipSystem
  <2>1. /\ turn < Len(systems[Head(todo)]) /\ turn' = turn + 1 /\ todo # << >> /\ loop = 0
        /\ UNCHANGED <<client, called, todo, loop, reached, queues, issued, executed, ran>>
    BY <1>9 DEF SkipSystem, Running, Idle
  <2>2. turn' \in Nat /\ turn' <= Len(systems[Head(todo)])
    BY <1>0, <1>2, <1>3, <2>1 DEF PositionTyped
  <2>3. PositionTyped'
    BY <1>0, <2>1, <2>2 DEF PositionTyped, client
  <2> QED  BY <1>0, <2>1, <2>3 DEF ClientTyped, QueuesTyped, client
<1>10. CASE BeginFlush
  <2>1. /\ todo # << >> /\ loop' = 1 /\ reached' = 0 /\ executed' = << >>
        /\ UNCHANGED <<client, called, todo, turn, queues, issued, ran>>
    BY <1>10 DEF BeginFlush, Running, Idle
  <2>2. PositionTyped'
    BY <1>0, <1>1, <2>1 DEF PositionTyped, client
  <2>3. << >> \in Seq(Nat)
    OBVIOUS
  <2> QED  BY <1>0, <2>1, <2>2, <2>3 DEF ClientTyped, QueuesTyped, client
<1>11. CASE ExecuteCommand
  <2>1. /\ loop # 0 /\ reached < Len(Queue) /\ reached' = reached + 1
        /\ executed' = Append(executed, Queue[reached + 1])
        /\ MayIssue(StillToCome)
        /\ UNCHANGED <<client, called, todo, turn, loop, ran>>
    BY <1>11 DEF ExecuteCommand
  <2>2. loop \in 1 .. 4 /\ reached \in Nat
    BY <1>0, <2>1 DEF PositionTyped
  <2>3. Queue \in Seq(1 .. issued) /\ Len(Queue) \in Nat /\ FlushSequence[loop] \in Kind
    BY <1>0, <2>2, LoopQueue DEF Queue, QueuesTyped
  <2>4. StillToCome \subseteq Kind /\ FlushSequence[loop] \notin StillToCome
    BY <2>2, StillToComeLater
  <2>5. /\ queues' \in [Kind -> Seq(1 .. issued')] /\ issued' \in Nat
        /\ issued' <= MaxCommands
        /\ queues'[FlushSequence[loop]] = Queue
    BY <2>1, <2>3, <2>4, MayIssueTypes DEF Queue
  <2>6. PositionTyped'
    <3>1. reached + 1 \in Nat /\ reached + 1 <= Len(Queue)
      BY <2>1, <2>2, <2>3
    <3> QED  BY <1>0, <2>1, <2>5, <3>1 DEF PositionTyped, client
  <2>7. executed' \in Seq(Nat)
    <3>1. Queue[reached + 1] \in 1 .. issued
      <4>1. reached + 1 \in 1 .. Len(Queue)
        BY ONLY <2>1, <2>2, <2>3
      <4>2. PICK q, T, j : q = Queue /\ T = 1 .. issued /\ j = reached + 1
        OBVIOUS
      <4>3. q \in Seq(T) /\ j \in 1 .. Len(q)
        BY ONLY <2>3, <4>1, <4>2
      <4>4. q[j] \in T
        BY ONLY <4>3
      <4> QED  BY ONLY <4>2, <4>4
    <3>2. Queue[reached + 1] \in Nat
      BY <1>0, <3>1 DEF QueuesTyped
    <3> QED  BY <1>0, <2>1, <3>2 DEF QueuesTyped
  <2> QED  BY <1>0, <2>1, <2>5, <2>6, <2>7 DEF ClientTyped, QueuesTyped, client
<1>12. CASE NextLoop
  <2>1. /\ loop \in 1 .. 3 /\ loop' = loop + 1 /\ reached' = 0
        /\ UNCHANGED <<client, called, todo, turn, queues, issued, executed, ran>>
    BY <1>12, FlushOrder DEF NextLoop
  <2>2. loop' \in 1 .. 4
    BY <2>1
  <2>3. Len(queues[FlushSequence[loop']]) \in Nat
    BY <1>1, <2>2
  <2>4. PositionTyped'
    BY <1>0, <2>1, <2>2, <2>3 DEF PositionTyped, client
  <2> QED  BY <1>0, <2>1, <2>4 DEF ClientTyped, QueuesTyped, client
<1>13. CASE EndFlush
  <2>1. /\ loop = 4 /\ queues' = [k \in Kind |-> << >>] /\ issued' = 0
        /\ loop' = 0 /\ reached' = 0 /\ todo' = Tail(todo) /\ turn' = 0
        /\ UNCHANGED <<client, called, executed, ran>>
    BY <1>13, FlushOrder DEF EndFlush
  <2>2. todo # << >> /\ called \in Seq(Phase)
    <3>1. todo # << >>
      BY <1>0, <2>1 DEF PositionTyped
    <3>2. called \in {<< >>, StartPhases, ProgressPhases}
      BY <1>0 DEF PositionTyped
    <3> QED  BY ONLY <3>1, <3>2, PhaseLists
  <2>3. todo' \in Seq(Phase) /\ IsSuffix(todo', called)
    BY <1>0, <2>1, <2>2, SuffixTail DEF PositionTyped
  <2>4. todo' # << >> => Head(todo') \in Phase
    BY <2>3
  <2>5. PositionTyped'
    BY <1>0, <1>2, <2>1, <2>3, <2>4 DEF PositionTyped, client
  <2>6. QueuesTyped'
    <3>1. \A k \in Kind : << >> \in Seq(1 .. 0)
      OBVIOUS
    <3> QED  BY <1>0, <2>1, <3>1, ScheduleAssumption DEF QueuesTyped
  <2> QED  BY <1>0, <2>1, <2>5, <2>6 DEF ClientTyped, client
<1>14. CASE UNCHANGED vars
  BY <1>0, <1>14 DEF vars, ClientTyped, PositionTyped, QueuesTyped
<1> QED
  BY <1>4, <1>5, <1>6, <1>7, <1>8, <1>9, <1>10, <1>11, <1>12, <1>13, <1>14
     DEF Next, Step, Start, Progress

\* Whatever the client registers and issues and systems and hooks do, the state
\* is well typed: what is left of a frame is the end of the list of its phases,
\* and a position lies in the list it is a position in.
THEOREM ScheduleTypeCorrect == Spec => []TypeOK
<1>1. Init => TypeOK /\ Typed
  BY ScheduleInitTypes
<1>2. TypeOK /\ Typed /\ [Next]_vars => TypeOK' /\ Typed'
  BY ScheduleTypeStep
<1> QED  BY <1>1, <1>2, PTL DEF Spec

-----------------------------------------------------------------------------
(* Conditions *)

\* A step that leaves the systems and the number of singletons alone leaves the
\* pointers alone.
LEMMA PointersKept ==
    ASSUME PointersFresh, systems' = systems, Len(objects') = Len(objects)
    PROVE  PointersFresh'
BY DEF PointersFresh

\* Every step keeps the pointers fresh: a system is registered with pointers to
\* the singleton there is, and a singleton is replaced only while none points
\* at one.
LEMMA PointersStep ==
    ASSUME TypeOK, Typed, PointersFresh, [Next]_vars
    PROVE  PointersFresh'
<1>1. systems \in [Phase -> Seq(System)] /\ objects \in Seq(State) /\ Len(objects) \in Nat \ {0}
  BY DEF TypeOK
<1>2. \A p \in Phase : systems[p] \in Seq(System) /\ Len(systems[p]) \in Nat
  BY <1>1
<1>3. CASE UNCHANGED client
  BY <1>3, PointersKept DEF client
<1>4. ASSUME NEW p \in UsedPhases, NEW wish \in Wishes, RegisterSystem(p, wish)
      PROVE  PointersFresh'
  <2>1. PICK new : \E n : new = [id |-> n + 1,
                                 conditions |-> [j \in DOMAIN wish |-> Built(wish[j])]]
                       /\ systems' = [systems EXCEPT ![p] = Append(@, new)]
    BY <1>4 DEF RegisterSystem
  <2>2. p \in Phase /\ objects' = objects
    BY <1>4, ScheduleAssumption DEF RegisterSystem
  <2>3. \A c \in DOMAIN new.conditions : new.conditions[c].object = Len(objects)
    <3>1. new.conditions = [j \in DOMAIN wish |-> Built(wish[j])]
      BY <2>1
    <3>2. \A v : Built(v).object = Len(objects)
      BY DEF Built
    <3> QED  BY ONLY <3>1, <3>2
  <2>4. PICK old : old = systems[p]
    OBVIOUS
  <2>5. /\ DOMAIN Append(old, new) = 1 .. Len(old) + 1 /\ Len(old) \in Nat
        /\ DOMAIN old = 1 .. Len(old)
        /\ Append(old, new)[Len(old) + 1] = new
        /\ \A s \in 1 .. Len(old) : Append(old, new)[s] = old[s]
    <3>1. old \in Seq(System)
      BY <1>2, <2>2, <2>4
    <3> QED  BY ONLY <3>1
  <2>6. \A s \in DOMAIN Append(old, new) :
           \A c \in DOMAIN Append(old, new)[s].conditions :
              Append(old, new)[s].conditions[c].object = Len(objects)
    <3> SUFFICES ASSUME NEW s \in DOMAIN Append(old, new)
                 PROVE  \A c \in DOMAIN Append(old, new)[s].conditions :
                           Append(old, new)[s].conditions[c].object = Len(objects)
      OBVIOUS
    <3>1. s \in 1 .. Len(old) \/ s = Len(old) + 1
      BY <2>5
    <3>2. CASE s \in 1 .. Len(old)
      <4>1. \A c \in DOMAIN old[s].conditions : old[s].conditions[c].object = Len(objects)
        BY <2>2, <2>4, <2>5, <3>2 DEF PointersFresh
      <4> QED  BY ONLY <2>5, <3>2, <4>1
    <3>3. CASE s = Len(old) + 1
      BY ONLY <2>3, <2>5, <3>3
    <3> QED  BY ONLY <3>1, <3>2, <3>3
  <2>7. ASSUME NEW q \in Phase
        PROVE  \A s \in DOMAIN systems'[q] :
                  \A c \in DOMAIN systems'[q][s].conditions :
                     systems'[q][s].conditions[c].object = Len(objects)
    <3>1. CASE q = p
      <4>1. systems'[q] = Append(old, new)
        BY <1>1, <2>1, <2>2, <2>4, <3>1
      <4> QED  BY ONLY <2>6, <4>1
    <3>2. CASE q # p
      <4>1. systems'[q] = systems[q]
        BY <1>1, <2>1, <3>2
      <4> QED  BY ONLY <4>1, <2>7, PointersFresh DEF PointersFresh
    <3> QED  BY <3>1, <3>2
  <2> QED  BY ONLY <2>2, <2>7 DEF PointersFresh
<1>5. CASE InitSingleton
  <2>1. systems' = systems /\ \A sys \in Registered : sys.conditions = << >>
    BY <1>5 DEF InitSingleton
  <2>2. ASSUME NEW p \in Phase, NEW s \in DOMAIN systems[p]
        PROVE  systems[p][s].conditions = << >>
    <3>1. systems[p][s] \in Range(systems[p])
      BY <2>2 DEF Range
    <3> QED  BY <2>1, <2>2, <3>1 DEF Registered
  <2> QED  BY <2>1, <2>2 DEF PointersFresh
<1>6. CASE RunSystem
  <2>1. PICK v \in State : objects' = [objects EXCEPT ![Len(objects)] = v]
    BY <1>6 DEF RunSystem
  <2>2. Len(objects') = Len(objects)
    BY <1>1, <2>1
  <2> QED  BY <1>6, <2>2, PointersKept DEF RunSystem
<1> QED
  BY <1>3, <1>4, <1>5, <1>6
     DEF Next, Step, Start, Progress, Call, ClientIssue, SkipSystem, BeginFlush,
         ExecuteCommand, NextLoop, EndFlush, vars, client

\* The condition of the system whose turn it is looks at the singleton.
LEMMA ConditionsRead ==
    ASSUME TypeOK, Typed, PointersFresh, Running, turn < Len(systems[Head(todo)]),
           NEW cond \in Range(Current.conditions)
    PROVE  Check(cond) <=> Singleton = cond.value
<1>1. Head(todo) \in Phase
  BY DEF Typed, Running, Idle
<1>2. turn + 1 \in DOMAIN systems[Head(todo)]
  <2>1. systems[Head(todo)] \in Seq(System)
    BY <1>1 DEF TypeOK
  <2> QED  BY <2>1 DEF Typed
<1>3. PICK c \in DOMAIN Current.conditions : cond = Current.conditions[c]
  BY DEF Range
<1>4. cond.object = Len(objects)
  BY <1>1, <1>2, <1>3 DEF PointersFresh, Current
<1> QED  BY <1>4 DEF Check, Singleton

\* Whether a system runs at its turn depends on the singleton as it is then and
\* on nothing else, however often it was initialised before.
THEOREM TurnsDecided == Spec => DecidedByState
<1>1. Init => TypeOK /\ Typed /\ PointersFresh
  <2>1. Init => PointersFresh
    BY DEF Init, PointersFresh
  <2> QED  BY <2>1, ScheduleInitTypes
<1>2. TypeOK /\ Typed /\ PointersFresh /\ [Next]_vars => (TypeOK /\ Typed /\ PointersFresh)'
  BY ScheduleTypeStep, PointersStep
<1>3. ASSUME TypeOK, Typed, PointersFresh, Next
      PROVE  turn' = turn + 1 =>
                (ran' # ran <=>
                    \A cond \in Range(Current.conditions) : Singleton = cond.value)
  <2> SUFFICES ASSUME turn' = turn + 1
               PROVE  ran' # ran <=>
                        \A cond \in Range(Current.conditions) : Singleton = cond.value
    OBVIOUS
  <2>1. turn' # turn /\ turn' # 0
    BY <1>3 DEF Typed
  <2>2. RunSystem \/ SkipSystem
    BY <1>3, <2>1
       DEF Next, Step, RegisterSystem, ClientIssue, InitSingleton, Start, Progress, Call,
           BeginFlush, ExecuteCommand, NextLoop, EndFlush, position
  <2>3. Running /\ turn < Len(systems[Head(todo)])
    BY <2>2 DEF RunSystem, SkipSystem
  <2>4. ShouldRun(Current) <=>
          \A cond \in Range(Current.conditions) : Singleton = cond.value
    BY <1>3, <2>3, ConditionsRead DEF ShouldRun
  <2>5. CASE RunSystem
    <3>1. ShouldRun(Current) /\ ran' = Append(ran, Current.id)
      BY <2>5 DEF RunSystem
    <3>2. ran' # ran
      <4>1. PICK n : n = Current.id
        OBVIOUS
      <4>2. Append(ran, n) # ran
        BY <1>3 DEF Typed
      <4> QED  BY <3>1, <4>1, <4>2
    <3> QED  BY <2>4, <3>1, <3>2
  <2>6. CASE SkipSystem
    BY <2>4, <2>6 DEF SkipSystem
  <2> QED  BY <2>2, <2>5, <2>6
<1>4. TypeOK /\ Typed /\ PointersFresh /\ [Next]_vars =>
        [turn' = turn + 1 =>
            (ran' # ran <=>
                \A cond \in Range(Current.conditions) : Singleton = cond.value)]_vars
  BY <1>3
<1> QED  BY <1>1, <1>2, <1>4, PTL DEF Spec, DecidedByState

-----------------------------------------------------------------------------
(* The queues *)

\* The number that Before stands for.
LEMMA BeforeValues ==
    /\ Before(1) = 0
    /\ Before(2) = Len(queues["add"])
    /\ Before(3) = Len(queues["add"]) + Len(queues["remove"])
    /\ Before(4) = Len(queues["add"]) + Len(queues["remove"]) + Len(queues["set"])
BY DEF Before

\* One loop ends where the next begins.
LEMMA BeforeAdds ==
    ASSUME queues \in [Kind -> Seq(1 .. issued)]
    PROVE  /\ \A l \in 1 .. 4 : Before(l) \in Nat
           /\ \A l \in 1 .. 3 : Before(l + 1) = Before(l) + Len(queues[FlushSequence[l]])
           /\ \A l, m \in 1 .. 4 : l < m => Before(l) + Len(queues[FlushSequence[l]]) <= Before(m)
<1>1. PICK a, r, s, k : /\ a = Len(queues["add"]) /\ r = Len(queues["remove"])
                        /\ s = Len(queues["set"]) /\ k = Len(queues["kill"])
  OBVIOUS
<1>2. a \in Nat /\ r \in Nat /\ s \in Nat /\ k \in Nat
  BY <1>1 DEF Kind
<1>3. /\ Before(1) = 0 /\ Before(2) = a /\ Before(3) = a + r /\ Before(4) = a + r + s
      /\ Len(queues[FlushSequence[1]]) = a /\ Len(queues[FlushSequence[2]]) = r
      /\ Len(queues[FlushSequence[3]]) = s /\ Len(queues[FlushSequence[4]]) = k
  BY <1>1, BeforeValues, FlushOrder
<1>4. \A l \in 1 .. 4 : l = 1 \/ l = 2 \/ l = 3 \/ l = 4
  OBVIOUS
<1>5. \A l \in 1 .. 4 : Before(l) \in Nat
  BY ONLY <1>2, <1>3, <1>4
<1>6. ASSUME NEW l \in 1 .. 3
      PROVE  Before(l + 1) = Before(l) + Len(queues[FlushSequence[l]])
  <2>1. l = 1 \/ l = 2 \/ l = 3
    OBVIOUS
  <2>2. 0 + a = a
    BY <1>2
  <2>3. CASE l = 1
    <3>1. l + 1 = 2
      BY <2>3
    <3> QED  BY ONLY <1>3, <2>2, <2>3, <3>1
  <2>4. CASE l = 2
    <3>1. l + 1 = 3
      BY <2>4
    <3> QED  BY ONLY <1>3, <2>4, <3>1
  <2>5. CASE l = 3
    <3>1. l + 1 = 4
      BY <2>5
    <3> QED  BY ONLY <1>3, <2>5, <3>1
  <2> QED  BY <2>1, <2>3, <2>4, <2>5
<1>7. ASSUME NEW l \in 1 .. 4, NEW m \in 1 .. 4, l < m
      PROVE  Before(l) + Len(queues[FlushSequence[l]]) <= Before(m)
  <2>1. \/ l = 1 /\ m \in {2, 3, 4}
        \/ l = 2 /\ m \in {3, 4}
        \/ l = 3 /\ m = 4
    BY <1>7
  <2> QED  BY ONLY <1>2, <1>3, <2>1
<1> QED  BY <1>5, <1>6, <1>7

\* What an Issue does to the entries of the queues.
LEMMA IssueEntries ==
    ASSUME queues \in [Kind -> Seq(1 .. issued)], issued \in Nat, NEW k \in Kind, Issue(k)
    PROVE  /\ \A m \in Kind : \A i \in DOMAIN queues[m] :
                 i \in DOMAIN queues'[m] /\ queues'[m][i] = queues[m][i]
           /\ \A m \in Kind : \A i \in DOMAIN queues'[m] :
                 \/ i \in DOMAIN queues[m] /\ queues'[m][i] = queues[m][i]
                 \/ m = k /\ i = Len(queues[k]) + 1 /\ queues'[m][i] = issued + 1
           /\ Len(queues[k]) + 1 \in DOMAIN queues'[k]
           /\ queues'[k][Len(queues[k]) + 1] = issued + 1
<1>1. PICK n : n = Len(queues[k])
  OBVIOUS
<1>2. /\ \A m \in Kind : m # k => queues'[m] = queues[m]
      /\ Len(queues'[k]) = n + 1 /\ queues'[k][n + 1] = issued + 1
      /\ \A i \in 1 .. n : queues'[k][i] = queues[k][i]
  BY <1>1, IssueAppends
<1>3. n \in Nat /\ DOMAIN queues[k] = 1 .. n
  BY <1>1
<1>4. DOMAIN queues'[k] = 1 .. n + 1
  <2>1. PICK q, T : q = queues'[k] /\ T = 1 .. issued'
    OBVIOUS
  <2>2. q \in Seq(T) /\ Len(q) = n + 1
    BY <1>2, <2>1, IssueAppends
  <2> QED  BY ONLY <2>1, <2>2
<1>5. \A i \in 1 .. n + 1 : i \in 1 .. n \/ i = n + 1
  BY <1>3
<1>6. (\A i \in 1 .. n : i \in 1 .. n + 1) /\ n + 1 \in 1 .. n + 1
  BY <1>3
<1> QED  BY ONLY <1>1, <1>2, <1>3, <1>4, <1>5, <1>6

\* What is issued joins the queues, once.
LEMMA IssueQueues ==
    ASSUME queues \in [Kind -> Seq(1 .. issued)], issued \in Nat, QueuedOnce,
           NEW k \in Kind, Issue(k)
    PROVE  QueuedOnce'
<1>1. issued' = issued + 1
  BY DEF Issue
<1>2. Before(4)' + Len(queues'["kill"]) = issued'
  <2>1. /\ \A m \in Kind : m # k => Len(queues'[m]) = Len(queues[m])
        /\ Len(queues'[k]) = Len(queues[k]) + 1
    BY IssueAppends
  <2>2. PICK a, r, s, d : /\ a = Len(queues["add"]) /\ r = Len(queues["remove"])
                          /\ s = Len(queues["set"]) /\ d = Len(queues["kill"])
    OBVIOUS
  <2>3. a \in Nat /\ r \in Nat /\ s \in Nat /\ d \in Nat
    BY <2>2 DEF Kind
  <2>4. a + r + s + d = issued
    BY <2>2, BeforeValues DEF QueuedOnce
  <2>5. PICK aa, rr, ss, dd : /\ aa = Len(queues'["add"]) /\ rr = Len(queues'["remove"])
                              /\ ss = Len(queues'["set"]) /\ dd = Len(queues'["kill"])
    OBVIOUS
  <2>6. \/ aa = a + 1 /\ rr = r /\ ss = s /\ dd = d
        \/ aa = a /\ rr = r + 1 /\ ss = s /\ dd = d
        \/ aa = a /\ rr = r /\ ss = s + 1 /\ dd = d
        \/ aa = a /\ rr = r /\ ss = s /\ dd = d + 1
    BY <2>1, <2>2, <2>5 DEF Kind
  <2>7. aa + rr + ss + dd = issued'
    BY ONLY <1>1, <2>3, <2>4, <2>6
  <2>8. Before(4)' = aa + rr + ss
    BY <2>5 DEF Before
  <2> QED  BY ONLY <2>5, <2>7, <2>8
<1>3. ASSUME NEW n \in 1 .. issued'
      PROVE  \E m \in Kind : \E i \in DOMAIN queues'[m] : queues'[m][i] = n
  <2>1. n \in 1 .. issued \/ n = issued + 1
    BY <1>1
  <2>2. CASE n \in 1 .. issued
    <3>1. PICK m \in Kind : \E i \in DOMAIN queues[m] : queues[m][i] = n
      BY <2>2 DEF QueuedOnce
    <3>2. PICK i \in DOMAIN queues[m] : queues[m][i] = n
      BY <3>1
    <3>3. i \in DOMAIN queues'[m] /\ queues'[m][i] = queues[m][i]
      BY IssueEntries
    <3> QED  BY <3>2, <3>3
  <2>3. CASE n = issued + 1
    <3>1. /\ Len(queues[k]) + 1 \in DOMAIN queues'[k]
          /\ queues'[k][Len(queues[k]) + 1] = issued + 1
      BY IssueEntries
    <3> QED  BY ONLY <2>3, <3>1, k \in Kind, Zenon
  <2> QED  BY <2>1, <2>2, <2>3
<1>4. ASSUME NEW l \in Kind, NEW m \in Kind,
             NEW i \in DOMAIN queues'[l], NEW j \in DOMAIN queues'[m],
             queues'[l][i] = queues'[m][j]
      PROVE  l = m /\ i = j
  <2>0. \A x \in Kind : \A y \in DOMAIN queues[x] : queues[x][y] # issued + 1
    <3>1. \A x \in Kind : \A y \in DOMAIN queues[x] : queues[x][y] \in 1 .. issued
      <4> SUFFICES ASSUME NEW x \in Kind, NEW y \in DOMAIN queues[x]
                   PROVE  queues[x][y] \in 1 .. issued
        OBVIOUS
      <4>1. PICK q, T : q = queues[x] /\ T = 1 .. issued
        OBVIOUS
      <4>2. q \in Seq(T) /\ y \in DOMAIN q
        BY <4>1
      <4>3. q[y] \in T
        BY ONLY <4>2
      <4> QED  BY <4>1, <4>3
    <3>2. \A v \in 1 .. issued : v # issued + 1
      OBVIOUS
    <3> QED  BY ONLY <3>1, <3>2
  <2>1. \/ i \in DOMAIN queues[l] /\ queues'[l][i] = queues[l][i]
        \/ l = k /\ i = Len(queues[k]) + 1 /\ queues'[l][i] = issued + 1
    BY IssueEntries
  <2>2. \/ j \in DOMAIN queues[m] /\ queues'[m][j] = queues[m][j]
        \/ m = k /\ j = Len(queues[k]) + 1 /\ queues'[m][j] = issued + 1
    BY IssueEntries
  <2>3. CASE i \in DOMAIN queues[l] /\ queues'[l][i] = queues[l][i]
             /\ j \in DOMAIN queues[m] /\ queues'[m][j] = queues[m][j]
    <3>1. queues[l][i] = queues[m][j]
      BY ONLY <1>4, <2>3
    <3>2. i \in DOMAIN queues[l] /\ j \in DOMAIN queues[m] => l = m /\ i = j
      BY ONLY <3>1, QueuedOnce, l \in Kind, m \in Kind DEF QueuedOnce
    <3> QED  BY <2>3, <3>2
  <2> QED  BY ONLY <1>4, <2>0, <2>1, <2>2, <2>3, l \in Kind, m \in Kind
<1> QED  BY <1>2, <1>3, <1>4 DEF QueuedOnce

\* Nothing happens to the queues when nothing is issued.
LEMMA QueuesKept ==
    ASSUME QueuedOnce, UNCHANGED <<queues, issued>>
    PROVE  QueuedOnce'
<1>1. Before(4)' = Before(4)
  BY DEF Before
<1> QED  BY <1>1 DEF QueuedOnce

\* A system's or a hook's commands.
LEMMA MayIssueQueues ==
    ASSUME TypeOK, Typed, QueuedOnce, NEW kinds \in SUBSET Kind, MayIssue(kinds)
    PROVE  QueuedOnce'
<1>1. queues \in [Kind -> Seq(1 .. issued)] /\ issued \in Nat
  BY DEF TypeOK, Typed
<1>2. ASSUME NEW k \in kinds, Issue(k)
      PROVE  QueuedOnce'
  <2>1. k \in Kind
    OBVIOUS
  <2> QED  BY <1>1, <1>2, <2>1, IssueQueues
<1> QED  BY <1>2, QueuesKept DEF MayIssue

\* Every step keeps every command issued since the last flush queued once.
LEMMA QueuedStep ==
    ASSUME TypeOK, Typed, QueuedOnce, [Next]_vars
    PROVE  QueuedOnce'
<1>1. queues \in [Kind -> Seq(1 .. issued)] /\ issued \in Nat
  BY DEF TypeOK, Typed
<1>2. CASE UNCHANGED <<queues, issued>>
  BY <1>2, QueuesKept
<1>3. ASSUME NEW k \in Kind, ClientIssue(k)
      PROVE  QueuedOnce'
  BY <1>1, <1>3, IssueQueues DEF ClientIssue
<1>4. CASE RunSystem
  BY <1>4, MayIssueQueues DEF RunSystem
<1>5. CASE ExecuteCommand
  <2>1. loop \in 1 .. 4
    BY <1>5 DEF ExecuteCommand, Typed
  <2>2. StillToCome \in SUBSET Kind
    BY <2>1, StillToComeLater
  <2> QED  BY <1>5, <2>2, MayIssueQueues DEF ExecuteCommand
<1>6. CASE EndFlush
  <2>1. queues' = [k \in Kind |-> << >>] /\ issued' = 0
    BY <1>6 DEF EndFlush
  <2>2. Before(4)' + Len(queues'["kill"]) = 0
    BY <2>1 DEF Before, Kind
  <2>3. \A k \in Kind : DOMAIN queues'[k] = {}
    BY <2>1
  <2> QED  BY <2>1, <2>2, <2>3 DEF QueuedOnce
<1> QED
  BY <1>2, <1>3, <1>4, <1>5, <1>6
     DEF Next, Step, RegisterSystem, InitSingleton, Start, Progress, Call, SkipSystem,
         BeginFlush, NextLoop, vars

-----------------------------------------------------------------------------
(* The flush *)

\* What the flush has executed stands while what its loops have done does.
LEMMA ExecutedKept ==
    ASSUME loop' = loop, reached' = reached, executed' = executed, queues' = queues,
           ExecutedInOrder
    PROVE  ExecutedInOrder'
<1>1. \A l : Before(l)' = Before(l)
  BY DEF Before
<1>2. \A l : Done(l)' = Done(l)
  BY DEF Done
<1> QED  BY <1>1, <1>2 DEF ExecutedInOrder

\* One command is executed, and a hook may issue more of the kinds to come.
LEMMA ExecuteStep ==
    ASSUME TypeOK, Typed, ExecutedInOrder, ExecuteCommand
    PROVE  ExecutedInOrder'
<1>1. /\ queues \in [Kind -> Seq(1 .. issued)] /\ loop \in 1 .. 4 /\ reached \in Nat
      /\ executed \in Seq(Nat)
  BY DEF ExecuteCommand, TypeOK, Typed
<1>2. /\ loop' = loop /\ reached' = reached + 1
      /\ executed' = Append(executed, Queue[reached + 1])
      /\ MayIssue(StillToCome)
  BY DEF ExecuteCommand
<1>3. \A l \in 1 .. loop : queues'[FlushSequence[l]] = queues[FlushSequence[l]]
  <2>1. \A l \in 1 .. loop : FlushSequence[l] \in Kind \ StillToCome
    <3> SUFFICES ASSUME NEW l \in 1 .. loop PROVE FlushSequence[l] \in Kind \ StillToCome
      OBVIOUS
    <3>1. l \in 1 .. 4
      BY <1>1
    <3> QED  BY <1>1, <3>1, LoopQueue, StillToComeLater
  <2>2. StillToCome \in SUBSET Kind
    BY <1>1, StillToComeLater
  <2> QED  BY <1>2, <2>1, <2>2, MayIssueTypes
<1>4. \A l \in 1 .. loop : Before(l)' = Before(l)
  <2> SUFFICES ASSUME NEW l \in 1 .. loop PROVE Before(l)' = Before(l)
    OBVIOUS
  <2>1. \/ l = 1
        \/ l = 2 /\ 1 \in 1 .. loop
        \/ l = 3 /\ 1 \in 1 .. loop /\ 2 \in 1 .. loop
        \/ l = 4 /\ 1 \in 1 .. loop /\ 2 \in 1 .. loop /\ 3 \in 1 .. loop
    BY <1>1
  <2>2. CASE l = 1
    BY <2>2 DEF Before
  <2>3. CASE l = 2 /\ 1 \in 1 .. loop
    BY <1>3, <2>3, FlushOrder DEF Before
  <2>4. CASE l = 3 /\ 1 \in 1 .. loop /\ 2 \in 1 .. loop
    <3>1. queues'["add"] = queues["add"] /\ queues'["remove"] = queues["remove"]
      BY <1>3, <2>4, FlushOrder
    <3> QED  BY <2>4, <3>1 DEF Before
  <2>5. CASE l = 4 /\ 1 \in 1 .. loop /\ 2 \in 1 .. loop /\ 3 \in 1 .. loop
    <3>1. /\ queues'["add"] = queues["add"] /\ queues'["remove"] = queues["remove"]
          /\ queues'["set"] = queues["set"]
      BY <1>3, <2>5, FlushOrder
    <3> QED  BY <2>5, <3>1 DEF Before
  <2> QED  BY <2>1, <2>2, <2>3, <2>4, <2>5
<1>5. PICK n, c : n = Len(executed) /\ c = Queue[reached + 1]
  OBVIOUS
<1>6. /\ n \in Nat /\ Len(executed') = n + 1 /\ executed'[n + 1] = c
      /\ \A i \in 1 .. n : executed'[i] = executed[i]
  <2>1. executed' = Append(executed, c)
    BY <1>2, <1>5
  <2> QED  BY ONLY <1>1, <1>5, <2>1
<1>7. /\ n = Before(loop) + reached
      /\ \A l \in 1 .. loop : \A i \in 1 .. Done(l) :
            executed[Before(l) + i] = queues[FlushSequence[l]][i]
  BY <1>1, <1>5 DEF ExecutedInOrder
<1>8. /\ \A l \in 1 .. 4 : Before(l) \in Nat /\ Len(queues[FlushSequence[l]]) \in Nat
      /\ \A l, m \in 1 .. 4 : l < m => Before(l) + Len(queues[FlushSequence[l]]) <= Before(m)
  BY <1>1, BeforeAdds, LoopQueue
<1>9. Len(executed') = Before(loop)' + reached'
  <2>1. PICK l : l = loop
    OBVIOUS
  <2>2. l \in 1 .. loop /\ l \in 1 .. 4 /\ l = loop'
    BY <1>1, <1>2, <2>1
  <2>3. PICK b, d : b = Before(l) /\ d = Before(l)'
    OBVIOUS
  <2>4. b \in Nat /\ n = b + reached /\ d = b
    BY <1>4, <1>7, <1>8, <2>1, <2>2, <2>3
  <2>5. Len(executed') = d + reached'
    BY ONLY <1>1, <1>2, <1>6, <2>4
  <2> QED  BY <2>2, <2>3, <2>5
<1>10. ASSUME NEW l \in 1 .. loop, NEW i \in 1 .. Done(l)'
       PROVE  executed'[Before(l)' + i] = queues'[FlushSequence[l]][i]
  <2>1. l \in 1 .. 4 /\ l <= loop
    BY <1>1
  <2>2. Before(l)' = Before(l) /\ queues'[FlushSequence[l]] = queues[FlushSequence[l]]
    BY <1>3, <1>4
  <2>3. CASE l < loop
    <3>1. Done(l)' = Len(queues[FlushSequence[l]]) /\ Done(l) = Len(queues[FlushSequence[l]])
      BY <1>2, <2>2, <2>3 DEF Done
    <3>2. Before(l) + Len(queues[FlushSequence[l]]) <= Before(loop)
      BY <1>1, <1>8, <2>1, <2>3
    <3>3. Before(l) + i \in 1 .. n
      <4>1. PICK b, d, e : b = Before(l) /\ d = Len(queues[FlushSequence[l]]) /\ e = Before(loop)
        OBVIOUS
      <4>2. b \in Nat /\ d \in Nat /\ e \in Nat /\ b + d <= e /\ n = e + reached /\ i \in 1 .. d
        BY <1>1, <1>7, <1>8, <1>10, <2>1, <3>1, <3>2, <4>1
      <4>3. b + i \in 1 .. n
        BY ONLY <1>1, <1>6, <4>2
      <4> QED  BY ONLY <4>1, <4>3
    <3>4. executed[Before(l) + i] = queues[FlushSequence[l]][i]
      BY <1>7, <1>10, <3>1
    <3> QED  BY ONLY <1>6, <2>2, <3>3, <3>4
  <2>4. CASE l = loop
    <3>1. Done(l)' = reached + 1 /\ Done(l) = reached
      BY <1>1, <1>2, <2>4 DEF Done
    <3>2. i \in 1 .. reached \/ i = reached + 1
      BY <1>1, <1>10, <3>1
    <3>3. CASE i \in 1 .. reached
      <4>1. executed[Before(l) + i] = queues[FlushSequence[l]][i]
        BY <1>7, <3>1, <3>3
      <4>2. Before(l) + i \in 1 .. n
        <5>1. PICK b : b = Before(l)
          OBVIOUS
        <5>2. b \in Nat /\ n = b + reached
          BY <1>7, <1>8, <2>1, <2>4, <5>1
        <5>3. b + i \in 1 .. n
          BY ONLY <1>1, <3>3, <5>2
        <5> QED  BY ONLY <5>1, <5>3
      <4> QED  BY ONLY <1>6, <2>2, <4>1, <4>2
    <3>4. CASE i = reached + 1
      <4>1. Before(l) + i = n + 1
        <5>1. PICK b : b = Before(l)
          OBVIOUS
        <5>2. b \in Nat /\ n = b + reached
          BY <1>7, <1>8, <2>1, <2>4, <5>1
        <5>3. b + i = n + 1
          BY ONLY <1>1, <3>4, <5>2
        <5> QED  BY ONLY <5>1, <5>3
      <4>2. queues[FlushSequence[l]][i] = c
        BY <1>5, <2>4, <3>4 DEF Queue
      <4> QED  BY ONLY <1>6, <2>2, <4>1, <4>2
    <3> QED  BY <3>2, <3>3, <3>4
  <2> QED  BY <1>1, <2>1, <2>3, <2>4
<1> QED  BY <1>2, <1>9, <1>10 DEF ExecutedInOrder

\* One loop is done with, and the next begins.
LEMMA NextLoopStep ==
    ASSUME TypeOK, Typed, ExecutedInOrder, NextLoop
    PROVE  ExecutedInOrder'
<1>1. /\ queues \in [Kind -> Seq(1 .. issued)] /\ loop \in 1 .. 3
      /\ loop' = loop + 1 /\ reached = Len(queues[FlushSequence[loop]]) /\ reached' = 0
      /\ executed' = executed /\ queues' = queues
  BY FlushOrder DEF NextLoop, TypeOK, Typed, Queue
<1>0. PICK m : m = loop + 1
  OBVIOUS
<1>2. \A l : Before(l)' = Before(l)
  BY <1>1 DEF Before
<1>3. \A l \in 1 .. loop : Done(l)' = Done(l)
  <2> SUFFICES ASSUME NEW l \in 1 .. loop PROVE Done(l)' = Done(l)
    OBVIOUS
  <2>1. l < loop' /\ (l < loop \/ l = loop)
    BY <1>1
  <2>2. Done(l)' = Len(queues[FlushSequence[l]])
    BY <1>1, <2>1 DEF Done
  <2>3. Done(l) = Len(queues[FlushSequence[l]])
    BY <1>1, <2>1 DEF Done
  <2> QED  BY <2>2, <2>3
<1>4. Done(m)' = 0
  BY <1>0, <1>1 DEF Done
<1>5. Len(executed') = Before(m)' + reached'
  <2>1. Before(m) = Before(loop) + reached /\ Before(loop) \in Nat
    <3>1. loop \in 1 .. 4
      BY <1>1
    <3> QED  BY <1>0, <1>1, <3>1, BeforeAdds
  <2>2. Len(executed) = Before(loop) + reached
    BY <1>1 DEF ExecutedInOrder
  <2>3. Before(m)' = Before(m)
    BY <1>2
  <2>4. reached \in Nat
    BY DEF Typed
  <2>5. PICK b, c, d : b = Before(loop) /\ c = Before(m) /\ d = Before(m)'
    OBVIOUS
  <2>6. b \in Nat /\ c = b + reached /\ Len(executed) = b + reached /\ d = c
    BY ONLY <2>1, <2>2, <2>3, <2>5
  <2>7. Len(executed') = d + reached'
    BY ONLY <1>1, <2>4, <2>6
  <2> QED  BY ONLY <2>5, <2>7
<1>6. ASSUME NEW l \in 1 .. m, NEW i \in 1 .. Done(l)'
      PROVE  executed'[Before(l)' + i] = queues'[FlushSequence[l]][i]
  <2>1. l \in 1 .. loop \/ l = m
    BY <1>0, <1>1
  <2>2. CASE l \in 1 .. loop
    <3>1. executed[Before(l) + i] = queues[FlushSequence[l]][i]
      BY <1>1, <1>3, <1>6, <2>2 DEF ExecutedInOrder
    <3> QED  BY ONLY <1>1, <1>2, <3>1
  <2>3. CASE l = m
    <3>1. i \in 1 .. 0
      BY ONLY <1>4, <2>3, i \in 1 .. Done(l)'
    <3> QED  BY ONLY <3>1
  <2> QED  BY <2>1, <2>2, <2>3
<1>7. m = loop'
  BY <1>0, <1>1
<1> QED  BY <1>5, <1>6, <1>7 DEF ExecutedInOrder

\* Every step keeps the order of the flush.
LEMMA FlushStep ==
    ASSUME TypeOK, Typed, ExecutedInOrder, [Next]_vars
    PROVE  ExecutedInOrder'
<1>1. CASE loop' = 0
  BY <1>1 DEF ExecutedInOrder
<1>2. CASE UNCHANGED <<loop, reached, executed, queues>>
  BY <1>2, ExecutedKept
<1>3. CASE BeginFlush
  <2>1. loop' = 1 /\ reached' = 0 /\ executed' = << >>
    BY <1>3 DEF BeginFlush
  <2>2. Len(executed') = 0 /\ Before(1)' = 0
    BY <2>1 DEF Before
  <2>3. Done(1)' = 0 /\ \A l \in 1 .. loop' : l = 1
    BY <2>1 DEF Done
  <2>4. \A i \in 1 .. 0 : FALSE
    OBVIOUS
  <2> QED  BY <2>1, <2>2, <2>3, <2>4 DEF ExecutedInOrder
<1>4. CASE ExecuteCommand
  BY <1>4, ExecuteStep
<1>5. CASE NextLoop
  BY <1>5, NextLoopStep
<1>6. ASSUME NEW k \in Kind, ClientIssue(k)
      PROVE  loop' = 0
  BY <1>6 DEF ClientIssue, Idle, TypeOK, position
<1>7. CASE RunSystem
  BY <1>1, <1>7 DEF RunSystem, Running
<1>8. CASE EndFlush
  BY <1>1, <1>8 DEF EndFlush
<1> QED
  BY <1>1, <1>2, <1>3, <1>4, <1>5, <1>6, <1>7, <1>8
     DEF Next, Step, RegisterSystem, InitSingleton, Start, Progress, Call, SkipSystem,
         position, vars

\* The whole invariant: every step keeps it.
LEMMA ScheduleInvStep ==
    ScheduleInv /\ [Next]_vars => ScheduleInv'
BY ScheduleTypeStep, PointersStep, QueuedStep, FlushStep DEF ScheduleInv

\* Positions, pointers, queues and what the flush has executed agree, always.
THEOREM ScheduleInvariant == Spec => []ScheduleInv
<1>1. Init => ScheduleInv
  <2> SUFFICES ASSUME Init PROVE ScheduleInv
    OBVIOUS
  <2>1. PointersFresh /\ ExecutedInOrder
    BY DEF Init, PointersFresh, ExecutedInOrder
  <2>2. QueuedOnce
    <3>1. queues = [k \in Kind |-> << >>] /\ issued = 0
      BY DEF Init
    <3>2. Before(4) + Len(queues["kill"]) = 0
      BY <3>1 DEF Before, Kind
    <3>3. \A k \in Kind : DOMAIN queues[k] = {}
      BY <3>1
    <3> QED  BY <3>1, <3>2, <3>3 DEF QueuedOnce
  <2> QED  BY <2>1, <2>2, ScheduleInitTypes DEF ScheduleInv
<1> QED  BY <1>1, ScheduleInvStep, PTL DEF Spec

\* A position in the flush lies in one of its loops.
LEMMA PositionInLoop ==
    ASSUME TypeOK, Typed, QueuedOnce, NEW p \in 1 .. issued
    PROVE  \E l \in 1 .. 4 : \E i \in 1 .. Len(queues[FlushSequence[l]]) : p = Before(l) + i
<1>1. PICK a, r, s, k : /\ a = Len(queues["add"]) /\ r = Len(queues["remove"])
                        /\ s = Len(queues["set"]) /\ k = Len(queues["kill"])
  OBVIOUS
<1>2. a \in Nat /\ r \in Nat /\ s \in Nat /\ k \in Nat /\ issued \in Nat
  <2>1. queues \in [Kind -> Seq(1 .. issued)] /\ issued \in Nat
    BY DEF TypeOK, Typed
  <2> QED  BY <1>1, <2>1 DEF Kind
<1>3. a + r + s + k = issued
  BY <1>1, BeforeValues DEF QueuedOnce
<1>4. /\ Before(1) = 0 /\ Before(2) = a /\ Before(3) = a + r /\ Before(4) = a + r + s
      /\ Len(queues[FlushSequence[1]]) = a /\ Len(queues[FlushSequence[2]]) = r
      /\ Len(queues[FlushSequence[3]]) = s /\ Len(queues[FlushSequence[4]]) = k
  BY <1>1, BeforeValues, FlushOrder
<1>5. \/ p \in 1 .. a /\ p = 0 + p
      \/ p - a \in 1 .. r /\ p = a + (p - a)
      \/ p - (a + r) \in 1 .. s /\ p = a + r + (p - (a + r))
      \/ p - (a + r + s) \in 1 .. k /\ p = a + r + s + (p - (a + r + s))
  BY ONLY <1>2, <1>3, p \in 1 .. issued
<1>6. 1 \in 1 .. 4 /\ 2 \in 1 .. 4 /\ 3 \in 1 .. 4 /\ 4 \in 1 .. 4
  OBVIOUS
<1> QED  BY ONLY <1>4, <1>5, <1>6

\* When the last loop is done, the flush has executed what was issued, once, and
\* the kills last.
LEMMA FlushEnds ==
    ASSUME ScheduleInv, EndFlush
    PROVE  LET kills == Range(queues["kill"])
           IN  /\ Len(executed) = issued
               /\ Range(executed) = 1 .. issued
               /\ \A i, j \in DOMAIN executed :
                     executed[i] \in kills /\ executed[j] \notin kills => j < i
<1> DEFINE kills == Range(queues["kill"])
<1>1. /\ queues \in [Kind -> Seq(1 .. issued)] /\ issued \in Nat /\ executed \in Seq(Nat)
      /\ QueuedOnce /\ ExecutedInOrder /\ TypeOK /\ Typed
  BY DEF ScheduleInv, TypeOK, Typed
<1>2. loop = 4 /\ reached = Len(queues["kill"])
  BY FlushOrder DEF EndFlush, Queue
<1>3. Len(executed) = issued
  <2>1. Len(executed) = Before(4) + reached
    BY <1>1, <1>2 DEF ExecutedInOrder
  <2> QED  BY <1>1, <1>2, <2>1 DEF QueuedOnce
<1>4. ASSUME NEW l \in 1 .. 4
      PROVE  /\ DOMAIN queues[FlushSequence[l]] = 1 .. Len(queues[FlushSequence[l]])
             /\ FlushSequence[l] \in Kind
             /\ \A i \in 1 .. Len(queues[FlushSequence[l]]) :
                   /\ executed[Before(l) + i] = queues[FlushSequence[l]][i]
                   /\ queues[FlushSequence[l]][i] \in 1 .. issued
                   /\ Before(l) + i \in 1 .. issued
  <2>1. PICK q, T, b : q = queues[FlushSequence[l]] /\ T = 1 .. issued /\ b = Before(l)
    OBVIOUS
  <2>2. q \in Seq(T) /\ FlushSequence[l] \in Kind
    BY <1>1, <2>1, LoopQueue
  <2>3. DOMAIN q = 1 .. Len(q) /\ Len(q) \in Nat /\ \A i \in 1 .. Len(q) : q[i] \in T
    BY ONLY <2>2
  <2>4. Done(l) = Len(q)
    <3>1. l < 4 \/ l = 4
      OBVIOUS
    <3> QED  BY <1>2, <2>1, <3>1, FlushOrder DEF Done
  <2>5. \A i \in 1 .. Len(q) : executed[b + i] = q[i]
    <3>1. loop # 0 /\ l \in 1 .. loop
      BY ONLY <1>2, l \in 1 .. 4
    <3>2. \A i \in 1 .. Done(l) : executed[Before(l) + i] = queues[FlushSequence[l]][i]
      BY ONLY <1>1, <3>1, Zenon DEF ExecutedInOrder
    <3> QED  BY ONLY <2>1, <2>4, <3>2, Zenon
  <2>6. b \in Nat /\ b + Len(q) <= issued
    <3>1. b \in Nat
      BY <1>1, <2>1, BeforeAdds
    <3>2. CASE l < 4
      <4>1. b + Len(q) <= Before(4)
        <5>1. \A x, y \in 1 .. 4 :
                 x < y => Before(x) + Len(queues[FlushSequence[x]]) <= Before(y)
          BY <1>1, BeforeAdds
        <5>2. 4 \in 1 .. 4
          OBVIOUS
        <5> QED  BY ONLY <2>1, <3>2, <5>1, <5>2, l \in 1 .. 4
      <4>2. PICK e, k : e = Before(4) /\ k = Len(queues["kill"])
        OBVIOUS
      <4>3. e \in Nat /\ k \in Nat /\ e + k = issued
        BY <1>1, <4>2, BeforeAdds DEF QueuedOnce, Kind
      <4>4. b + Len(q) <= e
        BY <4>1, <4>2
      <4> QED  BY ONLY <1>1, <2>3, <3>1, <4>3, <4>4
    <3>3. CASE l = 4
      BY <1>1, <2>1, <3>1, <3>3, FlushOrder DEF QueuedOnce
    <3>4. l < 4 \/ l = 4
      OBVIOUS
    <3> QED  BY <3>1, <3>2, <3>3, <3>4
  <2>7. \A i \in 1 .. Len(q) : b + i \in 1 .. issued
    BY ONLY <1>1, <2>3, <2>6
  <2> QED  BY ONLY <2>1, <2>2, <2>3, <2>5, <2>7
<1>5. DOMAIN executed = 1 .. issued
  BY <1>1, <1>3
<1>6. \A n \in 1 .. issued : executed[n] \in 1 .. issued
  <2> SUFFICES ASSUME NEW n \in 1 .. issued PROVE executed[n] \in 1 .. issued
    OBVIOUS
  <2>1. PICK l \in 1 .. 4 : \E i \in 1 .. Len(queues[FlushSequence[l]]) : n = Before(l) + i
    BY <1>1, PositionInLoop
  <2>2. PICK q, b : q = queues[FlushSequence[l]] /\ b = Before(l)
    OBVIOUS
  <2>3. PICK i \in 1 .. Len(q) : n = b + i
    BY <2>1, <2>2
  <2>4. executed[b + i] = q[i] /\ q[i] \in 1 .. issued
    BY <1>4, <2>2
  <2> QED  BY ONLY <2>3, <2>4
<1>7. \A n \in 1 .. issued : \E j \in 1 .. issued : executed[j] = n
  <2> SUFFICES ASSUME NEW n \in 1 .. issued
               PROVE  \E j \in 1 .. issued : executed[j] = n
    OBVIOUS
  <2>1. PICK k \in Kind : \E i \in DOMAIN queues[k] : queues[k][i] = n
    BY <1>1 DEF QueuedOnce
  <2>2. \E l \in 1 .. 4 : k = FlushSequence[l]
    <3>1. 1 \in 1 .. 4 /\ 2 \in 1 .. 4 /\ 3 \in 1 .. 4 /\ 4 \in 1 .. 4
      OBVIOUS
    <3> QED  BY <3>1, FlushOrder DEF Kind
  <2>3. PICK l \in 1 .. 4 : k = FlushSequence[l]
    BY <2>2
  <2>4. PICK i \in 1 .. Len(queues[FlushSequence[l]]) : queues[FlushSequence[l]][i] = n
    BY <1>4, <2>1, <2>3
  <2>5. executed[Before(l) + i] = n /\ Before(l) + i \in 1 .. issued
    BY <1>4, <2>4
  <2> QED  BY <2>5
<1>8. Range(executed) = 1 .. issued
  BY ONLY <1>5, <1>6, <1>7 DEF Range
<1>9. ASSUME NEW p \in 1 .. issued
      PROVE  IF executed[p] \in kills THEN p > Before(4) ELSE p <= Before(4)
  <2>1. PICK l \in 1 .. 4 : \E i \in 1 .. Len(queues[FlushSequence[l]]) : p = Before(l) + i
    BY <1>1, PositionInLoop
  <2>2. PICK i \in 1 .. Len(queues[FlushSequence[l]]) : p = Before(l) + i
    BY <2>1
  <2>3. /\ executed[p] = queues[FlushSequence[l]][i] /\ FlushSequence[l] \in Kind
        /\ i \in DOMAIN queues[FlushSequence[l]]
    BY <1>4, <2>2
  <2>4. PICK b, e, d : b = Before(l) /\ e = Before(4) /\ d = Len(queues[FlushSequence[l]])
    OBVIOUS
  <2>5. b \in Nat /\ e \in Nat /\ d \in Nat
    <3>1. /\ \A m \in 1 .. 4 : Before(m) \in Nat
          /\ Len(queues[FlushSequence[l]]) \in Nat
      BY <1>1, BeforeAdds, LoopQueue
    <3> QED  BY <2>4, <3>1
  <2>6. CASE l = 4
    <3>1. executed[p] \in kills
      BY <2>3, <2>6, FlushOrder DEF Range
    <3>2. p > e
      BY ONLY <2>2, <2>4, <2>5, <2>6
    <3> QED  BY <2>4, <3>1, <3>2
  <2>7. CASE l < 4
    <3>1. executed[p] \notin kills
      <4>1. FlushSequence[l] # "kill"
        <5>1. l = 1 \/ l = 2 \/ l = 3
          BY <2>7
        <5> QED  BY <5>1, FlushOrder
      <4>2. \A j \in DOMAIN queues["kill"] : queues["kill"][j] # executed[p]
        <5>1. "kill" \in Kind
          BY DEF Kind
        <5>2. \A k, m \in Kind : \A x \in DOMAIN queues[k], y \in DOMAIN queues[m] :
                 queues[k][x] = queues[m][y] => k = m
          BY <1>1 DEF QueuedOnce
        <5> QED  BY ONLY <2>3, <4>1, <5>1, <5>2
      <4> QED  BY <4>2 DEF Range
    <3>2. b + d <= e
      <4>1. \A x, y \in 1 .. 4 :
               x < y => Before(x) + Len(queues[FlushSequence[x]]) <= Before(y)
        BY <1>1, BeforeAdds
      <4>2. 4 \in 1 .. 4
        OBVIOUS
      <4> QED  BY ONLY <2>4, <2>7, <4>1, <4>2, l \in 1 .. 4
    <3>3. p <= e
      BY ONLY <2>2, <2>4, <2>5, <3>2, p \in 1 .. issued
    <3> QED  BY <2>4, <3>1, <3>3
  <2>8. l = 4 \/ l < 4
    OBVIOUS
  <2> QED  BY <2>6, <2>7, <2>8
<1>10. ASSUME NEW i \in DOMAIN executed, NEW j \in DOMAIN executed,
              executed[i] \in kills, executed[j] \notin kills
       PROVE  j < i
  <2>1. PICK e : e = Before(4)
    OBVIOUS
  <2>2. i > e /\ j <= e
    BY <1>5, <1>9, <1>10, <2>1
  <2>3. e \in Nat /\ i \in 1 .. issued /\ j \in 1 .. issued
    BY <1>1, <1>5, <2>1, BeforeAdds
  <2> QED  BY ONLY <1>1, <2>2, <2>3
<1> QED  BY <1>3, <1>8, <1>10

\* The flush that ends a phase executes every command issued since the last one,
\* by systems, by the client and by hooks, once each, and the kills last.
THEOREM FlushesComplete == Spec => FlushComplete
<1>1. ASSUME ScheduleInv, Next, loop # 0, loop' = 0
      PROVE  LET kills == Range(queues["kill"])
             IN  /\ Len(executed) = issued
                 /\ Range(executed) = 1 .. issued
                 /\ \A i, j \in DOMAIN executed :
                       executed[i] \in kills /\ executed[j] \notin kills => j < i
  <2>1. loop \in 1 .. 4
    BY <1>1 DEF ScheduleInv, Typed
  <2>2. loop' # loop /\ loop' # loop + 1 /\ loop' # 1
    BY <1>1, <2>1
  <2>3. ~NextLoop /\ ~BeginFlush /\ ~ExecuteCommand /\ ~RunSystem /\ ~SkipSystem
    BY ONLY <2>2 DEF NextLoop, BeginFlush, ExecuteCommand, RunSystem, SkipSystem
  <2>4. ~InitSingleton /\ ~Start /\ ~Progress /\ (\A k \in Kind : ~ClientIssue(k))
    BY ONLY <2>2 DEF InitSingleton, Start, Progress, Call, ClientIssue, position
  <2>5. \A p \in UsedPhases, wish \in Wishes : ~RegisterSystem(p, wish)
    BY ONLY <2>2 DEF RegisterSystem, position
  <2>6. EndFlush
    BY ONLY <1>1, <2>3, <2>4, <2>5 DEF Next, Step
  <2> QED  BY <1>1, <2>6, FlushEnds
<1>2. ScheduleInv /\ [Next]_vars =>
        [loop # 0 /\ loop' = 0 =>
            LET kills == Range(queues["kill"])
            IN  /\ Len(executed) = issued
                /\ Range(executed) = 1 .. issued
                /\ \A i, j \in DOMAIN executed :
                      executed[i] \in kills /\ executed[j] \notin kills => j < i]_vars
  BY <1>1
<1> QED  BY <1>2, ScheduleInvariant, PTL DEF Spec, FlushComplete

-----------------------------------------------------------------------------
(* Frames *)

\* How many phases of the frame are finished.
Finished == Len(called) - Len(todo)

\* The systems that had their turn.
Past(x) == x[1] <= Finished \/ (x[1] = Finished + 1 /\ x[2] <= turn)

\* Each system has a number of its own, and the numbers have no gap.
Numbered ==
    /\ \A p, q \in Phase : \A i \in DOMAIN systems[p], j \in DOMAIN systems[q] :
          systems[p][i].id = systems[q][j].id => p = q /\ i = j
    /\ \E n \in Nat : {sys.id : sys \in Registered} = 1 .. n

\* Those that ran had their turn, those without conditions whose turn has been ran,
\* all once and in order.
InOrder ==
    /\ \A x \in Places : RunsOf(x) # {} => Past(x)
    /\ \A x \in Places : Past(x) /\ SystemAt(x).conditions = << >> => RunsOf(x) # {}
    /\ \A x \in Places : \A k, l \in RunsOf(x) : k = l
    /\ \A x, y \in Places : Earlier(x, y) => \A k \in RunsOf(x), l \in RunsOf(y) : k < l

\* A frame, and its flush, which begins when the systems of the phase are through.
FrameInv ==
    /\ Numbered
    /\ todo # << >> => InOrder
    /\ loop # 0 => turn = Len(systems[Head(todo)])

\* The phases of a frame are different ones.
LEMMA PhasesDiffer ==
    ASSUME called \in {<< >>, StartPhases, ProgressPhases},
           NEW i \in DOMAIN called, NEW j \in DOMAIN called, called[i] = called[j]
    PROVE  i = j
<1>1. CASE called = << >>
  BY <1>1
<1>2. CASE called = StartPhases
  <2>1. DOMAIN StartPhases = 1 .. 3
    BY DEF StartPhases
  <2>2. i \in {1, 2, 3} /\ j \in {1, 2, 3}
    BY <1>2, <2>1
  <2>3. StartPhases[1] = "PreStartup" /\ StartPhases[2] = "Startup" /\ StartPhases[3] = "PostStartup"
    BY DEF StartPhases
  <2> QED  BY <1>2, <2>2, <2>3
<1>3. CASE called = ProgressPhases
  <2>1. DOMAIN ProgressPhases = 1 .. 6
    BY DEF ProgressPhases
  <2>2. i \in {1, 2, 3, 4, 5, 6} /\ j \in {1, 2, 3, 4, 5, 6}
    BY <1>3, <2>1
  <2>3. /\ ProgressPhases[1] = "PreUpdate" /\ ProgressPhases[2] = "Update"
        /\ ProgressPhases[3] = "PostUpdate" /\ ProgressPhases[4] = "Physics"
        /\ ProgressPhases[5] = "PreRender" /\ ProgressPhases[6] = "Render"
    BY DEF ProgressPhases
  <2> QED  BY <1>3, <2>2, <2>3
<1> QED  BY <1>1, <1>2, <1>3

\* What is known of the phase that runs.
AtPhase(d, m, s) ==
    /\ d \in Nat /\ m \in Nat /\ m = Len(todo) /\ m # 0
    /\ d = Finished /\ d + m = Len(called)
    /\ d + 1 \in DOMAIN called
    /\ called[d + 1] = Head(todo) /\ Head(todo) \in Phase
    /\ s = systems[Head(todo)] /\ s \in Seq(System) /\ Len(s) \in Nat
    /\ turn \in Nat /\ turn <= Len(s)

\* The phase that runs is the first unfinished one of those called.
LEMMA PhaseRuns ==
    ASSUME TypeOK, Typed, todo # << >>
    PROVE  \E d, m, s : AtPhase(d, m, s)
<1>1. called \in Seq(Phase) /\ todo \in Seq(Phase) /\ IsSuffix(todo, called)
  BY PhaseLists DEF TypeOK, Typed
<1>2. PICK m, n : m = Len(todo) /\ n = Len(called)
  OBVIOUS
<1>3. /\ m \in Nat /\ n \in Nat /\ m # 0 /\ m <= n
      /\ \A i \in 1 .. m : todo[i] = called[n - m + i]
  BY <1>1, <1>2, SuffixElements
<1>4. PICK d \in Nat : d = n - m
  BY <1>3
<1>5. d + 1 \in 1 .. n /\ todo[1] = called[d + 1] /\ d + m = n
  BY ONLY <1>3, <1>4
<1>6. Head(todo) = todo[1] /\ Head(todo) \in Phase
  BY <1>1, <1>2, <1>3
<1>7. DOMAIN called = 1 .. n
  BY <1>1, <1>2
<1>8. systems[Head(todo)] \in Seq(System)
  BY <1>6 DEF TypeOK
<1>9. turn \in Nat /\ turn <= Len(systems[Head(todo)])
  BY DEF TypeOK, Typed
<1>10. AtPhase(d, m, systems[Head(todo)])
  BY <1>2, <1>3, <1>4, <1>5, <1>6, <1>7, <1>8, <1>9 DEF AtPhase, Finished
<1> QED  BY <1>10

\* A place is one of a phase called and of a system of it.
LEMMA PlaceParts ==
    ASSUME TypeOK, Typed, NEW x \in Places
    PROVE  /\ x[1] \in DOMAIN called /\ x[1] \in Nat /\ x[2] \in Nat /\ 1 <= x[2]
           /\ called[x[1]] \in Phase
           /\ x[2] \in DOMAIN systems[called[x[1]]]
           /\ x = <<x[1], x[2]>>
           /\ SystemAt(x) = systems[called[x[1]]][x[2]]
<1>1. called \in Seq(Phase)
  BY PhaseLists DEF Typed
<1>2. PICK i \in DOMAIN called : \E j \in DOMAIN systems[called[i]] : x = <<i, j>>
  BY Zenon DEF Places
<1>3. PICK j \in DOMAIN systems[called[i]] : x = <<i, j>>
  BY Zenon, <1>2
<1>4. x[1] = i /\ x[2] = j
  BY ONLY <1>3
<1>5. i \in Nat /\ called[i] \in Phase
  BY <1>1
<1>6. systems[called[i]] \in Seq(System)
  BY <1>5 DEF TypeOK
<1>7. j \in Nat /\ 1 <= j
  BY <1>6
<1> QED  BY <1>3, <1>4, <1>5, <1>7 DEF SystemAt

\* Different places have different systems.
LEMMA PlacesDiffer ==
    ASSUME TypeOK, Typed, Numbered, NEW x \in Places, NEW y \in Places,
           SystemAt(x).id = SystemAt(y).id
    PROVE  x = y
<1>1. PICK a, b, c, d : x = <<a, b>> /\ y = <<c, d>> /\ a = x[1] /\ b = x[2] /\ c = y[1] /\ d = y[2]
  BY PlaceParts
<1>2. /\ a \in DOMAIN called /\ called[a] \in Phase /\ b \in DOMAIN systems[called[a]]
      /\ SystemAt(x) = systems[called[a]][b]
  BY <1>1, PlaceParts
<1>3. /\ c \in DOMAIN called /\ called[c] \in Phase /\ d \in DOMAIN systems[called[c]]
      /\ SystemAt(y) = systems[called[c]][d]
  BY <1>1, PlaceParts
<1>4. called[a] = called[c] /\ b = d
  BY <1>2, <1>3 DEF Numbered
<1>5. a = c
  BY <1>2, <1>3, <1>4, PhasesDiffer DEF Typed
<1> QED  BY <1>1, <1>4, <1>5

\* No place is earlier than itself or than one that is earlier.
LEMMA EarlierOrders ==
    ASSUME TypeOK, Typed, NEW x \in Places, NEW y \in Places, Earlier(x, y)
    PROVE  x # y /\ ~Earlier(y, x)
<1>1. x[1] \in Nat /\ x[2] \in Nat /\ y[1] \in Nat /\ y[2] \in Nat
  BY PlaceParts
<1> QED  BY <1>1 DEF Earlier

\* A system that is registered gets the next number.
LEMMA NumberedStep ==
    ASSUME TypeOK, Numbered, NEW p \in UsedPhases, NEW wish \in Wishes, RegisterSystem(p, wish)
    PROVE  Numbered'
<1>1. PICK N \in Nat : {sys.id : sys \in Registered} = 1 .. N
  BY DEF Numbered
<1>2. Cardinality({sys.id : sys \in Registered}) = N
  <2>1. Cardinality(1 .. N) = IF 1 > N THEN 0 ELSE N - 1 + 1
    BY FS_Interval
  <2>2. Cardinality(1 .. N) = N
    BY ONLY N \in Nat, <2>1
  <2> QED  BY Zenon, <1>1, <2>2
<1>3. PICK sys : sys.id = N + 1 /\ systems' = [systems EXCEPT ![p] = Append(@, sys)]
  <2>1. PICK sys : sys = [id |-> N + 1, conditions |-> [j \in DOMAIN wish |-> Built(wish[j])]]
    OBVIOUS
  <2>2. sys.id = N + 1
    BY <2>1
  <2>3. systems' = [systems EXCEPT ![p] = Append(@, sys)]
    BY <1>2, <2>1 DEF RegisterSystem
  <2> QED  BY <2>2, <2>3
<1>4. p \in Phase /\ systems \in [Phase -> Seq(System)]
  BY ScheduleAssumption DEF TypeOK
<1>5. PICK s, n : s = systems[p] /\ n = Len(s)
  OBVIOUS
<1>6. s \in Seq(System) /\ n \in Nat /\ DOMAIN s = 1 .. n
  BY <1>4, <1>5
<1>7. PICK t : t = Append(s, sys)
  OBVIOUS
<1>8. /\ systems'[p] = t /\ \A q \in Phase : q # p => systems'[q] = systems[q]
      /\ DOMAIN t = 1 .. n + 1 /\ t[n + 1] = sys
      /\ \A i \in 1 .. n : t[i] = s[i]
  <2>1. systems'[p] = t /\ \A q \in Phase : q # p => systems'[q] = systems[q]
    BY <1>3, <1>4, <1>5, <1>7
  <2>2. DOMAIN t = 1 .. n + 1 /\ t[n + 1] = sys /\ \A i \in 1 .. n : t[i] = s[i]
    BY <1>5, <1>6, <1>7, AppendProperties
  <2> QED  BY <2>1, <2>2
<1>9. \A q \in Phase : \A i \in DOMAIN systems[q] : systems[q][i].id \in 1 .. N
  <2> SUFFICES ASSUME NEW q \in Phase, NEW i \in DOMAIN systems[q]
               PROVE  systems[q][i].id \in 1 .. N
    OBVIOUS
  <2>1. systems[q][i] \in Registered
    BY DEF Registered, Range
  <2> QED  BY <1>1, <2>1
<1>10. ASSUME NEW q \in Phase, NEW i \in DOMAIN systems'[q]
       PROVE  \/ q = p /\ i = n + 1 /\ systems'[q][i].id = N + 1
              \/ i \in DOMAIN systems[q] /\ systems'[q][i].id = systems[q][i].id
                 /\ systems'[q][i].id \in 1 .. N
  <2>1. CASE q # p
    BY <1>8, <1>9, <2>1
  <2>2. CASE q = p /\ i = n + 1
    BY <1>3, <1>8, <2>2
  <2>3. CASE q = p /\ i # n + 1
    <3>1. i \in 1 .. n
      BY <1>6, <1>8, <2>3
    <3> QED  BY <1>5, <1>6, <1>8, <1>9, <2>3, <3>1
  <2> QED  BY <2>1, <2>2, <2>3
<1>11. ASSUME NEW q \in Phase, NEW r \in Phase, NEW i \in DOMAIN systems'[q],
              NEW j \in DOMAIN systems'[r], systems'[q][i].id = systems'[r][j].id
       PROVE  q = r /\ i = j
  <2>1. N + 1 \notin 1 .. N
    OBVIOUS
  <2>2. \/ q = p /\ i = n + 1 /\ systems'[q][i].id = N + 1
        \/ i \in DOMAIN systems[q] /\ systems'[q][i].id = systems[q][i].id
           /\ systems'[q][i].id \in 1 .. N
    BY <1>10
  <2>3. \/ r = p /\ j = n + 1 /\ systems'[r][j].id = N + 1
        \/ j \in DOMAIN systems[r] /\ systems'[r][j].id = systems[r][j].id
           /\ systems'[r][j].id \in 1 .. N
    BY <1>10
  <2>4. i \in DOMAIN systems[q] /\ j \in DOMAIN systems[r]
        /\ systems[q][i].id = systems[r][j].id => q = r /\ i = j
    BY DEF Numbered
  <2>5. PICK a, b : a = systems'[q][i].id /\ b = systems'[r][j].id
    OBVIOUS
  <2>6. a = b
    BY <1>11, <2>5
  <2>7. \/ q = p /\ i = n + 1 /\ a = N + 1
        \/ i \in DOMAIN systems[q] /\ a = systems[q][i].id /\ a \in 1 .. N
    BY Zenon, <2>2, <2>5
  <2>8. \/ r = p /\ j = n + 1 /\ b = N + 1
        \/ j \in DOMAIN systems[r] /\ b = systems[r][j].id /\ b \in 1 .. N
    BY Zenon, <2>3, <2>5
  <2>9. \/ q = p /\ i = n + 1 /\ r = p /\ j = n + 1
        \/ i \in DOMAIN systems[q] /\ a = systems[q][i].id
           /\ j \in DOMAIN systems[r] /\ b = systems[r][j].id
    BY Zenon, <2>1, <2>6, <2>7, <2>8
  <2>10. CASE q = p /\ i = n + 1 /\ r = p /\ j = n + 1
    BY ONLY <2>10
  <2>11. CASE i \in DOMAIN systems[q] /\ a = systems[q][i].id
              /\ j \in DOMAIN systems[r] /\ b = systems[r][j].id
    BY Zenon, <2>4, <2>6, <2>11
  <2> QED  BY <2>9, <2>10, <2>11
<1>12. {x.id : x \in Registered'} = 1 .. N + 1
  <2>1. ASSUME NEW x \in Registered'
        PROVE  x.id \in 1 .. N + 1
    <3>1. PICK q \in Phase : x \in Range(systems'[q])
      BY DEF Registered
    <3>2. PICK i \in DOMAIN systems'[q] : x = systems'[q][i]
      BY <3>1 DEF Range
    <3> QED  BY <1>10, <3>2
  <2>2. ASSUME NEW k \in 1 .. N + 1
        PROVE  \E x \in Registered' : x.id = k
    <3>1. CASE k = N + 1
      <4>1. n + 1 \in DOMAIN systems'[p] /\ systems'[p][n + 1] = sys
        BY <1>6, <1>8
      <4>2. sys \in Registered'
        BY <1>4, <4>1 DEF Registered, Range
      <4> QED  BY <1>3, <3>1, <4>2
    <3>2. CASE k # N + 1
      <4>1. k \in 1 .. N
        BY <3>2
      <4>2. PICK x \in Registered : x.id = k
        BY <1>1, <4>1
      <4>3. PICK q \in Phase : x \in Range(systems[q])
        BY DEF Registered
      <4>4. PICK i \in DOMAIN systems[q] : x = systems[q][i]
        BY <4>3 DEF Range
      <4>5. i \in DOMAIN systems'[q] /\ systems'[q][i] = x
        BY <1>5, <1>6, <1>8, <4>4
      <4>6. x \in Registered'
        BY <4>5 DEF Registered, Range
      <4> QED  BY <4>2, <4>6
    <3> QED  BY <3>1, <3>2
  <2> QED  BY <2>1, <2>2
<1>13. \E m \in Nat : {x.id : x \in Registered'} = 1 .. m
  <2>1. PICK m \in Nat : m = N + 1
    OBVIOUS
  <2> QED  BY <1>12, <2>1
<1> QED  BY <1>11, <1>13 DEF Numbered

\* The system whose turn it is.
OnTurn(c, d, s) ==
    /\ c = <<d + 1, turn + 1>> /\ c[1] = d + 1 /\ c[2] = turn + 1
    /\ c \in Places /\ SystemAt(c) = Current /\ Current \in System

\* Its place follows the places of those that had their turn.
LEMMA TurnIsPlace ==
    ASSUME TypeOK, Typed, NEW d, NEW m, NEW s, AtPhase(d, m, s), turn < Len(s)
    PROVE  \E c : OnTurn(c, d, s)
<1>1. /\ d \in Nat /\ d + 1 \in DOMAIN called /\ called[d + 1] = Head(todo)
      /\ s = systems[Head(todo)] /\ s \in Seq(System) /\ Len(s) \in Nat
      /\ turn \in Nat
  BY DEF AtPhase
<1>2. turn + 1 \in DOMAIN s /\ s[turn + 1] \in System
  BY <1>1
<1>3. PICK i, j, c : i = d + 1 /\ j = turn + 1 /\ c = <<i, j>>
  OBVIOUS
<1>4. c[1] = i /\ c[2] = j
  BY ONLY <1>3
<1>5. i \in DOMAIN called /\ called[i] = Head(todo) /\ systems[called[i]] = s /\ j \in DOMAIN s
  BY <1>1, <1>2, <1>3
<1>6. c \in Places
  <2>1. j \in DOMAIN systems[called[i]]
    BY <1>5
  <2>2. c \in {<<i, k>> : k \in DOMAIN systems[called[i]]}
    BY ONLY <1>3, <2>1
  <2>3. {<<i, k>> : k \in DOMAIN systems[called[i]]}
          \in {{<<h, k>> : k \in DOMAIN systems[called[h]]} : h \in DOMAIN called}
    BY ONLY <1>5, Zenon
  <2> QED  BY ONLY <2>2, <2>3 DEF Places
<1>7. SystemAt(c) = s[j]
  BY <1>4, <1>5 DEF SystemAt
<1>8. Current = s[j]
  BY <1>1, <1>3 DEF Current
<1>9. OnTurn(c, d, s)
  BY <1>1, <1>2, <1>3, <1>4, <1>6, <1>7, <1>8 DEF OnTurn
<1> QED  BY <1>9

\* The systems that had their turn, by the place of the one whose turn it is.
LEMMA TurnPast ==
    ASSUME TypeOK, Typed, NEW d, NEW m, NEW s, AtPhase(d, m, s), NEW c, OnTurn(c, d, s),
           todo' = todo, called' = called, turn' = turn + 1, NEW x \in Places
    PROVE  /\ Past(x)' <=> Past(x) \/ x = c
           /\ ~Past(c)
           /\ Earlier(c, x) => ~Past(x)
<1>1. /\ d \in Nat /\ Finished = d /\ turn \in Nat /\ Finished' = d
      /\ c = <<d + 1, turn + 1>> /\ c[1] = d + 1 /\ c[2] = turn + 1
  BY DEF AtPhase, OnTurn, Finished
<1>2. PICK a, b : a = x[1] /\ b = x[2] /\ x = <<a, b>> /\ a \in Nat /\ b \in Nat
  BY PlaceParts
<1>3. x = c <=> a = d + 1 /\ b = turn + 1
  BY <1>1, <1>2
<1>4. /\ Past(x) <=> a <= d \/ (a = d + 1 /\ b <= turn)
      /\ Past(x)' <=> a <= d \/ (a = d + 1 /\ b <= turn + 1)
      /\ Past(c) <=> d + 1 <= d \/ (d + 1 = d + 1 /\ turn + 1 <= turn)
      /\ Earlier(c, x) <=> d + 1 < a \/ (d + 1 = a /\ turn + 1 < b)
  BY <1>1, <1>2 DEF Past, Earlier
<1>5. turn \in Nat /\ d \in Nat
  BY <1>1
<1> QED  BY <1>2, <1>3, <1>4, <1>5

\* What a system that runs appends to the history.
Appended(n, id) ==
    /\ n \in Nat /\ DOMAIN ran = 1 .. n /\ DOMAIN ran' = 1 .. n + 1
    /\ ran'[n + 1] = id /\ \A k \in 1 .. n : ran'[k] = ran[k]

\* A system that runs does so for the first time, after all that have run.
LEMMA RunSystemOrder ==
    ASSUME TypeOK, Typed, Numbered, InOrder, todo # << >>, RunSystem
    PROVE  InOrder'
<1>1. PICK d, m, s : AtPhase(d, m, s)
  BY PhaseRuns
<1>2. /\ turn < Len(s) /\ systems' = systems /\ called' = called /\ todo' = todo
      /\ turn' = turn + 1 /\ ran' = Append(ran, Current.id)
  BY <1>1 DEF AtPhase, RunSystem
<1>3. PICK c : OnTurn(c, d, s)
  BY <1>1, <1>2, TurnIsPlace
<1>4. c \in Places /\ SystemAt(c) = Current
  BY <1>3 DEF OnTurn
<1>5. /\ Places' = Places
      /\ \A x : SystemAt(x)' = SystemAt(x)
      /\ \A x, y : Earlier(x, y)' <=> Earlier(x, y)
  BY <1>2 DEF Places, SystemAt, Earlier
<1>6. ASSUME NEW x \in Places
      PROVE  /\ Past(x)' <=> Past(x) \/ x = c
             /\ ~Past(c)
             /\ Earlier(c, x) => ~Past(x)
  BY <1>1, <1>2, <1>3, TurnPast
<1>7. PICK n, id : n = Len(ran) /\ id = Current.id
  OBVIOUS
<1>8. Appended(n, id)
  <2>1. ran \in Seq(Nat) /\ ran' = Append(ran, id)
    BY <1>2, <1>7 DEF Typed
  <2> QED  BY <1>7, <2>1, AppendProperties DEF Appended
<1>9. RunsOf(c) = {} /\ ~Past(c)
  BY <1>4, <1>6 DEF InOrder
<1>10. ASSUME NEW x \in Places, x # c
       PROVE  RunsOf(x)' = RunsOf(x) /\ RunsOf(x) \subseteq 1 .. n
  <2>1. SystemAt(x).id # id
    BY <1>4, <1>7, <1>10, PlacesDiffer
  <2>2. RunsOf(x)' = {k \in DOMAIN ran' : ran'[k] = SystemAt(x).id}
    BY <1>5 DEF RunsOf
  <2> QED  BY <1>8, <2>1, <2>2 DEF RunsOf, Appended
<1>11. RunsOf(c)' = {n + 1}
  <2>1. RunsOf(c)' = {k \in DOMAIN ran' : ran'[k] = id}
    BY <1>4, <1>5, <1>7 DEF RunsOf
  <2>2. \A k \in 1 .. n : ran[k] # id
    BY <1>4, <1>7, <1>8, <1>9 DEF RunsOf, Appended
  <2> QED  BY <1>8, <2>1, <2>2 DEF Appended
<1>12. n \in Nat
  BY <1>8 DEF Appended
<1>13. \A x \in Places : RunsOf(x)' # {} => Past(x)'
  <2> SUFFICES ASSUME NEW x \in Places, RunsOf(x)' # {} PROVE Past(x)'
    OBVIOUS
  <2>1. CASE x = c
    BY <1>6, <2>1
  <2>2. CASE x # c
    BY <1>6, <1>10, <2>2 DEF InOrder
  <2> QED  BY <2>1, <2>2
<1>14. \A x \in Places : Past(x)' /\ SystemAt(x)'.conditions = << >> => RunsOf(x)' # {}
  <2> SUFFICES ASSUME NEW x \in Places, Past(x)', SystemAt(x)'.conditions = << >>
               PROVE  RunsOf(x)' # {}
    OBVIOUS
  <2>1. CASE x = c
    BY <1>11, <2>1
  <2>2. CASE x # c
    <3>1. Past(x) /\ SystemAt(x).conditions = << >>
      BY <1>5, <1>6, <2>2
    <3> QED  BY <1>10, <2>2, <3>1 DEF InOrder
  <2> QED  BY <2>1, <2>2
<1>15. \A x \in Places : \A k, l \in RunsOf(x)' : k = l
  <2> SUFFICES ASSUME NEW x \in Places, NEW k \in RunsOf(x)', NEW l \in RunsOf(x)'
               PROVE  k = l
    OBVIOUS
  <2>1. CASE x = c
    BY <1>11, <2>1
  <2>2. CASE x # c
    BY <1>10, <2>2 DEF InOrder
  <2> QED  BY <2>1, <2>2
<1>16. \A x, y \in Places : Earlier(x, y) => \A k \in RunsOf(x)', l \in RunsOf(y)' : k < l
  <2> SUFFICES ASSUME NEW x \in Places, NEW y \in Places, Earlier(x, y),
                      NEW k \in RunsOf(x)', NEW l \in RunsOf(y)'
               PROVE  k < l
    OBVIOUS
  <2>1. x # y
    BY EarlierOrders
  <2>2. CASE x = c
    <3>1. l \in RunsOf(y) /\ ~Past(y)
      BY <1>6, <1>10, <2>1, <2>2
    <3> QED  BY <3>1 DEF InOrder
  <2>3. CASE x # c /\ y = c
    <3>1. k \in 1 .. n /\ l = n + 1
      BY <1>10, <1>11, <2>3
    <3> QED  BY ONLY <1>12, <3>1
  <2>4. CASE x # c /\ y # c
    <3>1. k \in RunsOf(x) /\ l \in RunsOf(y)
      BY <1>10, <2>4
    <3> QED  BY <3>1 DEF InOrder
  <2> QED  BY <2>2, <2>3, <2>4
<1> QED  BY <1>5, <1>13, <1>14, <1>15, <1>16 DEF InOrder

\* A system that is skipped has conditions.
LEMMA SkipSystemOrder ==
    ASSUME TypeOK, Typed, InOrder, todo # << >>, SkipSystem
    PROVE  InOrder'
<1>1. PICK d, m, s : AtPhase(d, m, s)
  BY PhaseRuns
<1>2. /\ turn < Len(s) /\ systems' = systems /\ called' = called /\ todo' = todo
      /\ turn' = turn + 1 /\ ran' = ran /\ ~ShouldRun(Current)
  BY <1>1 DEF AtPhase, SkipSystem, client
<1>3. PICK c : OnTurn(c, d, s)
  BY <1>1, <1>2, TurnIsPlace
<1>4. c \in Places /\ SystemAt(c) = Current
  BY <1>3 DEF OnTurn
<1>5. /\ Places' = Places
      /\ \A x : SystemAt(x)' = SystemAt(x)
      /\ \A x, y : Earlier(x, y)' <=> Earlier(x, y)
      /\ \A x : RunsOf(x)' = RunsOf(x)
  BY <1>2 DEF Places, SystemAt, Earlier, RunsOf
<1>6. \A x \in Places : Past(x)' <=> Past(x) \/ x = c
  BY <1>1, <1>2, <1>3, TurnPast
<1>7. SystemAt(c).conditions # << >>
  <2>1. ASSUME Current.conditions = << >>
        PROVE  ShouldRun(Current)
    <3>1. DOMAIN Current.conditions = {}
      BY <2>1
    <3> QED  BY <3>1 DEF ShouldRun, Range
  <2> QED  BY <1>2, <1>4, <2>1
<1> QED  BY <1>5, <1>6, <1>7 DEF InOrder

\* Nothing is told of the frame by a step that leaves its position alone.
LEMMA OrderKept ==
    ASSUME InOrder, systems' = systems, called' = called, todo' = todo, turn' = turn,
           ran' = ran
    PROVE  InOrder'
<1>1. /\ Places' = Places
      /\ \A x : SystemAt(x)' = SystemAt(x)
      /\ \A x, y : Earlier(x, y)' <=> Earlier(x, y)
      /\ \A x : RunsOf(x)' = RunsOf(x)
      /\ \A x : Past(x)' <=> Past(x)
  BY DEF Places, SystemAt, Earlier, RunsOf, Past, Finished
<1> QED  BY <1>1 DEF InOrder

\* When a phase is through, all its systems had their turn.
LEMMA PhasePast ==
    ASSUME TypeOK, Typed, NEW d, NEW m, NEW s, AtPhase(d, m, s), turn = Len(s),
           NEW x \in Places
    PROVE  Past(x) <=> x[1] <= d + 1
<1>1. PICK a, b, n : a = x[1] /\ b = x[2] /\ n = Len(s)
  OBVIOUS
<1>2. /\ a \in Nat /\ b \in Nat /\ a \in DOMAIN called /\ b \in DOMAIN systems[called[a]]
  BY <1>1, PlaceParts
<1>3. /\ d \in Nat /\ Finished = d /\ turn = n /\ n \in Nat
      /\ systems[called[d + 1]] = s /\ DOMAIN s = 1 .. n
  BY <1>1 DEF AtPhase
<1>4. a = d + 1 => b <= n
  <2>1. ASSUME a = d + 1 PROVE b \in 1 .. n
    BY <1>2, <1>3, <2>1
  <2> QED  BY <1>2, <1>3, <2>1
<1>5. Past(x) <=> a <= d \/ (a = d + 1 /\ b <= n)
  BY <1>1, <1>3 DEF Past
<1>6. Past(x) <=> a <= d + 1
  BY ONLY <1>2, <1>3, <1>4, <1>5
<1> QED  BY <1>1, <1>6

\* The flush ends a phase that is through, and the next begins.
LEMMA EndFlushOrder ==
    ASSUME TypeOK, Typed, InOrder, todo # << >>, turn = Len(systems[Head(todo)]), EndFlush
    PROVE  InOrder'
<1>1. PICK d, m, s : AtPhase(d, m, s)
  BY PhaseRuns
<1>2. /\ systems' = systems /\ called' = called /\ ran' = ran
      /\ todo' = Tail(todo) /\ turn' = 0
  BY DEF EndFlush, client
<1>3. /\ Places' = Places
      /\ \A x : SystemAt(x)' = SystemAt(x)
      /\ \A x, y : Earlier(x, y)' <=> Earlier(x, y)
      /\ \A x : RunsOf(x)' = RunsOf(x)
  BY <1>2 DEF Places, SystemAt, Earlier, RunsOf
<1>4. /\ d \in Nat /\ Finished = d /\ turn = Len(s) /\ m = Len(todo) /\ m \in Nat /\ d + m = Len(called)
  BY <1>1 DEF AtPhase
<1>5. Finished' = d + 1
  <2>1. todo \in Seq(Phase) /\ Len(todo') = Len(todo) - 1
    BY <1>2 DEF Typed
  <2>2. PICK t, u : t = Len(todo') /\ u = Len(called)
    OBVIOUS
  <2>3. t = m - 1 /\ Finished' = u - t /\ d + m = u
    BY <1>2, <1>4, <2>1, <2>2 DEF Finished
  <2> QED  BY ONLY <1>4, <2>3
<1>6. \A x \in Places : Past(x)' <=> Past(x)
  <2> SUFFICES ASSUME NEW x \in Places PROVE Past(x)' <=> Past(x)
    OBVIOUS
  <2>1. PICK a, b : a = x[1] /\ b = x[2] /\ a \in Nat /\ b \in Nat /\ 1 <= b
    BY PlaceParts
  <2>2. Past(x) <=> a <= d + 1
    BY <1>1, <1>4, <2>1, PhasePast
  <2>3. Past(x)' <=> a <= d + 1 \/ (a = d + 1 + 1 /\ b <= 0)
    BY <1>2, <1>5, <2>1 DEF Past
  <2>4. ~(b <= 0)
    BY ONLY <2>1
  <2> QED  BY <2>2, <2>3, <2>4
<1> QED  BY <1>3, <1>6 DEF InOrder

\* A frame that begins has no past.
LEMMA CallOrder ==
    ASSUME TypeOK, NEW phases \in Seq(Phase), Call(phases)
    PROVE  InOrder'
<1>1. /\ systems' = systems /\ called' = phases /\ todo' = phases /\ turn' = 0 /\ ran' = << >>
  BY DEF Call, client
<1>2. \A x : RunsOf(x)' = {}
  <2>1. DOMAIN ran' = {}
    BY <1>1
  <2> QED  BY <2>1 DEF RunsOf
<1>3. Finished' = 0
  <2>1. Len(phases) \in Nat
    OBVIOUS
  <2> QED  BY <1>1, <2>1 DEF Finished
<1>4. ASSUME NEW x \in Places'
      PROVE  ~Past(x)'
  <2>1. x \in UNION {{<<i, j>> : j \in DOMAIN systems[phases[i]]} : i \in DOMAIN phases}
    BY <1>1 DEF Places
  <2>2. PICK i \in DOMAIN phases : \E j \in DOMAIN systems[phases[i]] : x = <<i, j>>
    BY ONLY <2>1, Zenon
  <2>3. PICK j \in DOMAIN systems[phases[i]] : x = <<i, j>>
    BY <2>2
  <2>4. phases[i] \in Phase /\ i \in Nat /\ 1 <= i
    OBVIOUS
  <2>5. systems[phases[i]] \in Seq(System)
    BY <2>4 DEF TypeOK
  <2>6. j \in Nat /\ 1 <= j
    BY <2>5
  <2>7. x[1] = i /\ x[2] = j
    BY ONLY <2>3
  <2>8. Past(x)' <=> i <= 0 \/ (i = 0 + 1 /\ j <= 0)
    BY <1>1, <1>3, <2>7 DEF Past
  <2> QED  BY ONLY <2>4, <2>6, <2>8
<1> QED  BY <1>2, <1>4 DEF InOrder

\* Steps between frames begin no flush.
LEMMA IdleFrame ==
    ASSUME TypeOK, Idle, loop' = loop, todo' = << >>
    PROVE  /\ todo' # << >> => InOrder'
           /\ loop' # 0 => turn' = Len(systems'[Head(todo')])
BY DEF TypeOK, Idle

\* Every step keeps the frame's order, and flushes begin when a phase is through.
LEMMA FrameStep ==
    ASSUME TypeOK, Typed, FrameInv, [Next]_vars
    PROVE  FrameInv'
<1>1. ASSUME systems' = systems
      PROVE  Numbered'
  BY <1>1 DEF FrameInv, Numbered, Registered
<1>2. CASE UNCHANGED vars
  <2>1. systems' = systems /\ called' = called /\ todo' = todo /\ turn' = turn /\ loop' = loop
        /\ ran' = ran
    BY <1>2 DEF vars
  <2>2. todo' # << >> => InOrder'
    BY <2>1, OrderKept DEF FrameInv
  <2> QED  BY <1>1, <2>1, <2>2 DEF FrameInv
<1>3. ASSUME NEW p \in UsedPhases, NEW wish \in Wishes, RegisterSystem(p, wish)
      PROVE  FrameInv'
  <2>1. Idle /\ loop' = loop /\ todo' = << >>
    BY <1>3 DEF RegisterSystem, position, Idle
  <2>2. Numbered'
    BY <1>3, NumberedStep DEF FrameInv
  <2> QED  BY <2>1, <2>2, IdleFrame DEF FrameInv
<1>4. ASSUME NEW k \in Kind, ClientIssue(k)
      PROVE  FrameInv'
  <2>1. Idle /\ loop' = loop /\ todo' = << >> /\ systems' = systems
    BY <1>4 DEF ClientIssue, position, client, Idle
  <2> QED  BY <1>1, <2>1, IdleFrame DEF FrameInv
<1>5. CASE InitSingleton
  <2>1. Idle /\ loop' = loop /\ todo' = << >> /\ systems' = systems
    BY <1>5 DEF InitSingleton, position, Idle
  <2> QED  BY <1>1, <2>1, IdleFrame DEF FrameInv
<1>6. ASSUME NEW phases \in Seq(Phase), Call(phases)
      PROVE  FrameInv'
  <2>1. Idle /\ loop' = loop /\ systems' = systems
    BY <1>6 DEF Call, client
  <2>2. loop' = 0
    BY <2>1 DEF TypeOK, Idle
  <2> QED  BY <1>1, <1>6, <2>1, <2>2, CallOrder DEF FrameInv
<1>7. CASE RunSystem
  <2>1. todo # << >> /\ loop' = 0 /\ systems' = systems
    BY <1>7 DEF RunSystem, Running, Idle
  <2>2. InOrder'
    BY <1>7, <2>1, RunSystemOrder DEF FrameInv
  <2> QED  BY <1>1, <2>1, <2>2 DEF FrameInv
<1>8. CASE SkipSystem
  <2>1. todo # << >> /\ loop' = 0 /\ systems' = systems
    BY <1>8 DEF SkipSystem, Running, Idle, client
  <2>2. InOrder'
    BY <1>8, <2>1, SkipSystemOrder DEF FrameInv
  <2> QED  BY <1>1, <2>1, <2>2 DEF FrameInv
<1>9. CASE BeginFlush
  <2>1. /\ todo # << >> /\ turn = Len(systems[Head(todo)])
        /\ systems' = systems /\ called' = called /\ todo' = todo /\ turn' = turn /\ ran' = ran
    BY <1>9 DEF BeginFlush, Running, Idle, client
  <2>2. InOrder'
    BY <2>1, OrderKept DEF FrameInv
  <2> QED  BY <1>1, <2>1, <2>2 DEF FrameInv
<1>10. CASE ExecuteCommand \/ NextLoop
  <2>1. loop # 0
    BY <1>10 DEF ExecuteCommand, NextLoop, TypeOK
  <2>2. /\ todo # << >> /\ turn = Len(systems[Head(todo)])
        /\ systems' = systems /\ called' = called /\ todo' = todo /\ turn' = turn /\ ran' = ran
    BY <1>10, <2>1 DEF ExecuteCommand, NextLoop, TypeOK, FrameInv, client
  <2>3. InOrder'
    BY <2>2, OrderKept DEF FrameInv
  <2> QED  BY <1>1, <2>2, <2>3 DEF FrameInv
<1>11. CASE EndFlush
  <2>1. loop # 0 /\ loop' = 0 /\ systems' = systems
    BY <1>11, FlushOrder DEF EndFlush, client
  <2>2. todo # << >> /\ turn = Len(systems[Head(todo)])
    BY <2>1 DEF TypeOK, FrameInv
  <2>3. InOrder'
    BY <1>11, <2>2, EndFlushOrder DEF FrameInv
  <2> QED  BY <1>1, <2>1, <2>3 DEF FrameInv
<1>12. Next => FrameInv'
  BY <1>3, <1>4, <1>5, <1>6, <1>7, <1>8, <1>9, <1>10, <1>11, PhaseLists
     DEF Next, Step, Start, Progress
<1> QED  BY <1>2, <1>12

\* Before the first frame no system is registered.
LEMMA FrameInit == Init => FrameInv
<1> SUFFICES ASSUME Init PROVE FrameInv
  OBVIOUS
<1>1. systems = [p \in Phase |-> << >>] /\ todo = << >> /\ loop = 0
  BY DEF Init
<1>2. \A p \in Phase : DOMAIN systems[p] = {}
  BY <1>1
<1>3. Registered = {}
  BY <1>2 DEF Registered, Range
<1>4. {sys.id : sys \in Registered} = 1 .. 0
  <2>1. {sys.id : sys \in Registered} = {}
    BY <1>3
  <2>2. 1 .. 0 = {}
    OBVIOUS
  <2> QED  BY Zenon, <2>1, <2>2
<1>5. \E n \in Nat : {sys.id : sys \in Registered} = 1 .. n
  <2>1. 0 \in Nat
    OBVIOUS
  <2> QED  BY Zenon, <1>4, <2>1
<1>6. Numbered
  BY <1>2, <1>5 DEF Numbered
<1> QED  BY <1>1, <1>6 DEF FrameInv

\* When the last phase ends, all the systems of the frame had their turn.
LEMMA FrameEnds ==
    ASSUME TypeOK, Typed, FrameInv, EndFlush, todo' = << >>, NEW x \in Places
    PROVE  Past(x)
<1>1. todo # << >> /\ turn = Len(systems[Head(todo)]) /\ Len(todo) = 1
  <2>1. loop # 0
    BY FlushOrder DEF EndFlush
  <2>2. todo \in Seq(Phase) /\ todo # << >> /\ Tail(todo) = << >>
    BY <2>1 DEF TypeOK, Typed, EndFlush
  <2>3. Len(todo) = 1
    <3>1. Len(Tail(todo)) = Len(todo) - 1 /\ Len(todo) \in Nat
      BY <2>2
    <3>2. Len(Tail(todo)) = 0
      <4>1. Len(<< >>) = 0
        OBVIOUS
      <4> QED  BY Zenon, <2>2, <4>1
    <3> QED  BY ONLY <3>1, <3>2
  <2> QED  BY <2>1, <2>2, <2>3 DEF FrameInv
<1>2. PICK d, m, s : AtPhase(d, m, s)
  BY <1>1, PhaseRuns
<1>3. /\ turn = Len(s) /\ m = 1 /\ d \in Nat /\ d + m = Len(called)
  BY <1>1, <1>2 DEF AtPhase
<1>4. PICK a, n : a = x[1] /\ n = Len(called)
  OBVIOUS
<1>5. a \in 1 .. n /\ n \in Nat
  <2>1. called \in Seq(Phase)
    BY PhaseLists DEF Typed
  <2> QED  BY <1>4, <2>1, PlaceParts
<1>6. a <= d + 1
  BY ONLY <1>3, <1>4, <1>5
<1> QED  BY <1>2, <1>3, <1>4, <1>6, PhasePast

\* When start or progress returns, its systems without conditions have run, none has
\* run twice, and all have run in the order of phases and registration.
THEOREM FramesAreComplete == Spec => FrameComplete
<1> DEFINE Whole ==
        /\ \A x \in Places : SystemAt(x).conditions = << >> => RunsOf(x) # {}
        /\ \A x \in Places : \A k, l \in RunsOf(x) : k = l
        /\ \A x, y \in Places : Earlier(x, y) =>
               \A k \in RunsOf(x), l \in RunsOf(y) : k < l
<1>1. ASSUME ScheduleInv, FrameInv, Next, ~Idle, Idle'
      PROVE  Whole
  <2>1. todo # << >> /\ todo' = << >> /\ todo' # todo
    BY <1>1 DEF Idle
  <2>2. ~RunSystem /\ ~SkipSystem /\ ~BeginFlush /\ ~ExecuteCommand /\ ~NextLoop
    BY ONLY <2>1 DEF RunSystem, SkipSystem, BeginFlush, ExecuteCommand, NextLoop
  <2>3. /\ ~InitSingleton /\ ~Start /\ ~Progress /\ (\A k \in Kind : ~ClientIssue(k))
        /\ \A p \in UsedPhases, wish \in Wishes : ~RegisterSystem(p, wish)
    BY ONLY <1>1 DEF InitSingleton, Start, Progress, Call, ClientIssue, RegisterSystem
  <2>4. EndFlush
    BY ONLY <1>1, <2>2, <2>3 DEF Next, Step
  <2>5. \A x \in Places : Past(x)
    BY <1>1, <2>1, <2>4, FrameEnds DEF ScheduleInv
  <2>6. InOrder
    BY <1>1, <2>1 DEF FrameInv
  <2> QED  BY <2>5, <2>6 DEF InOrder
<1>2. ScheduleInv /\ FrameInv /\ [Next]_vars => [~Idle /\ Idle' => Whole]_vars
  BY <1>1
<1>3. ScheduleInv /\ FrameInv /\ [Next]_vars => FrameInv'
  BY FrameStep DEF ScheduleInv
<1> QED  BY <1>2, <1>3, FrameInit, ScheduleInvariant, PTL DEF Spec, FrameComplete

=============================================================================
