---------------------------- MODULE SequenceFolds ----------------------------
(***************************************************************************)
(* What FoldLeft of the community modules computes, for any operator and   *)
(* any sequence: the last of a chain of results, each made from the one    *)
(* before and one element.  A module that folds with an operator of its    *)
(* own instantiates this one with it.                                      *)
(***************************************************************************)
EXTENDS Sequences, Integers, WellFoundedInduction, TLAPS

CONSTANT Op(_, _)   \* the operator folded with

-----------------------------------------------------------------------------
(* Induction.  The library's theorems take a predicate, which the provers    *)
(* cannot instantiate; these take the set of numbers that satisfy it.        *)

\* A set that has 0 and with every number its successor has all of them.
LEMMA SetInduction ==
    ASSUME NEW S, 0 \in S, \A n \in Nat : n \in S => n + 1 \in S
    PROVE  Nat \subseteq S
<1> DEFINE R == OpToRel(<, Nat)
           T == Nat \ S
<1>1. SUFFICES ASSUME T # {} PROVE FALSE
  OBVIOUS
<1>2. IsWellFoundedOn(R, Nat)
  BY NatLessThanWellFounded
<1>3. PICK n \in T : \A k \in T : ~(<<k, n>> \in R)
  <2> HIDE DEF R
  <2>1. T \subseteq Nat OBVIOUS
  <2> QED BY <1>1, <1>2, <2>1, WFMin
<1>4. n # 0 /\ n \in Nat
  OBVIOUS
<1>5. n - 1 \in Nat
  BY <1>4
<1>6. n - 1 \in T
  BY <1>4, <1>5
<1>7. <<n - 1, n>> \in R
  BY <1>4, <1>5 DEF OpToRel
<1> QED BY <1>3, <1>6, <1>7

\* The same for the numbers up to n.
LEMMA UpTo ==
    ASSUME NEW n \in Nat, NEW S, 0 \in S,
           \A i \in 1 .. n : i - 1 \in S => i \in S
    PROVE  \A i \in 0 .. n : i \in S
<1> DEFINE T == {i \in Nat : i <= n => i \in S}
<1>1. 0 \in T
  OBVIOUS
<1>2. ASSUME NEW i \in Nat, i \in T
      PROVE  i + 1 \in T
  <2>1. i + 1 <= n => i \in S /\ i + 1 \in 1 .. n /\ (i + 1) - 1 = i
    BY <1>2
  <2> QED  BY <2>1
<1> HIDE DEF T
<1>3. Nat \subseteq T
  BY <1>1, <1>2, SetInduction
<1> QED  BY <1>3 DEF T

-----------------------------------------------------------------------------
(* Folds *)

\* The element of a set of numbers that a fold takes last.
Greatest(t) == CHOOSE x \in t : \A y \in t : x >= y

\* FoldLeft(Op, base, s), its definition expanded.
Result(base, s) ==
    LET iter[t \in SUBSET DOMAIN s] ==
            IF t = {} THEN base ELSE Op(iter[t \ {Greatest(t)}], s[Greatest(t)])
    IN  iter[DOMAIN s]

\* f is the function that Result defines for a sequence of n elements.
IsIter(f, base, s, n) ==
    f = [t \in SUBSET (1 .. n) |->
            IF t = {} THEN base ELSE Op(f[t \ {Greatest(t)}], s[Greatest(t)])]

\* There is one for every length.
LEMMA IterExists ==
    ASSUME NEW base, NEW s
    PROVE  \A n \in Nat : \E f : IsIter(f, base, s, n)
<1> DEFINE S == {n \in Nat : \E f : IsIter(f, base, s, n)}
<1>1. 0 \in S
  <2> DEFINE f == [t \in SUBSET (1 .. 0) |-> base]
  <2>1. 1 .. 0 = {} /\ SUBSET (1 .. 0) = {{}}
    OBVIOUS
  <2>2. IsIter(f, base, s, 0)
    BY <2>1 DEF IsIter
  <2> QED  BY <2>2
<1>2. ASSUME NEW n \in Nat, n \in S
      PROVE  n + 1 \in S
  <2>1. PICK f : IsIter(f, base, s, n)
    BY <1>2
  <2> DEFINE g == [t \in SUBSET (1 .. n + 1) |->
                     IF n + 1 \in t THEN Op(f[t \ {n + 1}], s[n + 1]) ELSE f[t]]
  <2>2. ASSUME NEW t \in SUBSET (1 .. n + 1), n + 1 \in t
        PROVE  Greatest(t) = n + 1
    <3>1. \A y \in t : y \in 1 .. n + 1 /\ n + 1 >= y
      OBVIOUS
    <3>2. \A x \in t : (\A y \in t : x >= y) => x = n + 1
      <4> SUFFICES ASSUME NEW x \in t, \A y \in t : x >= y PROVE x = n + 1
        OBVIOUS
      <4>1. x >= n + 1 /\ n + 1 >= x /\ x \in Nat
        BY <2>2, <3>1
      <4> QED  BY <4>1
    <3> QED  BY <2>2, <3>1, <3>2 DEF Greatest
  <2>3. ASSUME NEW t \in SUBSET (1 .. n + 1), n + 1 \in t
        PROVE  g[t] = Op(g[t \ {Greatest(t)}], s[Greatest(t)])
    <3>1. t \ {n + 1} \in SUBSET (1 .. n + 1) /\ n + 1 \notin t \ {n + 1}
      OBVIOUS
    <3>2. g[t \ {n + 1}] = f[t \ {n + 1}]
      BY <3>1
    <3> QED  BY <2>2, <2>3, <3>2
  <2>4. ASSUME NEW t \in SUBSET (1 .. n + 1), n + 1 \notin t, t # {}
        PROVE  g[t] = Op(g[t \ {Greatest(t)}], s[Greatest(t)])
    <3>1. t \in SUBSET (1 .. n) /\ t \ {Greatest(t)} \in SUBSET (1 .. n)
          /\ t \ {Greatest(t)} \in SUBSET (1 .. n + 1) /\ n + 1 \notin t \ {Greatest(t)}
      <4>1. \A x \in t : x \in 1 .. n
        <5> SUFFICES ASSUME NEW x \in t PROVE x \in 1 .. n
          OBVIOUS
        <5>1. x \in 1 .. n + 1 /\ x # n + 1
          BY <2>4
        <5> QED  BY <5>1
      <4> HIDE DEF g
      <4> QED  BY <2>4, <4>1
    <3>2. g[t] = f[t] /\ g[t \ {Greatest(t)}] = f[t \ {Greatest(t)}]
      BY <2>4, <3>1
    <3>3. f[t] = Op(f[t \ {Greatest(t)}], s[Greatest(t)])
      BY <2>1, <2>4, <3>1 DEF IsIter
    <3> QED  BY <3>2, <3>3
  <2>5. g[{}] = base
    <3>1. f[{}] = base
      BY <2>1 DEF IsIter
    <3> QED BY <3>1
  <2>6. IsIter(g, base, s, n + 1)
    <3>1. \A t \in SUBSET (1 .. n + 1) :
        g[t] = IF t = {} THEN base ELSE Op(g[t \ {Greatest(t)}], s[Greatest(t)])
      BY <2>3, <2>4, <2>5
    <3> DEFINE d == SUBSET (1 .. n + 1)
    <3>2. g = [t \in d |-> g[t]]
      OBVIOUS
    <3> HIDE DEF g
    <3> QED BY <3>1, <3>2 DEF IsIter
  <2> QED  BY <2>6
<1> HIDE DEF S
<1>3. Nat \subseteq S
  BY <1>1, <1>2, SetInduction
<1> QED  BY <1>3 DEF S

\* A fold is a chain of steps: w[i] is the result for the first i elements.
LEMMA FoldLeftSteps ==
    ASSUME NEW base, NEW T, NEW s \in Seq(T)
    PROVE  \E w : /\ w[0] = base
                  /\ \A i \in 1 .. Len(s) : w[i] = Op(w[i - 1], s[i])
                  /\ w[Len(s)] = Result(base, s)
<1> DEFINE n == Len(s)
           it == CHOOSE f : f = [t \in SUBSET DOMAIN s |->
            IF t = {} THEN base ELSE Op(f[t \ {Greatest(t)}], s[Greatest(t)])]
<1>1. n \in Nat /\ DOMAIN s = 1 .. n
  OBVIOUS
<1>2. Result(base, s) = it[DOMAIN s]
  BY DEF Result
<1>3. IsIter(it, base, s, n)
  <2>1. \E f : IsIter(f, base, s, n)
    BY <1>1, IterExists
  <2> QED BY <1>1, <2>1 DEF IsIter
<1> DEFINE w == [i \in 0 .. n |-> it[1 .. i]]
<1> HIDE DEF it
<1>4. w[0] = base
  <2>1. 1 .. 0 = {} /\ {} \in SUBSET (1 .. n)
    OBVIOUS
  <2> QED BY <1>1, <1>3, <2>1 DEF IsIter
<1>5. ASSUME NEW i \in 1 .. n
      PROVE w[i] = Op(w[i - 1], s[i])
  <2>1. 1 .. i \in SUBSET (1 .. n) /\ 1 .. i # {} /\ i \in 0 .. n /\ i - 1 \in 0 .. n
    <3>1. i \in 1 .. i
      BY <1>1
    <3>2. \A k \in 1 .. i : k \in 1 .. n
      BY <1>1
    <3>3. i \in 0 .. n /\ i - 1 \in 0 .. n
      BY <1>1
    <3> QED  BY <3>1, <3>2, <3>3
  <2>2. Greatest(1 .. i) = i
    BY <1>1 DEF Greatest
  <2>3. (1 .. i) \ {i} = 1 .. i - 1
    BY <1>1
  <2>4. it[1 .. i] = Op(it[1 .. i - 1], s[i])
    BY <1>3, <2>1, <2>2, <2>3 DEF IsIter
  <2> QED BY <2>1, <2>4
<1>6. w[n] = Result(base, s)
  BY <1>1, <1>2
<1> QED BY <1>4, <1>5, <1>6
=============================================================================
