---------------------------- MODULE ArchetypesProofs ----------------------------
(***************************************************************************)
(* Theorems about Archetypes and TableMap, for every set of components,    *)
(* every hash function, every size of the first bucket array and every     *)
(* order in which edges are resolved and queries are registered.           *)
(***************************************************************************)
EXTENDS Archetypes, Integers, FiniteSetTheorems, SequenceTheorems, TLAPS

Rehash == INSTANCE SequenceFolds WITH Op <- Reinsert
Visits == INSTANCE SequenceFolds WITH Op <- Visit

-----------------------------------------------------------------------------
(* Positions *)

\* The remainder is the number below n that differs by a multiple of n.
LEMMA Remainder ==
    ASSUME NEW n \in Nat \ {0}, NEW a \in Nat, NEW q \in Int, NEW r \in 0 .. n - 1,
           a = n * q + r
    PROVE  a % n = r
<1>1. PICK p, s : p = a \div n /\ s = a % n
  OBVIOUS
<1>2. a = n * p + s /\ p \in Int /\ s \in 0 .. n - 1
  <2>1. a = n * (a \div n) + (a % n) /\ a \div n \in Int
    OBVIOUS
  <2>2. a % n \in 0 .. n - 1
    OBVIOUS
  <2> QED  BY ONLY <1>1, <2>1, <2>2
<1>3. ASSUME NEW d \in Int, d >= 1
      PROVE  n * d >= n
  <2>1. d - 1 \in Nat /\ n * (d - 1) >= 0
    BY <1>3
  <2>2. n * d = n * (d - 1) + n
    OBVIOUS
  <2> QED  BY <2>1, <2>2
<1>4. n * q \in Int /\ n * p \in Int
  BY <1>2
<1>5. CASE q = p
  BY <1>1, <1>2, <1>4, <1>5
<1>6. CASE q > p
  <2>1. n * (q - p) >= n
    BY <1>2, <1>3, <1>6
  <2>2. n * (q - p) = n * q - n * p
    BY <1>2
  <2>3. n * q - n * p >= n
    BY <2>1, <2>2
  <2> QED  BY ONLY <1>2, <1>4, <2>3, a = n * q + r, r \in 0 .. n - 1, n \in Nat \ {0}
<1>7. CASE p > q
  <2>1. n * (p - q) >= n
    BY <1>2, <1>3, <1>7
  <2>2. n * (p - q) = n * p - n * q
    BY <1>2
  <2>3. n * p - n * q >= n
    BY <2>1, <2>2
  <2> QED  BY ONLY <1>2, <1>4, <2>3, a = n * q + r, r \in 0 .. n - 1, n \in Nat \ {0}
<1> QED  BY <1>2, <1>5, <1>6, <1>7

\* From wherever it starts, a probe of n buckets comes to each of them.
LEMMA EveryBucketProbed ==
    ASSUME NEW h \in Nat, NEW n \in Nat \ {0}, NEW i \in 0 .. n - 1
    PROVE  \E k \in 0 .. n - 1 : (h + k) % n = i
<1>0. PICK q, r : q = h \div n /\ r = h % n
  OBVIOUS
<1>1. h = n * q + r /\ q \in Int /\ r \in 0 .. n - 1
  <2>1. h = n * (h \div n) + (h % n) /\ h \div n \in Int
    OBVIOUS
  <2>2. h % n \in 0 .. n - 1
    OBVIOUS
  <2> QED  BY ONLY <1>0, <2>1, <2>2
<1>2. CASE i >= r
  <2>1. i - r \in 0 .. n - 1 /\ h + (i - r) \in Nat
    BY <1>1, <1>2
  <2>2. h + (i - r) = n * q + i
    BY <1>1
  <2>3. (h + (i - r)) % n = i
    BY <1>1, <2>1, <2>2, Remainder
  <2> QED  BY <2>1, <2>3
<1>3. CASE i < r
  <2>1. n + i - r \in 0 .. n - 1 /\ h + (n + i - r) \in Nat
    BY <1>1, <1>3
  <2>2. h + (n + i - r) = n * (q + 1) + i /\ q + 1 \in Int
    <3>1. n * (q + 1) = n * q + n
      BY <1>1
    <3> QED  BY <1>1, <3>1
  <2>3. (h + (n + i - r)) % n = i
    BY <2>1, <2>2, Remainder
  <2> QED  BY <2>1, <2>3
<1> QED  BY <1>1, <1>2, <1>3

\* A set of numbers that is not empty has a least one.
LEMMA LeastNumber ==
    ASSUME NEW S \in SUBSET Nat, S # {}
    PROVE  Min(S) \in S /\ \A k \in S : Min(S) <= k
<1>1. \E x \in S : \A y \in S : x =< y
  <2>1. SUFFICES ASSUME \A x \in S : \E y \in S : ~(x =< y) PROVE FALSE
    OBVIOUS
  <2> DEFINE T == {x \in Nat : \A y \in S : x < y}
  <2>2. 0 \in T
    BY <2>1
  <2>3. ASSUME NEW x \in Nat, x \in T
        PROVE  x + 1 \in T
    <3>1. \A y \in S : x + 1 =< y
      BY <2>3
    <3>2. x + 1 \notin S
      BY <2>1, <3>1
    <3>3. \A y \in S : x + 1 < y
      BY <3>1, <3>2
    <3> QED  BY <3>3
  <2> HIDE DEF T
  <2>4. Nat \subseteq T
    BY ONLY <2>2, <2>3, Rehash!SetInduction
  <2>5. \A x \in Nat, y \in S : x < y
    BY <2>4 DEF T
  <2>6. PICK y : y \in S /\ y \in Nat
    OBVIOUS
  <2>7. y < y
    BY ONLY <2>5, <2>6
  <2> QED  BY ONLY <2>6, <2>7
<1> QED  BY <1>1 DEF Min

\* Where a probe from h ends that looks for one of these positions.
First(h, n, S) == (h + Min({k \in 0 .. n - 1 : (h + k) % n \in S})) % n

\* It ends at the first of them.
LEMMA ProbeEnds ==
    ASSUME NEW h \in Nat, NEW n \in Nat \ {0}, NEW S \in SUBSET (0 .. n - 1), S # {}
    PROVE  \E d \in 0 .. n - 1 :
              /\ First(h, n, S) = (h + d) % n
              /\ (h + d) % n \in S
              /\ \A k \in 0 .. d - 1 : (h + k) % n \notin S
<1> DEFINE K == {k \in 0 .. n - 1 : (h + k) % n \in S}
<1>1. K \in SUBSET Nat
  OBVIOUS
<1>2. K # {}
  <2>1. PICK i \in 0 .. n - 1 : i \in S
    OBVIOUS
  <2>2. PICK k \in 0 .. n - 1 : (h + k) % n = i
    BY EveryBucketProbed
  <2> QED  BY <2>1, <2>2
<1>3. PICK d : d = Min(K)
  OBVIOUS
<1>4. d \in K /\ \A k \in K : d <= k
  BY <1>1, <1>2, <1>3, LeastNumber
<1>5. \A k \in 0 .. d - 1 : (h + k) % n \notin S
  <2> SUFFICES ASSUME NEW k \in 0 .. d - 1, (h + k) % n \in S PROVE FALSE
    OBVIOUS
  <2>1. k \in 0 .. n - 1 /\ k < d
    BY <1>4
  <2>2. k \in K
    BY <2>1
  <2>3. d <= k /\ d \in 0 .. n - 1
    BY <1>4, <2>2
  <2> QED  BY ONLY <2>1, <2>3, n \in Nat \ {0}
<1> QED  BY <1>3, <1>4, <1>5 DEF First

-----------------------------------------------------------------------------
(* Bucket arrays *)

\* Bucket i holds table t.
Has(bs, i, t) == bs[i].tableId = t /\ t # InvalidTableId

\* A probe for the type in bucket i comes to it: no bucket on the way is unused.
Reached(bs, n, i) ==
    \E d \in 0 .. n - 1 :
        /\ (bs[i].hash + d) % n = i
        /\ \A k \in 0 .. d - 1 : ~Unused(bs[(bs[i].hash + k) % n])

\* The buckets in use hold different tables of ts, under the hashes of their
\* types, where a probe finds them.
Placed(bs, n, ts) ==
    /\ n \in Nat \ {0}
    /\ bs \in [0 .. n - 1 -> Bucket]
    /\ \A i \in 0 .. n - 1 : ~Unused(bs[i]) =>
          /\ bs[i].tableId \in 0 .. Len(ts) - 1
          /\ bs[i].hash = hash[ts[bs[i].tableId + 1]]
          /\ Reached(bs, n, i)
    /\ \A i, j \in 0 .. n - 1 :
          ~Unused(bs[i]) /\ bs[i].tableId = bs[j].tableId => i = j

\* Some bucket holds table t.
Holds(bs, n, t) == \E i \in 0 .. n - 1 : Has(bs, i, t)

\* The number of buckets is the size of the array.
LEMMA ArraySize ==
    ASSUME NEW n \in Nat, NEW bs, DOMAIN bs = 0 .. n - 1
    PROVE  BucketCount(bs) = n
BY FS_Interval DEF BucketCount

\* Where a rehash puts a bucket.
LEMMA UnusedProbe ==
    ASSUME NEW n \in Nat \ {0}, NEW bs \in [0 .. n - 1 -> Bucket], NEW h \in Nat
    PROVE  Probe(bs, h, Unused) = First(h, n, {i \in 0 .. n - 1 : Unused(bs[i])})
<1>1. BucketCount(bs) = n
  BY ArraySize
<1>2. \A k \in 0 .. n - 1 : (h + k) % n \in 0 .. n - 1
  OBVIOUS
<1>3. {k \in 0 .. n - 1 : (h + k) % n \in {i \in 0 .. n - 1 : Unused(bs[i])}}
        = {k \in 0 .. n - 1 : Unused(bs[(h + k) % n])}
  BY <1>2
<1>4. Probe(bs, h, Unused) = (h + Min({k \in 0 .. n - 1 : Unused(bs[(h + k) % n])})) % n
  BY <1>1 DEF Probe
<1> QED  BY <1>3, <1>4 DEF First

\* The positions at which a lookup of e may stop.
Stops(bs, n, e) ==
    {i \in 0 .. n - 1 :
        Unused(bs[i]) \/ (bs[i].hash = hash[e] /\ TypeOf(bs[i].tableId) = e)}

\* Where it does.
LEMMA FindProbe ==
    ASSUME NEW n \in Nat \ {0}, NEW bs \in [0 .. n - 1 -> Bucket], NEW e, hash[e] \in Nat
    PROVE  FindBucketIndex(bs, e) = First(hash[e], n, Stops(bs, n, e))
<1>1. BucketCount(bs) = n
  BY ArraySize
<1>2. PICK h : h = hash[e]
  OBVIOUS
<1>3. \A k \in 0 .. n - 1 : (h + k) % n \in 0 .. n - 1
  BY <1>2
<1> DEFINE K == {k \in 0 .. n - 1 :
                   LET b == bs[(h + k) % n]
                   IN  Unused(b) \/ (b.hash = hash[e] /\ TypeOf(b.tableId) = e)}
<1>4. {k \in 0 .. n - 1 : (h + k) % n \in Stops(bs, n, e)} = K
  BY <1>3 DEF Stops
<1>5. FindBucketIndex(bs, e) = (h + Min(K)) % n
  BY <1>1, <1>2 DEF FindBucketIndex, Probe
<1> QED  BY <1>2, <1>4, <1>5 DEF First

\* An array of unused buckets.
LEMMA EmptyArray ==
    ASSUME NEW n \in Nat \ {0}, NEW ts
    PROVE  Placed(EmptyBuckets(n), n, ts) /\ \A t : ~Holds(EmptyBuckets(n), n, t)
<1>1. (CHOOSE v \in HashValue : TRUE) \in HashValue
  BY TableMapAssumption
<1>2. InvalidTableId \in TableId
  BY TableMapAssumption DEF TableId
<1>3. EmptyBuckets(n) \in [0 .. n - 1 -> Bucket]
  BY <1>1, <1>2 DEF EmptyBuckets, Bucket
<1>4. \A i \in 0 .. n - 1 : Unused(EmptyBuckets(n)[i])
  BY DEF EmptyBuckets, Unused
<1> QED  BY <1>3, <1>4 DEF Placed, Holds, Has, Unused

\* More buckets than tables: one is unused.
LEMMA FreeBucket ==
    ASSUME NEW n, NEW bs, NEW ts, Placed(bs, n, ts), Len(ts) \in Nat, Len(ts) < n
    PROVE  \E i \in 0 .. n - 1 : Unused(bs[i])
<1> SUFFICES ASSUME \A i \in 0 .. n - 1 : ~Unused(bs[i]) PROVE FALSE
  OBVIOUS
<1>1. PICK m : m = Len(ts)
  OBVIOUS
<1>2. n \in Nat \ {0} /\ m \in Nat /\ m < n
  BY <1>1 DEF Placed
<1> DEFINE f == [i \in 0 .. n - 1 |-> bs[i].tableId]
<1>3. f \in [0 .. n - 1 -> 0 .. m - 1]
  BY <1>1 DEF Placed
<1>4. /\ IsFiniteSet(0 .. n - 1) /\ Cardinality(0 .. n - 1) = n
      /\ IsFiniteSet(0 .. m - 1) /\ Cardinality(0 .. m - 1) = m
  <2>1. ASSUME NEW k \in Nat
        PROVE  IsFiniteSet(0 .. k - 1) /\ Cardinality(0 .. k - 1) = k
    <3>1. 0 \in Int /\ k - 1 \in Int
      OBVIOUS
    <3>2. /\ IsFiniteSet(0 .. k - 1)
          /\ Cardinality(0 .. k - 1) = IF 0 > k - 1 THEN 0 ELSE (k - 1) - 0 + 1
      BY ONLY <3>1, FS_Interval
    <3>3. (IF 0 > k - 1 THEN 0 ELSE (k - 1) - 0 + 1) = k
      OBVIOUS
    <3> QED  BY ONLY <3>2, <3>3
  <2> QED  BY <1>2, <2>1
<1>5. \A i, j \in 0 .. n - 1 : f[i] = f[j] => i = j
  BY DEF Placed
<1> HIDE DEF f
<1>6. \E i, j \in 0 .. n - 1 : i # j /\ f[i] = f[j]
  <2>1. PICK S, T : S = 0 .. n - 1 /\ T = 0 .. m - 1
    OBVIOUS
  <2>2. IsFiniteSet(S) /\ IsFiniteSet(T) /\ Cardinality(T) < Cardinality(S) /\ f \in [S -> T]
    BY ONLY <1>2, <1>3, <1>4, <2>1
  <2>3. \E x, y \in S : x # y /\ f[x] = f[y]
    BY ONLY <2>2, FS_PigeonHole
  <2> QED  BY <2>1, <2>3
<1> QED  BY <1>5, <1>6

\* A probe stays in the array.
LEMMA ProbeInArray ==
    ASSUME NEW n \in Nat \ {0}, NEW h \in Nat, NEW k \in Nat
    PROVE  (h + k) % n \in 0 .. n - 1
<1>1. h + k \in Nat
  OBVIOUS
<1> QED  BY <1>1

\* What a probe comes to, it comes to when more buckets are in use.
LEMMA StillReached ==
    ASSUME NEW n \in Nat \ {0}, NEW bs, NEW new, NEW i, Reached(bs, n, i), bs[i].hash \in Nat,
           new[i] = bs[i], \A j \in 0 .. n - 1 : ~Unused(bs[j]) => ~Unused(new[j])
    PROVE  Reached(new, n, i)
<1>1. PICK d \in 0 .. n - 1 : /\ (bs[i].hash + d) % n = i
                              /\ \A k \in 0 .. d - 1 : ~Unused(bs[(bs[i].hash + k) % n])
  BY DEF Reached
<1>2. ASSUME NEW k \in 0 .. d - 1
      PROVE  ~Unused(new[(new[i].hash + k) % n])
  <2>1. (bs[i].hash + k) % n \in 0 .. n - 1
    <3>1. k \in Nat
      OBVIOUS
    <3> QED  BY <3>1, ProbeInArray
  <2> QED  BY <1>1, <2>1
<1> QED  BY <1>1, <1>2 DEF Reached

\* A probe from h ends after d steps, at the first unused bucket.
Ends(bs, n, h, d) ==
    /\ Unused(bs[(h + d) % n])
    /\ \A k \in 0 .. d - 1 : ~Unused(bs[(h + k) % n])

\* Table t, whose type has hash h, goes to bucket p.
Put(bs, p, t, h) == [bs EXCEPT ![p] = [tableId |-> t, hash |-> h]]

\* Table t has been put into the array.
Joins(new, bs, n, t) == \A s : Holds(new, n, s) <=> Holds(bs, n, s) \/ s = t

\* A table is put where the probe for its type came to an unused bucket.
LEMMA PutBucket ==
    ASSUME NEW n, NEW bs, NEW ts, Placed(bs, n, ts), HashValue \subseteq Nat,
           NEW t \in 0 .. Len(ts) - 1, Len(ts) \in Nat, t \in TableId \ {InvalidTableId},
           ~Holds(bs, n, t), NEW h \in HashValue, h = hash[ts[t + 1]],
           NEW d \in 0 .. n - 1, Ends(bs, n, h, d),
           NEW new, new = Put(bs, (h + d) % n, t, h)
    PROVE  Placed(new, n, ts) /\ Joins(new, bs, n, t)
<1>0. PICK p, b : /\ p = (h + d) % n /\ b = [tableId |-> t, hash |-> h]
                  /\ new = [bs EXCEPT ![p] = b]
  BY DEF Put
<1>1. n \in Nat \ {0} /\ bs \in [0 .. n - 1 -> Bucket] /\ h \in Nat
  BY DEF Placed
<1>2. p \in 0 .. n - 1
  <2>1. d \in Nat
    BY <1>1
  <2> QED  BY ONLY <1>0, <1>1, <2>1, ProbeInArray
<1>3. b \in Bucket /\ b.tableId = t /\ b.hash = h
  BY <1>0 DEF Bucket
<1>4. /\ new \in [0 .. n - 1 -> Bucket] /\ new[p] = b
      /\ \A i \in 0 .. n - 1 : i # p => new[i] = bs[i]
  BY <1>0, <1>1, <1>2, <1>3
<1>5. Unused(bs[p]) /\ \A i \in 0 .. n - 1 : ~Unused(bs[i]) => i # p /\ new[i] = bs[i]
  BY <1>0, <1>4 DEF Ends
<1>6. ~Unused(new[p])
  BY <1>3, <1>4 DEF Unused
<1>7. \A i \in 0 .. n - 1 : ~Unused(new[i]) <=> ~Unused(bs[i]) \/ i = p
  BY <1>4, <1>5, <1>6
<1>8. ASSUME NEW i \in 0 .. n - 1, ~Unused(new[i])
      PROVE  /\ new[i].tableId \in 0 .. Len(ts) - 1
             /\ new[i].hash = hash[ts[new[i].tableId + 1]]
             /\ Reached(new, n, i)
  <2>1. CASE i = p
    <3>1. new[i].tableId = t /\ new[i].hash = h
      BY <1>3, <1>4, <2>1
    <3>2. \A k \in 0 .. d - 1 : ~Unused(new[(h + k) % n])
      <4>1. \A k \in 0 .. d - 1 : (h + k) % n \in 0 .. n - 1
        <5>1. \A k \in 0 .. d - 1 : k \in Nat
          OBVIOUS
        <5> QED  BY ONLY <1>1, <5>1, ProbeInArray
      <4> QED  BY <1>7, <4>1 DEF Ends
    <3>3. Reached(new, n, i)
      BY <1>0, <2>1, <3>1, <3>2 DEF Reached
    <3> QED  BY <3>1, <3>3
  <2>2. CASE i # p
    <3>1. new[i] = bs[i] /\ ~Unused(bs[i])
      BY <1>4, <1>8, <2>2
    <3>2. Reached(bs, n, i)
      BY <3>1 DEF Placed
    <3>3. bs[i].hash \in Nat
      BY <1>1 DEF Bucket
    <3>4. \A j \in 0 .. n - 1 : ~Unused(bs[j]) => ~Unused(new[j])
      BY <1>7
    <3>5. Reached(new, n, i)
      BY ONLY <1>1, <3>1, <3>2, <3>3, <3>4, StillReached
    <3>6. /\ new[i].tableId \in 0 .. Len(ts) - 1
          /\ new[i].hash = hash[ts[new[i].tableId + 1]]
      BY <3>1 DEF Placed
    <3> QED  BY <3>5, <3>6
  <2> QED  BY <2>1, <2>2
<1>9. ASSUME NEW i \in 0 .. n - 1, NEW j \in 0 .. n - 1,
             ~Unused(new[i]), new[i].tableId = new[j].tableId
      PROVE  i = j
  <2>1. ~Unused(new[j])
    BY <1>9 DEF Unused
  <2>2. CASE i # p /\ j # p
    BY <1>4, <1>9, <2>2 DEF Placed
  <2>3. ASSUME NEW x \in 0 .. n - 1, x # p, ~Unused(new[x])
        PROVE  new[x].tableId # t
    BY <1>4, <1>7, <2>3 DEF Holds, Has
  <2> QED  BY <1>3, <1>4, <1>9, <2>1, <2>2, <2>3
<1>10. \A s : Holds(new, n, s) <=> Holds(bs, n, s) \/ s = t
  <2>1. ASSUME NEW s, Holds(bs, n, s)
        PROVE  Holds(new, n, s)
    <3>1. PICK i \in 0 .. n - 1 : Has(bs, i, s)
      BY <2>1 DEF Holds
    <3>2. new[i] = bs[i]
      BY <1>5, <3>1 DEF Has, Unused
    <3> QED  BY <3>1, <3>2 DEF Holds, Has
  <2>2. ASSUME NEW s, Holds(new, n, s)
        PROVE  Holds(bs, n, s) \/ s = t
    <3>1. PICK i \in 0 .. n - 1 : Has(new, i, s)
      BY <2>2 DEF Holds
    <3>2. CASE i = p
      BY <1>3, <1>4, <3>1, <3>2 DEF Has
    <3>3. CASE i # p
      BY <1>4, <3>1, <3>3 DEF Holds, Has
    <3> QED  BY <3>2, <3>3
  <2>3. Holds(new, n, t)
    BY <1>2, <1>3, <1>4 DEF Holds, Has
  <2> QED  BY <2>1, <2>2, <2>3
<1>11. Placed(new, n, ts)
  BY <1>1, <1>4, <1>8, <1>9 DEF Placed
<1> QED  BY <1>10, <1>11 DEF Joins

-----------------------------------------------------------------------------
(* Growing *)

\* The buckets in the order in which they are moved.
InOrder(n) == [i \in 1 .. n |-> buckets[i - 1]]

\* Growing is a fold of Reinsert.
LEMMA GrowingFolds ==
    ASSUME NEW n \in Nat, BucketCount(buckets) = n
    PROVE  GrowBuckets = Rehash!Result(EmptyBuckets(2 * n), InOrder(n))
BY DEF GrowBuckets, InOrder, FoldLeft, MapThenFoldSet, Max, Rehash!Result, Rehash!Greatest

\* What the first i buckets hold.
HeldBefore(i, t) == \E j \in 0 .. i - 1 : Has(buckets, j, t)

\* One bucket is moved.
LEMMA ReinsertStep ==
    ASSUME NEW n, Placed(buckets, n, types), Len(types) \in Nat, Len(types) <= n,
           HashValue \subseteq Nat, NEW i \in 1 .. n,
           NEW bs, Placed(bs, 2 * n, types), \A t : Holds(bs, 2 * n, t) <=> HeldBefore(i - 1, t)
    PROVE  LET new == Reinsert(bs, buckets[i - 1])
           IN  /\ Placed(new, 2 * n, types)
               /\ \A t : Holds(new, 2 * n, t) <=> HeldBefore(i, t)
<1>0. PICK j, b, m, new : j = i - 1 /\ b = buckets[j] /\ m = 2 * n /\ new = Reinsert(bs, b)
  OBVIOUS
<1>1. /\ n \in Nat \ {0} /\ j \in 0 .. n - 1 /\ b \in Bucket /\ m \in Nat \ {0}
      /\ bs \in [0 .. m - 1 -> Bucket] /\ Len(types) < m
  <2>1. n \in Nat \ {0} /\ buckets \in [0 .. n - 1 -> Bucket]
    BY DEF Placed
  <2>2. m \in Nat \ {0} /\ Len(types) < m /\ j \in 0 .. n - 1
    BY <1>0, <2>1
  <2>3. bs \in [0 .. m - 1 -> Bucket]
    BY <1>0 DEF Placed
  <2> QED  BY <1>0, <2>1, <2>2, <2>3
<1>2. \A t : HeldBefore(i, t) <=> HeldBefore(j, t) \/ Has(buckets, j, t)
  <2>1. \A k : k \in 0 .. i - 1 <=> k \in 0 .. j - 1 \/ k = j
    BY <1>0, <1>1
  <2> QED  BY <2>1 DEF HeldBefore
<1>3. CASE Unused(b)
  <2>1. new = bs
    BY <1>0, <1>3 DEF Reinsert
  <2>2. \A t : ~Has(buckets, j, t)
    BY <1>0, <1>3 DEF Has, Unused
  <2> QED  BY <1>0, <1>2, <2>1, <2>2
<1>4. CASE ~Unused(b)
  <2>1. PICK t, h : t = b.tableId /\ h = b.hash
    OBVIOUS
  <2>2. /\ t \in 0 .. Len(types) - 1 /\ t \in TableId \ {InvalidTableId}
        /\ h \in HashValue /\ h \in Nat /\ h = hash[types[t + 1]]
        /\ b = [tableId |-> t, hash |-> h]
    <3>1. t \in TableId /\ h \in HashValue /\ h \in Nat
          /\ b = [tableId |-> t, hash |-> h]
      BY <1>1, <2>1 DEF Bucket
    <3>2. t # InvalidTableId
      BY <1>4, <2>1 DEF Unused
    <3>3. t \in 0 .. Len(types) - 1 /\ h = hash[types[t + 1]]
      BY <1>0, <1>1, <1>4, <2>1 DEF Placed
    <3> QED  BY <3>1, <3>2, <3>3
  <2>3. ~Holds(bs, m, t)
    <3>1. SUFFICES ASSUME HeldBefore(j, t) PROVE FALSE
      BY <1>0
    <3>2. PICK k \in 0 .. j - 1 : Has(buckets, k, t)
      BY <3>1 DEF HeldBefore
    <3>3. k \in 0 .. n - 1 /\ k # j
      BY <1>1
    <3>4. ~Unused(buckets[k]) /\ buckets[k].tableId = buckets[j].tableId
      BY <1>0, <2>1, <3>2 DEF Has, Unused
    <3> QED  BY <1>1, <3>3, <3>4 DEF Placed
  <2> DEFINE S == {p \in 0 .. m - 1 : Unused(bs[p])}
  <2>4. S # {}
    BY <1>0, <1>1, FreeBucket
  <2>5. PICK d \in 0 .. m - 1 : /\ First(h, m, S) = (h + d) % m
                                /\ (h + d) % m \in S
                                /\ \A k \in 0 .. d - 1 : (h + k) % m \notin S
    <3> HIDE DEF S
    <3>1. S \in SUBSET (0 .. m - 1)
      BY DEF S
    <3> QED  BY ONLY <1>1, <2>2, <2>4, <3>1, ProbeEnds
  <2>6. Ends(bs, m, h, d)
    <3>1. \A k \in 0 .. d - 1 : (h + k) % m \in 0 .. m - 1
      <4>1. \A k \in 0 .. d - 1 : k \in Nat
        BY <1>1
      <4> QED  BY ONLY <1>1, <2>2, <4>1, ProbeInArray
    <3> QED  BY <2>5, <3>1 DEF Ends
  <2>7. new = [bs EXCEPT ![(h + d) % m] = b]
    <3>1. Probe(bs, h, Unused) = First(h, m, S)
      BY <1>1, <2>2, UnusedProbe
    <3> QED  BY <1>0, <1>4, <2>1, <2>5, <3>1 DEF Reinsert
  <2>8. Placed(new, m, types) /\ Joins(new, bs, m, t)
    <3> HIDE DEF S
    <3>1. new = Put(bs, (h + d) % m, t, h)
      BY <2>2, <2>7 DEF Put
    <3>2. Placed(bs, m, types)
      BY <1>0
    <3> QED  BY ONLY <1>1, <2>2, <2>3, <2>6, <3>1, <3>2, PutBucket, HashValue \subseteq Nat,
                     Len(types) \in Nat, d \in 0 .. m - 1
  <2>9. \A s : Has(buckets, j, s) <=> s = t
    BY <1>0, <1>4, <2>1, <2>2 DEF Has
  <2> QED  BY <1>0, <1>2, <2>8, <2>9 DEF Joins
<1> QED  BY <1>3, <1>4

\* Growing loses no table and puts each where it is found.
LEMMA Growing ==
    ASSUME NEW n, Placed(buckets, n, types), Len(types) \in Nat, Len(types) <= n,
           HashValue \subseteq Nat
    PROVE  /\ Placed(GrowBuckets, 2 * n, types)
           /\ \A t : Holds(GrowBuckets, 2 * n, t) <=> Holds(buckets, n, t)
<1>1. n \in Nat \ {0} /\ buckets \in [0 .. n - 1 -> Bucket] /\ 2 * n \in Nat \ {0}
  BY DEF Placed
<1>2. BucketCount(buckets) = n
  BY <1>1, ArraySize
<1>3. InOrder(n) \in Seq(Bucket) /\ Len(InOrder(n)) = n
      /\ \A i \in 1 .. n : InOrder(n)[i] = buckets[i - 1]
  <2>1. \A i \in 1 .. n : i - 1 \in 0 .. n - 1
    BY <1>1
  <2>2. InOrder(n) \in [1 .. n -> Bucket]
    BY <1>1, <2>1 DEF InOrder
  <2> QED  BY <1>1, <2>2 DEF InOrder
<1>4. PICK w : /\ w[0] = EmptyBuckets(2 * n)
               /\ \A i \in 1 .. n : w[i] = Reinsert(w[i - 1], buckets[i - 1])
               /\ w[n] = GrowBuckets
  <2>1. PICK s : s = InOrder(n)
    OBVIOUS
  <2>2. s \in Seq(Bucket) /\ Len(s) = n /\ \A i \in 1 .. n : s[i] = buckets[i - 1]
    BY <1>3, <2>1
  <2>3. \E w : /\ w[0] = EmptyBuckets(2 * n)
               /\ \A i \in 1 .. Len(s) : w[i] = Reinsert(w[i - 1], s[i])
               /\ w[Len(s)] = Rehash!Result(EmptyBuckets(2 * n), s)
    BY ONLY <2>2, Rehash!FoldLeftSteps
  <2> QED  BY <1>1, <1>2, <2>1, <2>2, <2>3, GrowingFolds
<1> DEFINE S == {i \in 0 .. n : /\ Placed(w[i], 2 * n, types)
                                /\ \A t : Holds(w[i], 2 * n, t) <=> HeldBefore(i, t)}
<1>5. 0 \in S
  <2>1. \A t : ~HeldBefore(0, t)
    BY DEF HeldBefore
  <2>2. \A t : ~Holds(w[0], 2 * n, t)
    BY <1>1, <1>4, EmptyArray
  <2>3. Placed(w[0], 2 * n, types)
    BY <1>1, <1>4, EmptyArray
  <2>4. 0 \in 0 .. n
    BY <1>1
  <2> QED  BY <2>1, <2>2, <2>3, <2>4
<1>6. ASSUME NEW i \in 1 .. n, i - 1 \in S
      PROVE  i \in S
  <2>1. /\ Placed(w[i - 1], 2 * n, types)
        /\ \A t : Holds(w[i - 1], 2 * n, t) <=> HeldBefore(i - 1, t)
    BY <1>6
  <2>2. w[i] = Reinsert(w[i - 1], buckets[i - 1]) /\ i \in 0 .. n
    BY <1>1, <1>4
  <2>3. /\ Placed(w[i], 2 * n, types)
        /\ \A t : Holds(w[i], 2 * n, t) <=> HeldBefore(i, t)
    BY <2>1, <2>2, ReinsertStep
  <2> QED  BY <2>2, <2>3
<1> HIDE DEF S
<1>7. \A i \in 0 .. n : i \in S
  BY ONLY <1>1, <1>5, <1>6, Rehash!UpTo
<1>8. n \in S
  BY <1>1, <1>7
<1>9. \A t : HeldBefore(n, t) <=> Holds(buckets, n, t)
  BY DEF HeldBefore, Holds
<1> QED  BY <1>4, <1>8, <1>9 DEF S

-----------------------------------------------------------------------------
(* Looking up *)

\* The types of the tables.  The tables are fewer than the ids: createAt lets
\* through the one that gets InvalidTableId, and its bucket would count as unused.
TypesDistinct ==
    /\ hash \in [EntityType -> HashValue]
    /\ types \in Seq(EntityType)
    /\ \A j, k \in DOMAIN types : types[j] = types[k] => j = k

TablesFit == Len(types) <= InvalidTableId

\* A bucket array from which every table is found, and the absence of one.
Sound(bs, n) ==
    /\ Placed(bs, n, types)
    /\ Len(types) < n
    /\ \A t \in 0 .. Len(types) - 1 : Holds(bs, n, t)

\* At most half of the buckets are in use.
MapInv ==
    /\ TypesDistinct
    /\ count = Len(types)
    /\ \E n \in Nat : Sound(buckets, n) /\ 2 * count <= n

\* A lookup that comes to the table of e after d steps, or to an unused bucket.
Finds(bs, n, e, d) ==
    LET bucket == bs[(hash[e] + d) % n]
    IN  IF Created(e)
        THEN ~Unused(bucket) /\ bucket.tableId \in 0 .. Len(types) - 1
             /\ TypeOf(bucket.tableId) = e
        ELSE Ends(bs, n, hash[e], d)

\* Every lookup does.
LEMMA Lookup ==
    ASSUME TypesDistinct, NEW n, NEW bs, Sound(bs, n), NEW e \in EntityType
    PROVE  \E d \in 0 .. n - 1 :
              FindBucketIndex(bs, e) = (hash[e] + d) % n /\ Finds(bs, n, e, d)
<1>0. PICK h, m : h = hash[e] /\ m = Len(types)
  OBVIOUS
<1>1. /\ n \in Nat \ {0} /\ bs \in [0 .. n - 1 -> Bucket] /\ h \in Nat
      /\ m \in Nat /\ DOMAIN types = 1 .. m
  <2>1. types \in Seq(EntityType) /\ hash \in [EntityType -> HashValue]
    BY DEF TypesDistinct
  <2> QED  BY <1>0, <2>1, TableMapAssumption DEF Sound, Placed
<1>2. \E i \in 0 .. n - 1 : Unused(bs[i])
  BY <1>0, <1>1, FreeBucket DEF Sound
<1> DEFINE S == Stops(bs, n, e)
<1>3. S \in SUBSET (0 .. n - 1) /\ S # {}
  BY <1>2 DEF Stops
<1>4. PICK d \in 0 .. n - 1 : /\ First(h, n, S) = (h + d) % n
                              /\ (h + d) % n \in S
                              /\ \A k \in 0 .. d - 1 : (h + k) % n \notin S
  <2> HIDE DEF S
  <2> QED  BY ONLY <1>1, <1>3, ProbeEnds
<1>5. FindBucketIndex(bs, e) = (h + d) % n
  BY <1>0, <1>1, <1>4, FindProbe
<1>6. PICK p, b : p = (h + d) % n /\ b = bs[p]
  OBVIOUS
<1>7. p \in 0 .. n - 1 /\ (Unused(b) \/ (b.hash = h /\ TypeOf(b.tableId) = e))
  BY <1>0, <1>4, <1>6 DEF Stops
<1>8. \A k \in 0 .. d - 1 : (h + k) % n \in 0 .. n - 1 /\ ~Unused(bs[(h + k) % n])
  <2>1. \A k \in 0 .. d - 1 : k \in Nat
    BY <1>1
  <2>2. \A k \in 0 .. d - 1 : (h + k) % n \in 0 .. n - 1
    BY ONLY <1>1, <2>1, ProbeInArray
  <2> QED  BY <1>4, <2>2 DEF Stops
<1>9. ~Unused(b) => b.tableId \in 0 .. m - 1 /\ Created(e)
  <2> SUFFICES ASSUME ~Unused(b) PROVE b.tableId \in 0 .. m - 1 /\ Created(e)
    OBVIOUS
  <2>1. b.tableId \in 0 .. m - 1
    BY <1>0, <1>6, <1>7 DEF Sound, Placed
  <2>2. b.tableId + 1 \in 1 .. m
    BY <1>1, <2>1
  <2>3. types[b.tableId + 1] = e
    BY <1>7 DEF TypeOf
  <2> QED  BY <1>1, <2>1, <2>2, <2>3 DEF Created
<1>10. Created(e) => ~Unused(b)
  <2> SUFFICES ASSUME Created(e), Unused(b) PROVE FALSE
    OBVIOUS
  <2>1. PICK j \in 1 .. m : types[j] = e
    BY <1>1 DEF Created
  <2>2. j - 1 \in 0 .. m - 1 /\ (j - 1) + 1 = j
    BY <1>1
  <2>3. PICK i \in 0 .. n - 1 : Has(bs, i, j - 1)
    BY <1>0, <2>2 DEF Sound, Holds
  <2>4. /\ ~Unused(bs[i]) /\ bs[i].tableId = j - 1 /\ bs[i].hash = h
        /\ TypeOf(bs[i].tableId) = e /\ Reached(bs, n, i)
    <3>1. ~Unused(bs[i]) /\ bs[i].tableId = j - 1
      BY <2>3 DEF Has, Unused
    <3>2. types[bs[i].tableId + 1] = e
      BY <2>1, <2>2, <3>1
    <3>3. bs[i].hash = hash[types[bs[i].tableId + 1]] /\ Reached(bs, n, i)
      BY <3>1 DEF Sound, Placed
    <3> QED  BY <1>0, <3>1, <3>2, <3>3 DEF TypeOf
  <2>5. PICK c \in 0 .. n - 1 : (h + c) % n = i /\ \A k \in 0 .. c - 1 : ~Unused(bs[(h + k) % n])
    BY <2>4 DEF Reached
  <2>6. i \in S
    BY <1>0, <2>4 DEF Stops
  <2>7. ~(c < d)
    <3>1. c < d => c \in 0 .. d - 1
      BY <1>1
    <3> QED  BY <1>4, <2>5, <2>6, <3>1
  <2>8. c # d
    BY <1>6, <2>4, <2>5
  <2>9. d \in 0 .. c - 1
    BY <1>1, <2>7, <2>8
  <2>10. ~Unused(b)
    BY <1>6, <2>5, <2>9
  <2> QED  BY <2>10
<1>11. Finds(bs, n, e, d)
  BY <1>0, <1>6, <1>7, <1>8, <1>9, <1>10 DEF Finds, Ends
<1> QED  BY <1>0, <1>5, <1>11

\* What findOrCreate searches is sound, and has room for one more table.
LEMMA SearchedSound ==
    ASSUME MapInv
    PROVE  \E m \in Nat : Sound(Searched, m) /\ 2 * (count + 1) <= m
<1>1. PICK n \in Nat : Sound(buckets, n) /\ 2 * count <= n
  BY DEF MapInv
<1>2. count = Len(types) /\ count \in Nat /\ n \in Nat \ {0} /\ Placed(buckets, n, types)
  BY <1>1 DEF MapInv, TypesDistinct, Sound, Placed
<1>3. BucketCount(buckets) = n
  BY <1>2, ArraySize DEF Placed
<1>4. CASE (count + 1) * 2 > n
  <2>1. Searched = GrowBuckets
    BY <1>3, <1>4 DEF Searched
  <2>2. count <= n /\ count < 2 * n /\ 2 * (count + 1) <= 2 * n /\ 2 * n \in Nat
    BY <1>1, <1>2
  <2>3. /\ Placed(GrowBuckets, 2 * n, types)
        /\ \A t : Holds(GrowBuckets, 2 * n, t) <=> Holds(buckets, n, t)
    BY <1>2, <2>2, Growing, TableMapAssumption
  <2>4. Sound(GrowBuckets, 2 * n)
    BY <1>1, <1>2, <2>2, <2>3 DEF Sound
  <2> QED  BY <2>1, <2>2, <2>4
<1>5. CASE ~((count + 1) * 2 > n)
  <2>1. Searched = buckets
    BY <1>3, <1>5 DEF Searched
  <2>2. 2 * (count + 1) <= n
    BY <1>2, <1>5
  <2> QED  BY <1>1, <2>1, <2>2
<1> QED  BY <1>4, <1>5

\* The table of the type is returned, and created if there is none.
Returned(e) ==
    /\ Found(e) \in 0 .. Len(types') - 1
    /\ types'[Found(e) + 1] = e
    /\ IF Found(e) = Len(types) THEN types' = Append(types, e) ELSE types' = types

\* findOrCreate does that and leaves the map sound.
LEMMA FindOrCreateStep ==
    ASSUME MapInv, NEW e \in EntityType, FindOrCreate(e), TablesFit'
    PROVE  MapInv' /\ Returned(e)
<1>1. PICK n \in Nat : Sound(Searched, n) /\ 2 * (count + 1) <= n
  BY SearchedSound
<1>2. PICK bs, m : bs = Searched /\ m = Len(types)
  OBVIOUS
<1>3. /\ count = m /\ m \in Nat /\ DOMAIN types = 1 .. m /\ TypesDistinct
      /\ types \in Seq(EntityType) /\ Sound(bs, n) /\ n \in Nat \ {0}
  BY <1>1, <1>2 DEF MapInv, TypesDistinct, Sound, Placed
<1>4. PICK d \in 0 .. n - 1 : FindBucketIndex(bs, e) = (hash[e] + d) % n /\ Finds(bs, n, e, d)
  BY <1>3, Lookup
<1>5. PICK i, b : i = (hash[e] + d) % n /\ b = bs[i]
  OBVIOUS
<1>6. Found(e) = IF Unused(b) THEN m ELSE b.tableId
  BY <1>2, <1>4, <1>5 DEF Found
<1>7. hash' = hash
  BY DEF FindOrCreate, CreateAt
<1>8. CASE Created(e)
  <2>1. ~Unused(b) /\ b.tableId \in 0 .. m - 1 /\ types[b.tableId + 1] = e
    BY <1>2, <1>4, <1>5, <1>8 DEF Finds, TypeOf
  <2>2. buckets' = bs /\ types' = types /\ count' = count
    BY <1>2, <1>4, <1>5, <2>1 DEF FindOrCreate
  <2>3. Returned(e)
    BY <1>2, <1>3, <1>6, <2>1, <2>2 DEF Returned
  <2>4. MapInv'
    <3>1. TypesDistinct'
      BY <1>3, <1>7, <2>2 DEF TypesDistinct
    <3>2. Sound(buckets, n)'
      BY <1>3, <1>7, <2>2 DEF Sound, Placed, Reached, Holds, Has
    <3>3. 2 * count' <= n
      BY <1>1, <1>3, <2>2
    <3> QED  BY <1>2, <1>3, <2>2, <3>1, <3>2, <3>3 DEF MapInv
  <2> QED  BY <2>3, <2>4
<1>9. CASE ~Created(e)
  <2>1. Ends(bs, n, hash[e], d) /\ Unused(b)
    BY <1>4, <1>5, <1>9 DEF Finds, Ends
  <2>2. CreateAt(bs, i, e)
    BY <1>2, <1>4, <1>5, <2>1 DEF FindOrCreate
  <2>3. PICK ts, new : ts = Append(types, e) /\ new = Put(bs, i, m, hash[e])
    OBVIOUS
  <2>4. types' = ts /\ buckets' = new /\ count' = count + 1
    BY <1>2, <2>2, <2>3 DEF CreateAt, Put
  <2>5. /\ ts \in Seq(EntityType) /\ Len(ts) = m + 1 /\ ts[m + 1] = e /\ DOMAIN ts = 1 .. m + 1
        /\ \A j \in 1 .. m : ts[j] = types[j]
    BY <1>2, <1>3, <2>3
  <2>6. Returned(e)
    <3>1. Found(e) = m
      BY <1>6, <2>1
    <3>2. m \in 0 .. (m + 1) - 1
      BY <1>3
    <3> QED  BY <1>2, <2>3, <2>4, <2>5, <3>1, <3>2 DEF Returned
  <2>7. \A j \in 1 .. m + 1 : j \in 1 .. m \/ j = m + 1
    BY <1>3
  <2>8. TypesDistinct'
    <3>1. \A j \in 1 .. m : types[j] # e
      BY <1>3, <1>9 DEF Created
    <3>2. \A j, k \in 1 .. m : types[j] = types[k] => j = k
      BY <1>3 DEF TypesDistinct
    <3>3. \A j, k \in 1 .. m + 1 : ts[j] = ts[k] => j = k
      BY ONLY <2>5, <2>7, <3>1, <3>2
    <3> QED  BY <1>3, <1>7, <2>4, <2>5, <3>3 DEF TypesDistinct
  <2>9. Placed(bs, n, ts) /\ ~Holds(bs, n, m)
    <3>1. Placed(bs, n, types)
      BY <1>3 DEF Sound
    <3>2. ASSUME NEW j \in 0 .. n - 1, ~Unused(bs[j])
          PROVE  /\ bs[j].tableId \in 0 .. Len(ts) - 1 /\ bs[j].tableId # m
                 /\ bs[j].hash = hash[ts[bs[j].tableId + 1]]
      <4>1. bs[j].tableId \in 0 .. m - 1 /\ bs[j].hash = hash[types[bs[j].tableId + 1]]
        BY <1>2, <3>1, <3>2 DEF Placed
      <4>2. \A t \in 0 .. m - 1 : t \in 0 .. (m + 1) - 1 /\ t # m /\ t + 1 \in 1 .. m
        BY <1>3
      <4>3. ts[bs[j].tableId + 1] = types[bs[j].tableId + 1]
        BY <2>5, <4>1, <4>2
      <4> QED  BY <2>5, <4>1, <4>2, <4>3
    <3>3. Placed(bs, n, ts)
      BY <3>1, <3>2 DEF Placed
    <3>4. ~Holds(bs, n, m)
      BY <3>2 DEF Holds, Has, Unused
    <3> QED  BY <3>3, <3>4
  <2>10. Placed(new, n, ts) /\ Joins(new, bs, n, m)
    <3>1. m \in TableId \ {InvalidTableId}
      BY <1>3, <2>4, <2>5, TableMapAssumption DEF TablesFit, TableId
    <3>2. PICK h : h = hash[e]
      OBVIOUS
    <3>3. h \in HashValue /\ h = hash[ts[m + 1]] /\ HashValue \subseteq Nat
      BY <1>3, <2>5, <3>2, TableMapAssumption DEF TypesDistinct
    <3>4. m \in 0 .. Len(ts) - 1 /\ Len(ts) \in Nat
      BY <1>3, <2>5
    <3>5. Ends(bs, n, h, d) /\ new = Put(bs, (h + d) % n, m, h)
      BY <1>5, <2>1, <2>3, <3>2
    <3> QED  BY ONLY <2>9, <3>1, <3>3, <3>4, <3>5, PutBucket, d \in 0 .. n - 1
  <2>11. Sound(buckets, n)'
    <3>1. Placed(buckets, n, types)'
      BY <1>7, <2>4, <2>10 DEF Placed, Reached
    <3>2. \A t \in 0 .. m : Holds(new, n, t)
      <4>1. \A t \in 0 .. m : t \in 0 .. m - 1 \/ t = m
        BY <1>3
      <4> QED  BY <1>2, <1>3, <2>10, <4>1 DEF Sound, Joins
    <3>3. \A t \in 0 .. Len(types') - 1 : Holds(buckets, n, t)'
      <4>1. 0 .. Len(types') - 1 = 0 .. m
        BY <1>3, <2>4, <2>5
      <4>2. \A t : Holds(new, n, t) => Holds(buckets, n, t)'
        BY <2>4 DEF Holds, Has
      <4> QED  BY <3>2, <4>1, <4>2
    <3>4. Len(types') < n
      BY <1>1, <1>3, <2>4, <2>5
    <3> QED  BY <3>1, <3>3, <3>4 DEF Sound
  <2>12. MapInv'
    <3>1. 2 * count' <= n /\ count' = Len(types')
      BY <1>1, <1>3, <2>4, <2>5
    <3> QED  BY <1>3, <2>8, <2>11, <3>1 DEF MapInv
  <2> QED  BY <2>6, <2>12
<1> QED  BY <1>8, <1>9

\* A map that is sound answers every lookup.
LEMMA LookupsAnswered ==
    ASSUME MapInv
    PROVE  LookupsEnd /\ LookupsAgree
<1>1. PICK n \in Nat : Sound(buckets, n)
  BY DEF MapInv
<1>2. /\ TypesDistinct /\ Len(types) \in Nat /\ n \in Nat \ {0}
      /\ buckets \in [0 .. n - 1 -> Bucket] /\ Placed(buckets, n, types) /\ Len(types) < n
  BY <1>1 DEF MapInv, TypesDistinct, Sound, Placed
<1>3. LookupsEnd
  BY <1>2, FreeBucket DEF LookupsEnd
<1>4. ASSUME NEW e \in EntityType
      PROVE  LET bucket == buckets[FindBucketIndex(buckets, e)]
             IN  IF Created(e) THEN ~Unused(bucket) /\ TypeOf(bucket.tableId) = e
                 ELSE Unused(bucket)
  <2>1. PICK d \in 0 .. n - 1 :
           FindBucketIndex(buckets, e) = (hash[e] + d) % n /\ Finds(buckets, n, e, d)
    BY <1>1, <1>2, Lookup
  <2> QED  BY <2>1 DEF Finds, Ends
<1>5. \A j, k \in DOMAIN types : types[j] = types[k] => j = k
  BY <1>2 DEF TypesDistinct
<1> QED  BY <1>3, <1>4, <1>5 DEF LookupsAgree

-----------------------------------------------------------------------------
(* Lists of tables *)

\* A greater number at the end.
LEMMA ListsAppend ==
    ASSUME NEW seq \in Seq(Nat), NEW S, Lists(seq, S), NEW m \in Nat, \A x \in S : x < m
    PROVE  Append(seq, m) \in Seq(Nat) /\ Lists(Append(seq, m), S \cup {m})
<1>1. PICK n, new : n = Len(seq) /\ new = Append(seq, m)
  OBVIOUS
<1>2. /\ n \in Nat /\ DOMAIN seq = 1 .. n /\ DOMAIN new = 1 .. n + 1 /\ new \in Seq(Nat)
      /\ new[n + 1] = m /\ \A i \in 1 .. n : new[i] = seq[i]
  BY <1>1
<1>3. \A i : i \in 1 .. n + 1 <=> i \in 1 .. n \/ i = n + 1
  BY <1>2
<1>4. Range(new) = S \cup {m}
  <2>1. {seq[i] : i \in 1 .. n} = S
    BY <1>2 DEF Lists, Range
  <2>2. {new[i] : i \in 1 .. n + 1} = {seq[i] : i \in 1 .. n} \cup {m}
    BY ONLY <1>2, <1>3
  <2> QED  BY <1>2, <2>1, <2>2 DEF Range
<1>5. ASSUME NEW j \in 1 .. n + 1, NEW k \in 1 .. n + 1, j < k
      PROVE  new[j] < new[k]
  <2>1. j \in 1 .. n
    BY <1>2, <1>5
  <2>2. CASE k \in 1 .. n
    BY <1>2, <1>5, <2>1, <2>2 DEF Lists
  <2>3. CASE k = n + 1
    <3>1. seq[j] \in S
      BY <1>2, <2>1 DEF Lists, Range
    <3> QED  BY <1>2, <2>1, <2>3, <3>1
  <2> QED  BY <1>3, <2>2, <2>3
<1> QED  BY <1>1, <1>2, <1>4, <1>5 DEF Lists

\* What the Bloom filter lets through does not matter: a table with the required
\* components has their bits.
LEMMA MatchExact ==
    ASSUME NEW terms \in QueryTerms, NEW type
    PROVE  MatchTable(terms, type) <=>
              terms.required \subseteq type /\ terms.excluded \cap type = {}
<1>1. terms.required \subseteq type => Bloom(terms.required) \subseteq Bloom(type)
  BY DEF Bloom
<1> QED  BY <1>1 DEF MatchTable

Query == [terms : QueryTerms, tables : Seq(Nat)]

\* A query of these terms with these tables.
Answer(q, terms, S) == q \in Query /\ q.terms = terms /\ Lists(q.tables, S)

\* A query that comes across a table greater than those it has.
LEMMA ToldStep ==
    ASSUME NEW terms, NEW q, NEW S, Answer(q, terms, S),
           NEW tid \in Nat, \A x \in S : x < tid, NEW type
    PROVE  Answer(Told(q, tid, type), terms,
                  IF MatchTable(terms, type) THEN S \cup {tid} ELSE S)
<1>1. PICK seq : seq = q.tables
  OBVIOUS
<1>2. /\ seq \in Seq(Nat) /\ q = [terms |-> terms, tables |-> seq] /\ terms \in QueryTerms
      /\ Lists(seq, S) /\ q \in Query /\ q.terms = terms
  BY <1>1 DEF Answer, Query
<1>3. CASE MatchTable(terms, type)
  <2>1. PICK new : new = Append(seq, tid)
    OBVIOUS
  <2>2. Told(q, tid, type) = [terms |-> terms, tables |-> new]
    BY <1>1, <1>2, <1>3, <2>1 DEF Told
  <2>3. new \in Seq(Nat) /\ Lists(new, S \cup {tid})
    BY <1>1, <1>2, <2>1, ListsAppend
  <2> QED  BY <1>2, <1>3, <2>2, <2>3 DEF Answer, Query
<1>4. CASE ~MatchTable(terms, type)
  BY <1>2, <1>4 DEF Told, Answer
<1> QED  BY <1>3, <1>4

\* The tables of a seed that match.
Matched(terms, S) == {tid \in S : MatchTable(terms, TypeOf(tid))}

\* A chain of visits ends with those that match, in order.
LEMMA ChainMatched ==
    ASSUME NEW terms \in QueryTerms, NEW seed \in Seq(Nat), NEW S, Lists(seed, S),
           NEW n, n = Len(seed), NEW w, w[0] = [terms |-> terms, tables |-> << >>],
           \A i \in 1 .. n : w[i] = Visit(w[i - 1], seed[i])
    PROVE  Answer(w[n], terms, Matched(terms, S))
<1>1. n \in Nat /\ DOMAIN seed = 1 .. n /\ \A i \in 1 .. n : seed[i] \in Nat
  OBVIOUS
<1> DEFINE Seen(i) == {seed[j] : j \in 1 .. i}
           Good(i) == Answer(w[i], terms, Matched(terms, Seen(i)))
           T == {i \in 0 .. n : Good(i)}
<1>2. Good(0)
  <2>1. PICK base : base = w[0]
    OBVIOUS
  <2>2. base = [terms |-> terms, tables |-> << >>]
    BY <2>1
  <2>3. base \in Query /\ base.terms = terms /\ base.tables = << >>
    BY <2>2 DEF Query
  <2>4. Matched(terms, Seen(0)) = {}
    BY DEF Matched
  <2>5. Lists(<< >>, {})
    BY DEF Lists, Range
  <2> QED  BY <2>1, <2>3, <2>4, <2>5 DEF Answer
<1>3. ASSUME NEW i \in 1 .. n, Good(i - 1)
      PROVE  Good(i)
  <2>1. PICK q, U, tid, type : /\ q = w[i - 1] /\ U = Matched(terms, Seen(i - 1))
                               /\ tid = seed[i] /\ type = TypeOf(tid)
    OBVIOUS
  <2>2. Answer(q, terms, U)
    BY <1>3, <2>1
  <2>3. w[i] = Told(q, tid, type) /\ tid \in Nat
    BY <1>1, <2>1 DEF Visit
  <2>4. \A x \in U : x < tid
    <3>1. \A j \in 1 .. i - 1 : seed[j] < seed[i]
      <4>1. \A j \in 1 .. i - 1 : j \in 1 .. n /\ j < i
        BY <1>1
      <4> QED  BY <1>1, <4>1 DEF Lists
    <3> QED  BY <2>1, <3>1 DEF Matched
  <2>5. Answer(w[i], terms, IF MatchTable(terms, type) THEN U \cup {tid} ELSE U)
    <3>1. Answer(Told(q, tid, type), terms,
                 IF MatchTable(terms, type) THEN U \cup {tid} ELSE U)
      BY <2>2, <2>3, <2>4, ToldStep
    <3> QED  BY <2>3, <3>1
  <2>6. Matched(terms, Seen(i)) = IF MatchTable(terms, type) THEN U \cup {tid} ELSE U
    <3>1. \A j : j \in 1 .. i <=> j \in 1 .. i - 1 \/ j = i
      BY <1>1
    <3>2. Seen(i) = Seen(i - 1) \cup {tid}
      BY ONLY <2>1, <3>1
    <3> HIDE DEF Seen
    <3> QED  BY <2>1, <3>2 DEF Matched
  <2> QED  BY <2>5, <2>6
<1>4. Seen(n) = S
  BY <1>1 DEF Lists, Range
<1> HIDE DEF Good
<1>5. 0 \in T /\ \A i \in 1 .. n : i - 1 \in T => i \in T
  BY <1>1, <1>2, <1>3
<1> HIDE DEF T
<1>6. \A i \in 0 .. n : i \in T
  BY ONLY <1>1, <1>5, Visits!UpTo
<1>7. Good(n)
  BY <1>1, <1>6 DEF T
<1> QED  BY <1>4, <1>7 DEF Good

\* A loop over a seed visits those that match, in order.
LEMMA VisitsMatched ==
    ASSUME NEW terms \in QueryTerms, NEW seed \in Seq(Nat), NEW S, Lists(seed, S)
    PROVE  Answer(FoldLeft(Visit, [terms |-> terms, tables |-> << >>], seed),
                  terms, Matched(terms, S))
<1>1. PICK n, base : n = Len(seed) /\ base = [terms |-> terms, tables |-> << >>]
  OBVIOUS
<1>2. FoldLeft(Visit, base, seed) = Visits!Result(base, seed)
  BY DEF FoldLeft, MapThenFoldSet, Max, Visits!Result, Visits!Greatest
<1>3. PICK w : /\ w[0] = base
               /\ \A i \in 1 .. n : w[i] = Visit(w[i - 1], seed[i])
               /\ w[n] = Visits!Result(base, seed)
  <2>1. \E w : /\ w[0] = base
               /\ \A i \in 1 .. Len(seed) : w[i] = Visit(w[i - 1], seed[i])
               /\ w[Len(seed)] = Visits!Result(base, seed)
    BY Visits!FoldLeftSteps
  <2> QED  BY <1>1, <2>1
<1>4. Answer(w[n], terms, Matched(terms, S))
  <2>1. w[0] = [terms |-> terms, tables |-> << >>]
    BY <1>1, <1>3
  <2>2. \A i \in 1 .. n : w[i] = Visit(w[i - 1], seed[i])
    BY <1>3
  <2>3. n = Len(seed) /\ Lists(seed, S)
    BY <1>1
  <2> QED  BY ONLY terms \in QueryTerms, seed \in Seq(Nat), <2>1, <2>2, <2>3, ChainMatched
<1> QED  BY <1>1, <1>2, <1>3, <1>4

\* The tables of a type with this component.
TablesWith(c, ts) == {tid \in 0 .. Len(ts) - 1 : c \in ts[tid + 1]}

\* The table lists of the component records have them all, in order.
ComponentsListed(lists, ts) ==
    /\ lists \in [Component -> Seq(Nat)]
    /\ \A c \in Component : Lists(lists[c], TablesWith(c, ts))

\* What a query visits, from whichever table list it starts, are the tables it
\* is about.
LEMMA MatchingMeant ==
    ASSUME types \in Seq(EntityType), ComponentsListed(componentTables, types),
           NEW terms \in QueryTerms, NEW tables \in Matching(terms)
    PROVE  \E q : q.tables = tables /\ Answer(q, terms, Meant(terms))
<1>1. PICK seed \in Seeds(terms) :
         tables = FoldLeft(Visit, [terms |-> terms, tables |-> << >>], seed).tables
  BY DEF Matching
<1>2. PICK q : q = FoldLeft(Visit, [terms |-> terms, tables |-> << >>], seed)
  OBVIOUS
<1>3. q.tables = tables
  BY <1>1, <1>2
<1>4. terms.required \subseteq Component
  BY ArchetypesAssumption
<1>5. Len(types) \in Nat /\ DOMAIN types = 1 .. Len(types)
  OBVIOUS
<1>6. CASE terms.required = {}
  <2>1. PICK m : m = Len(types)
    OBVIOUS
  <2>2. seed = [j \in 1 .. m |-> j - 1] /\ m \in Nat
    BY <1>5, <1>6, <2>1 DEF Seeds
  <2>3. seed \in Seq(Nat) /\ DOMAIN seed = 1 .. m /\ \A j \in 1 .. m : seed[j] = j - 1
    BY <2>2
  <2>4. Lists(seed, Tid)
    <3>1. {seed[j] : j \in 1 .. m} = 0 .. m - 1
      <4>1. \A t \in 0 .. m - 1 : t + 1 \in 1 .. m /\ seed[t + 1] = t
        BY <2>2, <2>3
      <4>2. \A j \in 1 .. m : seed[j] \in 0 .. m - 1
        BY <2>2, <2>3
      <4> QED  BY <4>1, <4>2
    <3>2. \A j, k \in 1 .. m : j < k => seed[j] < seed[k]
      BY <2>2, <2>3
    <3> QED  BY <2>1, <2>3, <3>1, <3>2 DEF Lists, Range, Tid
  <2>5. Answer(q, terms, Matched(terms, Tid))
    BY <1>2, <2>3, <2>4, VisitsMatched
  <2>6. Matched(terms, Tid) = Meant(terms)
    BY MatchExact DEF Matched, Meant
  <2> QED  BY <1>3, <2>5, <2>6
<1>7. CASE terms.required # {}
  <2>1. PICK d \in terms.required : seed = componentTables[d]
    BY <1>7 DEF Seeds
  <2>2. d \in Component /\ seed \in Seq(Nat) /\ Lists(seed, TablesWith(d, types))
    BY <1>4, <2>1 DEF ComponentsListed
  <2>3. Answer(q, terms, Matched(terms, TablesWith(d, types)))
    BY <1>2, <2>2, VisitsMatched
  <2>4. Matched(terms, TablesWith(d, types)) = Meant(terms)
    <3>1. Matched(terms, TablesWith(d, types)) =
             {tid \in TablesWith(d, types) : /\ terms.required \subseteq TypeOf(tid)
                                      /\ terms.excluded \cap TypeOf(tid) = {}}
      BY MatchExact DEF Matched
    <3> QED  BY <2>1, <3>1 DEF Meant, TablesWith, Tid, TypeOf
  <2> QED  BY <1>3, <2>3, <2>4
<1> QED  BY <1>6, <1>7

-----------------------------------------------------------------------------
(* Edges *)

\* An edge that is not there yet, or leads to a table of the type.
Leads(to, type, ts) ==
    to = InvalidTableId \/ (to \in 0 .. Len(ts) - 1 /\ ts[to + 1] = type)

EdgeSet == [add : [Component -> TableId], remove : [Component -> TableId]]

EdgesRight(es, ts) ==
    /\ es \in Seq(EdgeSet) /\ Len(es) = Len(ts)
    /\ \A j \in 1 .. Len(ts), c \in Component :
          /\ Leads(es[j].add[c], ts[j] \cup {c}, ts)
          /\ Leads(es[j].remove[c], ts[j] \ {c}, ts)

\* A table more.
LEMMA NewEdges ==
    ASSUME NEW es, NEW ts \in Seq(EntityType), EdgesRight(es, ts), NEW e \in EntityType,
           NEW m, m = Len(ts), m \in TableId
    PROVE  EdgesRight(Append(es, OwnEdges(e, m)), Append(ts, e))
<1>1. PICK new, own, tn : new = Append(es, own) /\ own = OwnEdges(e, m) /\ tn = Append(ts, e)
  OBVIOUS
<1>2. /\ own \in EdgeSet
      /\ \A c \in Component : /\ own.add[c] = IF c \in e THEN m ELSE InvalidTableId
                              /\ own.remove[c] = InvalidTableId
  <2>1. InvalidTableId \in TableId
    BY TableMapAssumption DEF TableId
  <2> QED  BY <1>1, <2>1 DEF OwnEdges, EdgeSet
<1>3. /\ m \in Nat /\ Len(tn) = m + 1 /\ tn[m + 1] = e /\ \A j \in 1 .. m : tn[j] = ts[j]
  BY <1>1
<1>4. /\ new \in Seq(EdgeSet) /\ Len(new) = m + 1 /\ new[m + 1] = own
      /\ \A j \in 1 .. m : new[j] = es[j]
  BY <1>1, <1>2 DEF EdgesRight
<1>5. \A j \in 1 .. m + 1 : j \in 1 .. m \/ j = m + 1
  BY <1>3
<1>6. \A to, type : Leads(to, type, ts) => Leads(to, type, tn)
  <2>1. \A t \in 0 .. m - 1 : t \in 0 .. (m + 1) - 1 /\ t + 1 \in 1 .. m
    BY <1>3
  <2> QED  BY <1>3, <2>1 DEF Leads
<1>7. \A j \in 1 .. m, c \in Component : /\ Leads(new[j].add[c], tn[j] \cup {c}, tn)
                                         /\ Leads(new[j].remove[c], tn[j] \ {c}, tn)
  BY <1>3, <1>4, <1>6 DEF EdgesRight
<1>8. \A c \in Component : /\ Leads(own.add[c], e \cup {c}, tn)
                           /\ Leads(own.remove[c], e \ {c}, tn)
  <2>1. m \in 0 .. (m + 1) - 1
    BY <1>3
  <2>2. \A c : c \in e => e \cup {c} = e
    OBVIOUS
  <2> QED  BY <1>2, <1>3, <2>1, <2>2 DEF Leads
<1> QED  BY <1>1, <1>3, <1>4, <1>5, <1>7, <1>8 DEF EdgesRight

\* An edge more, by an add.
LEMMA NewAddEdge ==
    ASSUME NEW es, NEW ts, EdgesRight(es, ts), Len(ts) \in Nat, NEW i \in 1 .. Len(ts),
           NEW c \in Component, NEW to \in TableId, Leads(to, ts[i] \cup {c}, ts)
    PROVE  EdgesRight([es EXCEPT ![i].add[c] = to], ts)
<1>1. PICK m, f, rec, new :
         /\ m = Len(ts) /\ f = [es[i].add EXCEPT ![c] = to]
         /\ rec = [add |-> f, remove |-> es[i].remove]
         /\ new = [es EXCEPT ![i] = rec]
  OBVIOUS
<1>2. es \in Seq(EdgeSet) /\ Len(es) = m /\ m \in Nat /\ i \in 1 .. m /\ DOMAIN es = 1 .. m
  BY <1>1 DEF EdgesRight
<1>3. es[i] \in EdgeSet
  BY <1>2
<1>4. /\ f \in [Component -> TableId]
      /\ \A d \in Component : f[d] = IF d = c THEN to ELSE es[i].add[d]
  BY <1>1, <1>3 DEF EdgeSet
<1>5. rec \in EdgeSet /\ rec.add = f /\ rec.remove = es[i].remove
  BY <1>1, <1>3, <1>4 DEF EdgeSet
<1>6. /\ new \in Seq(EdgeSet) /\ Len(new) = m /\ new[i] = rec
      /\ \A j \in 1 .. m : j # i => new[j] = es[j]
  BY <1>1, <1>2, <1>5
<1>7. \A j \in 1 .. m, d \in Component : /\ Leads(new[j].add[d], ts[j] \cup {d}, ts)
                                         /\ Leads(new[j].remove[d], ts[j] \ {d}, ts)
  BY <1>1, <1>2, <1>4, <1>5, <1>6 DEF EdgesRight
<1>8. [es EXCEPT ![i].add[c] = to] = new
  <2>1. [es[i] EXCEPT !.add = f] = rec
    BY <1>1, <1>3 DEF EdgeSet
  <2>2. [es EXCEPT ![i] = [es[i] EXCEPT !.add = f]] = new
    BY <1>1, <2>1
  <2>3. [es EXCEPT ![i].add[c] = to]
           = [es EXCEPT ![i] = [es[i] EXCEPT !.add = [es[i].add EXCEPT ![c] = to]]]
    OBVIOUS
  <2> QED  BY <1>1, <2>2, <2>3
<1> QED  BY <1>1, <1>6, <1>7, <1>8 DEF EdgesRight

\* An edge more, by a remove.
LEMMA NewRemoveEdge ==
    ASSUME NEW es, NEW ts, EdgesRight(es, ts), Len(ts) \in Nat, NEW i \in 1 .. Len(ts),
           NEW c \in Component, NEW to \in TableId, Leads(to, ts[i] \ {c}, ts)
    PROVE  EdgesRight([es EXCEPT ![i].remove[c] = to], ts)
<1>1. PICK m, f, rec, new :
         /\ m = Len(ts) /\ f = [es[i].remove EXCEPT ![c] = to]
         /\ rec = [add |-> es[i].add, remove |-> f]
         /\ new = [es EXCEPT ![i] = rec]
  OBVIOUS
<1>2. es \in Seq(EdgeSet) /\ Len(es) = m /\ m \in Nat /\ i \in 1 .. m /\ DOMAIN es = 1 .. m
  BY <1>1 DEF EdgesRight
<1>3. es[i] \in EdgeSet
  BY <1>2
<1>4. /\ f \in [Component -> TableId]
      /\ \A d \in Component : f[d] = IF d = c THEN to ELSE es[i].remove[d]
  BY <1>1, <1>3 DEF EdgeSet
<1>5. rec \in EdgeSet /\ rec.remove = f /\ rec.add = es[i].add
  BY <1>1, <1>3, <1>4 DEF EdgeSet
<1>6. /\ new \in Seq(EdgeSet) /\ Len(new) = m /\ new[i] = rec
      /\ \A j \in 1 .. m : j # i => new[j] = es[j]
  BY <1>1, <1>2, <1>5
<1>7. \A j \in 1 .. m, d \in Component : /\ Leads(new[j].add[d], ts[j] \cup {d}, ts)
                                         /\ Leads(new[j].remove[d], ts[j] \ {d}, ts)
  BY <1>1, <1>2, <1>4, <1>5, <1>6 DEF EdgesRight
<1>8. [es EXCEPT ![i].remove[c] = to] = new
  <2>1. [es[i] EXCEPT !.remove = f] = rec
    BY <1>1, <1>3 DEF EdgeSet
  <2>2. [es EXCEPT ![i] = [es[i] EXCEPT !.remove = f]] = new
    BY <1>1, <2>1
  <2>3. [es EXCEPT ![i].remove[c] = to]
           = [es EXCEPT ![i] = [es[i] EXCEPT !.remove = [es[i].remove EXCEPT ![c] = to]]]
    OBVIOUS
  <2> QED  BY <1>1, <2>2, <2>3
<1> QED  BY <1>1, <1>6, <1>7, <1>8 DEF EdgesRight

-----------------------------------------------------------------------------
(* A table more *)

\* What a query is about among these types.
MeantOf(terms, ts) ==
    {tid \in 0 .. Len(ts) - 1 : /\ terms.required \subseteq ts[tid + 1]
                                /\ terms.excluded \cap ts[tid + 1] = {}}

\* The cached queries have exactly that.
QueriesRight(qs, ts) ==
    /\ qs \in Seq(Query)
    /\ \A j \in 1 .. Len(qs) : Answer(qs[j], qs[j].terms, MeantOf(qs[j].terms, ts))

\* The ids of a sequence one longer.
LEMMA LongerBy ==
    ASSUME NEW ts \in Seq(EntityType), NEW e \in EntityType
    PROVE  /\ Append(ts, e) \in Seq(EntityType)
           /\ \A t : t \in 0 .. Len(Append(ts, e)) - 1 <=>
                        t \in 0 .. Len(ts) - 1 \/ t = Len(ts)
           /\ Append(ts, e)[Len(ts) + 1] = e
           /\ \A t \in 0 .. Len(ts) - 1 : Append(ts, e)[t + 1] = ts[t + 1]
<1>1. PICK m, new : m = Len(ts) /\ new = Append(ts, e)
  OBVIOUS
<1>2. /\ m \in Nat /\ new \in Seq(EntityType) /\ Len(new) = m + 1 /\ new[m + 1] = e
      /\ \A j \in 1 .. m : new[j] = ts[j]
  BY <1>1
<1>3. \A t \in 0 .. m - 1 : t + 1 \in 1 .. m
  BY <1>2
<1>4. \A t : t \in 0 .. (m + 1) - 1 <=> t \in 0 .. m - 1 \/ t = m
  BY <1>2
<1> QED  BY <1>1, <1>2, <1>3, <1>4

\* The lists with the new table in those of its components.
LEMMA NewListed ==
    ASSUME NEW lists, NEW ts \in Seq(EntityType), ComponentsListed(lists, ts),
           NEW e \in EntityType
    PROVE  ComponentsListed([c \in Component |-> IF c \in e THEN Append(lists[c], Len(ts))
                                                 ELSE lists[c]],
                            Append(ts, e))
<1>1. PICK m, tn, new : /\ m = Len(ts) /\ tn = Append(ts, e)
                        /\ new = [c \in Component |-> IF c \in e THEN Append(lists[c], m)
                                                      ELSE lists[c]]
  OBVIOUS
<1>2. m \in Nat
  BY <1>1
<1>3. ASSUME NEW c \in Component
      PROVE  new[c] \in Seq(Nat) /\ Lists(new[c], TablesWith(c, tn))
  <2>1. lists[c] \in Seq(Nat) /\ Lists(lists[c], TablesWith(c, ts))
    BY DEF ComponentsListed
  <2>2. \A t \in TablesWith(c, ts) : t < m
    BY <1>1, <1>2 DEF TablesWith
  <2>3. TablesWith(c, tn) = IF c \in e THEN TablesWith(c, ts) \cup {m} ELSE TablesWith(c, ts)
    <3>1. /\ \A t : t \in 0 .. Len(tn) - 1 <=> t \in 0 .. m - 1 \/ t = m
          /\ tn[m + 1] = e /\ \A t \in 0 .. m - 1 : tn[t + 1] = ts[t + 1]
      BY <1>1, LongerBy
    <3> QED  BY <1>1, <3>1 DEF TablesWith
  <2>4. CASE c \in e
    <3>1. new[c] = Append(lists[c], m)
      BY <1>1, <2>4
    <3>2. Append(lists[c], m) \in Seq(Nat) /\ Lists(Append(lists[c], m), TablesWith(c, ts) \cup {m})
      BY <1>2, <2>1, <2>2, ListsAppend
    <3> QED  BY <2>3, <2>4, <3>1, <3>2
  <2>5. CASE c \notin e
    BY <1>1, <2>1, <2>3, <2>5
  <2> QED  BY <2>4, <2>5
<1>4. DOMAIN new = Component /\ new = [c \in Component |-> new[c]]
  BY <1>1
<1>5. new \in [Component -> Seq(Nat)]
  BY <1>3, <1>4
<1> QED  BY <1>1, <1>3, <1>5 DEF ComponentsListed

\* The queries that have been told of the new table.
LEMMA NewTold ==
    ASSUME NEW qs, NEW ts \in Seq(EntityType), QueriesRight(qs, ts), NEW e \in EntityType
    PROVE  QueriesRight([j \in DOMAIN qs |-> Told(qs[j], Len(ts), e)], Append(ts, e))
<1>1. PICK m, n, tn, new : /\ m = Len(ts) /\ n = Len(qs) /\ tn = Append(ts, e)
                           /\ new = [j \in DOMAIN qs |-> Told(qs[j], m, e)]
  OBVIOUS
<1>2. m \in Nat /\ n \in Nat /\ DOMAIN qs = 1 .. n /\ qs \in Seq(Query)
  BY <1>1 DEF QueriesRight
<1>3. ASSUME NEW j \in 1 .. n
      PROVE  new[j] \in Query /\ Answer(new[j], new[j].terms, MeantOf(new[j].terms, tn))
  <2>1. PICK q, terms, S : q = qs[j] /\ terms = q.terms /\ S = MeantOf(terms, ts)
    OBVIOUS
  <2>2. Answer(q, terms, S)
    BY <1>1, <2>1 DEF QueriesRight
  <2>3. new[j] = Told(q, m, e)
    BY <1>1, <1>2, <2>1
  <2>4. \A t \in S : t < m
    BY <1>1, <1>2, <2>1 DEF MeantOf
  <2>5. Answer(new[j], terms, IF MatchTable(terms, e) THEN S \cup {m} ELSE S)
    <3>1. Answer(Told(q, m, e), terms, IF MatchTable(terms, e) THEN S \cup {m} ELSE S)
      BY <1>2, <2>2, <2>4, ToldStep
    <3> QED  BY <2>3, <3>1
  <2>6. MeantOf(terms, tn) = IF MatchTable(terms, e) THEN S \cup {m} ELSE S
    <3>1. /\ \A t : t \in 0 .. Len(tn) - 1 <=> t \in 0 .. m - 1 \/ t = m
          /\ tn[m + 1] = e /\ \A t \in 0 .. m - 1 : tn[t + 1] = ts[t + 1]
      BY <1>1, LongerBy
    <3>2. terms \in QueryTerms
      BY <2>1, <2>2 DEF Answer, Query
    <3>3. MatchTable(terms, e) <=> terms.required \subseteq e /\ terms.excluded \cap e = {}
      BY <3>2, MatchExact
    <3> QED  BY <1>1, <2>1, <3>1, <3>3 DEF MeantOf
  <2>7. new[j] \in Query /\ new[j].terms = terms
    BY <2>5 DEF Answer
  <2> QED  BY <2>5, <2>6, <2>7
<1>4. DOMAIN new = 1 .. n /\ new = [j \in 1 .. n |-> new[j]]
  BY <1>1, <1>2
<1>5. new \in Seq(Query) /\ Len(new) = n
  <2>1. new \in [1 .. n -> Query]
    BY <1>3, <1>4
  <2> QED  BY <1>2, <2>1
<1> QED  BY <1>1, <1>3, <1>5 DEF QueriesRight

-----------------------------------------------------------------------------
(* The invariant *)

GraphRight ==
    /\ EdgesRight(edges, types)
    /\ ComponentsListed(componentTables, types)
    /\ QueriesRight(queries, types)

\* As long as no table has got the id that stands for none.
ArchetypesInv ==
    /\ types \in Seq(EntityType)
    /\ TablesFit => MapInv /\ GraphRight

\* findOrCreateTable, with all it does.
LEMMA TableStep ==
    ASSUME MapInv, GraphRight, NEW e \in EntityType, NEW tid, tid = Found(e),
           FindOrCreateTable(e, tid), TablesFit'
    PROVE  /\ MapInv' /\ types' \in Seq(EntityType)
           /\ tid \in TableId /\ Leads(tid, e, types')
           /\ EdgesRight(EdgesWith(e, tid), types')
           /\ ComponentsListed(componentTables', types') /\ QueriesRight(queries', types')
           /\ \A j \in 1 .. Len(types) : j \in 1 .. Len(types') /\ types'[j] = types[j]
<1>1. PICK m : m = Len(types)
  OBVIOUS
<1>2. FindOrCreate(e)
  BY DEF FindOrCreateTable
<1>3. MapInv' /\ Returned(e)
  BY <1>2, FindOrCreateStep
<1>4. types \in Seq(EntityType) /\ types' \in Seq(EntityType) /\ m \in Nat
  BY <1>1, <1>3 DEF MapInv, TypesDistinct
<1>5. tid \in TableId /\ Leads(tid, e, types')
  <2>1. tid \in 0 .. Len(types') - 1 /\ types'[tid + 1] = e
    BY <1>3 DEF Returned
  <2>2. tid \in 0 .. InvalidTableId
    BY <1>4, <2>1, TableMapAssumption DEF TablesFit
  <2> QED  BY <2>1, <2>2 DEF Leads, TableId
<1>6. CASE tid = m
  <2>1. types' = Append(types, e)
    BY <1>1, <1>3, <1>6 DEF Returned
  <2>2. \A j \in 1 .. m : j \in 1 .. Len(types') /\ types'[j] = types[j]
    BY <1>1, <1>4, <2>1
  <2>3. EdgesRight(EdgesWith(e, tid), types')
    <3>1. EdgesWith(e, tid) = Append(edges, OwnEdges(e, m))
      BY <1>1, <1>6 DEF EdgesWith
    <3>2. EdgesRight(Append(edges, OwnEdges(e, m)), Append(types, e))
      BY <1>1, <1>4, <1>5, <1>6, NewEdges DEF GraphRight
    <3> QED  BY <2>1, <3>1, <3>2
  <2>4. ComponentsListed(componentTables', types')
    <3>1. componentTables' = [c \in Component |-> IF c \in e THEN Append(componentTables[c], m)
                                                  ELSE componentTables[c]]
      BY <1>1, <1>6 DEF FindOrCreateTable
    <3> QED  BY <1>1, <1>4, <2>1, <3>1, NewListed DEF GraphRight
  <2>5. QueriesRight(queries', types')
    <3>1. queries' = [j \in DOMAIN queries |-> Told(queries[j], m, e)]
      BY <1>1, <1>6 DEF FindOrCreateTable, Informed
    <3> QED  BY <1>1, <1>4, <2>1, <3>1, NewTold DEF GraphRight
  <2> QED  BY <1>1, <1>3, <1>4, <1>5, <2>2, <2>3, <2>4, <2>5
<1>7. CASE tid # m
  <2>1. types' = types /\ componentTables' = componentTables /\ queries' = queries
    BY <1>1, <1>3, <1>7 DEF Returned, FindOrCreateTable
  <2>2. EdgesWith(e, tid) = edges
    BY <1>1, <1>7 DEF EdgesWith
  <2> QED  BY <1>3, <1>4, <1>5, <2>1, <2>2 DEF GraphRight
<1> QED  BY <1>6, <1>7

\* The first table.
LEMMA FirstTable ==
    ASSUME Init
    PROVE  ArchetypesInv
<1>1. {} \in EntityType
  BY ArchetypesAssumption
<1>2. PICK h, ts : h = hash[{}] /\ ts = types
  OBVIOUS
<1>3. /\ ts = <<{}>> /\ ts \in Seq(EntityType) /\ Len(ts) = 1 /\ ts[1] = {} /\ DOMAIN ts = 1 .. 1
      /\ h \in HashValue /\ h \in Nat /\ hash \in [EntityType -> HashValue]
  BY <1>1, <1>2, TableMapAssumption DEF Init
<1> SUFFICES ASSUME TablesFit PROVE MapInv /\ GraphRight
  BY <1>2, <1>3 DEF ArchetypesInv
<1>4. 0 \in TableId \ {InvalidTableId} /\ 1 \in TableId /\ InvalidTableId \in TableId
  BY <1>2, <1>3, TableMapAssumption DEF TablesFit, TableId
<1>5. MapInv
  <2>1. PICK n, bs, new : /\ n = InitialBuckets /\ bs = EmptyBuckets(n)
                          /\ new = Put(bs, h % n, 0, h)
    OBVIOUS
  <2>2. n \in Nat \ {0} /\ n > 1
    BY <2>1, TableMapAssumption
  <2>3. Placed(bs, n, ts) /\ \A t : ~Holds(bs, n, t)
    BY <2>1, <2>2, EmptyArray
  <2>4. Ends(bs, n, h, 0) /\ 0 \in 0 .. n - 1 /\ (h + 0) % n = h % n
    <3>1. h % n \in 0 .. n - 1
      BY <1>3, <2>2
    <3>2. Unused(bs[h % n])
      BY <2>1, <3>1 DEF EmptyBuckets, Unused
    <3> QED  BY <1>3, <2>2, <3>2 DEF Ends
  <2>5. Placed(new, n, ts) /\ Joins(new, bs, n, 0)
    <3>1. /\ 0 \in 0 .. Len(ts) - 1 /\ Len(ts) \in Nat
          /\ h = hash[ts[0 + 1]] /\ HashValue \subseteq Nat
      BY <1>2, <1>3, TableMapAssumption
    <3>2. new = Put(bs, (h + 0) % n, 0, h)
      BY <2>1, <2>4
    <3> QED  BY <1>3, <1>4, <2>3, <2>4, <3>1, <3>2, PutBucket
  <2>6. buckets = new
    BY <1>2, <2>1 DEF Init, Put
  <2>7. Sound(buckets, n)
    <3>1. \A t \in 0 .. Len(ts) - 1 : t = 0
      BY <1>3
    <3>2. \A t \in 0 .. Len(ts) - 1 : Holds(new, n, t)
      BY <2>5, <3>1 DEF Joins
    <3> QED  BY <1>2, <1>3, <2>2, <2>5, <2>6, <3>2 DEF Sound
  <2>8. TypesDistinct
    BY <1>2, <1>3 DEF TypesDistinct
  <2> QED  BY <1>2, <1>3, <2>2, <2>7, <2>8 DEF MapInv, Init
<1>6. EdgesRight(edges, types)
  <2>1. PICK own : own = OwnEdges({}, 0)
    OBVIOUS
  <2>2. /\ own \in EdgeSet
        /\ \A c \in Component : own.add[c] = InvalidTableId /\ own.remove[c] = InvalidTableId
    BY <1>4, <2>1 DEF OwnEdges, EdgeSet
  <2>3. edges = <<own>>
    BY <2>1 DEF Init
  <2>4. edges \in Seq(EdgeSet) /\ Len(edges) = 1 /\ edges[1] = own
    BY <2>2, <2>3
  <2> QED  BY <1>2, <1>3, <2>2, <2>4 DEF EdgesRight, Leads
<1>7. ComponentsListed(componentTables, types)
  <2>1. \A c \in Component : componentTables[c] = << >>
    BY DEF Init
  <2>2. componentTables \in [Component -> Seq(Nat)]
    BY DEF Init
  <2>3. \A c \in Component : TablesWith(c, types) = {}
    <3>1. \A t \in 0 .. Len(ts) - 1 : ts[t + 1] = {}
      BY <1>3
    <3> QED  BY <1>2, <3>1 DEF TablesWith
  <2>4. Lists(<< >>, {})
    BY DEF Lists, Range
  <2> QED  BY <2>1, <2>2, <2>3, <2>4 DEF ComponentsListed
<1>8. QueriesRight(queries, types)
  BY DEF Init, QueriesRight
<1> QED  BY <1>5, <1>6, <1>7, <1>8 DEF GraphRight

\* Tables are not deleted.
LEMMA TypesGrow ==
    ASSUME types \in Seq(EntityType), NEW e \in EntityType, FindOrCreate(e)
    PROVE  types' \in Seq(EntityType) /\ (TablesFit' => TablesFit)
<1>1. types' = types \/ types' = Append(types, e)
  BY DEF FindOrCreate, CreateAt
<1>2. Len(types) \in Nat /\ Append(types, e) \in Seq(EntityType)
      /\ Len(Append(types, e)) = Len(types) + 1
  OBVIOUS
<1> QED  BY <1>1, <1>2, TableMapAssumption DEF TablesFit

\* An edge that an add has resolved.
LEMMA AddEdgeStep ==
    ASSUME ArchetypesInv, NEW from \in Tid, NEW c \in Component, ResolveAddEdge(from, c)
    PROVE  ArchetypesInv'
<1>1. PICK i, e, tid : i = from + 1 /\ e = types[i] \cup {c} /\ tid = Found(e)
  OBVIOUS
<1>2. types \in Seq(EntityType) /\ Len(types) \in Nat /\ i \in 1 .. Len(types)
  BY <1>1 DEF ArchetypesInv, Tid
<1>3. e \in EntityType
  <2>1. types[i] \in EntityType
    BY <1>2
  <2> QED  BY <1>1, <2>1, ArchetypesAssumption
<1>4. FindOrCreateTable(e, tid) /\ edges' = [EdgesWith(e, tid) EXCEPT ![i].add[c] = tid]
  BY <1>1 DEF ResolveAddEdge, TypeOf
<1>5. types' \in Seq(EntityType) /\ (TablesFit' => TablesFit)
  BY <1>2, <1>3, <1>4, TypesGrow DEF FindOrCreateTable
<1>6. ASSUME TablesFit'
      PROVE  MapInv' /\ GraphRight'
  <2>1. MapInv /\ GraphRight
    BY <1>5, <1>6 DEF ArchetypesInv
  <2>2. /\ MapInv' /\ tid \in TableId /\ Leads(tid, e, types')
        /\ EdgesRight(EdgesWith(e, tid), types')
        /\ ComponentsListed(componentTables', types') /\ QueriesRight(queries', types')
        /\ \A j \in 1 .. Len(types) : j \in 1 .. Len(types') /\ types'[j] = types[j]
    BY <1>1, <1>3, <1>4, <1>6, <2>1, TableStep
  <2>3. PICK ts, es : ts = types' /\ es = EdgesWith(e, tid)
    OBVIOUS
  <2>4. /\ EdgesRight(es, ts) /\ Len(ts) \in Nat /\ i \in 1 .. Len(ts) /\ tid \in TableId
        /\ Leads(tid, ts[i] \cup {c}, ts)
    <3>1. i \in 1 .. Len(ts) /\ ts[i] = types[i]
      BY <1>2, <2>2, <2>3
    <3>2. ts \in Seq(EntityType)
      BY <1>5, <2>3
    <3>3. e = ts[i] \cup {c}
      BY <1>1, <3>1
    <3>4. Leads(tid, e, ts) /\ EdgesRight(es, ts) /\ tid \in TableId
      BY <2>2, <2>3
    <3> QED  BY <3>1, <3>2, <3>3, <3>4
  <2>5. EdgesRight([es EXCEPT ![i].add[c] = tid], ts)
    BY ONLY <2>4, NewAddEdge, c \in Component
  <2>6. EdgesRight(edges', types')
    BY <1>4, <2>3, <2>5
  <2> QED  BY <2>2, <2>6 DEF GraphRight
<1> QED  BY <1>5, <1>6 DEF ArchetypesInv

\* An edge that a remove has resolved.
LEMMA RemoveEdgeStep ==
    ASSUME ArchetypesInv, NEW from \in Tid, NEW c \in Component, ResolveRemoveEdge(from, c)
    PROVE  ArchetypesInv'
<1>1. PICK i, e, tid : i = from + 1 /\ e = types[i] \ {c} /\ tid = Found(e)
  OBVIOUS
<1>2. types \in Seq(EntityType) /\ Len(types) \in Nat /\ i \in 1 .. Len(types)
  BY <1>1 DEF ArchetypesInv, Tid
<1>3. e \in EntityType
  <2>1. types[i] \in EntityType
    BY <1>2
  <2> QED  BY <1>1, <2>1, ArchetypesAssumption
<1>4. FindOrCreateTable(e, tid) /\ edges' = [EdgesWith(e, tid) EXCEPT ![i].remove[c] = tid]
  BY <1>1 DEF ResolveRemoveEdge, TypeOf
<1>5. types' \in Seq(EntityType) /\ (TablesFit' => TablesFit)
  BY <1>2, <1>3, <1>4, TypesGrow DEF FindOrCreateTable
<1>6. ASSUME TablesFit'
      PROVE  MapInv' /\ GraphRight'
  <2>1. MapInv /\ GraphRight
    BY <1>5, <1>6 DEF ArchetypesInv
  <2>2. /\ MapInv' /\ tid \in TableId /\ Leads(tid, e, types')
        /\ EdgesRight(EdgesWith(e, tid), types')
        /\ ComponentsListed(componentTables', types') /\ QueriesRight(queries', types')
        /\ \A j \in 1 .. Len(types) : j \in 1 .. Len(types') /\ types'[j] = types[j]
    BY <1>1, <1>3, <1>4, <1>6, <2>1, TableStep
  <2>3. PICK ts, es : ts = types' /\ es = EdgesWith(e, tid)
    OBVIOUS
  <2>4. /\ EdgesRight(es, ts) /\ Len(ts) \in Nat /\ i \in 1 .. Len(ts) /\ tid \in TableId
        /\ Leads(tid, ts[i] \ {c}, ts)
    <3>1. i \in 1 .. Len(ts) /\ ts[i] = types[i]
      BY <1>2, <2>2, <2>3
    <3>2. ts \in Seq(EntityType)
      BY <1>5, <2>3
    <3>3. e = ts[i] \ {c}
      BY <1>1, <3>1
    <3>4. Leads(tid, e, ts) /\ EdgesRight(es, ts) /\ tid \in TableId
      BY <2>2, <2>3
    <3> QED  BY <3>1, <3>2, <3>3, <3>4
  <2>5. EdgesRight([es EXCEPT ![i].remove[c] = tid], ts)
    BY ONLY <2>4, NewRemoveEdge, c \in Component
  <2>6. EdgesRight(edges', types')
    BY <1>4, <2>3, <2>5
  <2> QED  BY <2>2, <2>6 DEF GraphRight
<1> QED  BY <1>5, <1>6 DEF ArchetypesInv

\* A query that is cached has the tables there are.
LEMMA QueryStep ==
    ASSUME ArchetypesInv, NEW terms \in QueryTerms, RegisterQuery(terms)
    PROVE  ArchetypesInv'
<1>1. UNCHANGED <<types, buckets, count, hash, edges, componentTables>>
  BY DEF RegisterQuery, mapVars
<1>2. PICK tables \in Matching(terms) :
         queries' = Append(queries, [terms |-> terms, tables |-> tables])
  BY DEF RegisterQuery
<1>3. ASSUME TablesFit
      PROVE  MapInv' /\ GraphRight'
  <2>1. MapInv /\ GraphRight /\ types \in Seq(EntityType)
    BY <1>3 DEF ArchetypesInv
  <2>2. MapInv'
    BY <1>1, <2>1 DEF MapInv, TypesDistinct, Sound, Placed, Reached, Holds, Has
  <2>3. PICK q : q.tables = tables /\ Answer(q, terms, Meant(terms))
    BY <2>1, MatchingMeant DEF GraphRight
  <2>4. q \in Query /\ q.terms = terms /\ q = [terms |-> terms, tables |-> tables]
    BY <2>3 DEF Answer, Query
  <2>5. PICK n, new : n = Len(queries) /\ new = Append(queries, q)
    OBVIOUS
  <2>6. /\ queries' = new /\ queries \in Seq(Query) /\ n \in Nat
        /\ \A j \in 1 .. n : Answer(queries[j], queries[j].terms, MeantOf(queries[j].terms, types))
    BY <1>2, <2>1, <2>4, <2>5 DEF GraphRight, QueriesRight
  <2>7. /\ new \in Seq(Query) /\ Len(new) = n + 1 /\ new[n + 1] = q
        /\ \A j \in 1 .. n : new[j] = queries[j]
    BY <2>4, <2>5, <2>6
  <2>8. Answer(q, q.terms, MeantOf(q.terms, types))
    BY <2>3, <2>4 DEF Meant, MeantOf, Tid, TypeOf
  <2>9. \A j \in 1 .. n + 1 : j \in 1 .. n \/ j = n + 1
    BY <2>6
  <2>10. QueriesRight(new, types)
    BY <2>6, <2>7, <2>8, <2>9 DEF QueriesRight
  <2> QED  BY <1>1, <2>1, <2>2, <2>6, <2>10 DEF GraphRight
<1> QED  BY <1>1, <1>3 DEF ArchetypesInv, TablesFit

\* The invariant holds in every state that can be reached.
THEOREM ArchetypesInvariant == Spec => []ArchetypesInv
<1>1. Init => ArchetypesInv
  BY FirstTable
<1>2. ArchetypesInv /\ [Next]_vars => ArchetypesInv'
  <2> SUFFICES ASSUME ArchetypesInv, [Next]_vars PROVE ArchetypesInv'
    OBVIOUS
  <2>1. ASSUME NEW from \in Tid, NEW c \in Component, ResolveAddEdge(from, c)
        PROVE  ArchetypesInv'
    BY <2>1, AddEdgeStep
  <2>2. ASSUME NEW from \in Tid, NEW c \in Component, ResolveRemoveEdge(from, c)
        PROVE  ArchetypesInv'
    BY <2>2, RemoveEdgeStep
  <2>3. ASSUME NEW terms \in QueryTerms, RegisterQuery(terms)
        PROVE  ArchetypesInv'
    BY <2>3, QueryStep
  <2>4. CASE UNCHANGED vars
    BY <2>4 DEF vars, mapVars, ArchetypesInv, TablesFit, GraphRight, MapInv, TypesDistinct,
                Sound, Placed, Reached, Holds, Has
  <2> QED  BY <2>1, <2>2, <2>3, <2>4 DEF Next
<1> QED  BY <1>1, <1>2, PTL DEF Spec

-----------------------------------------------------------------------------
(* What follows from it *)

\* Every lookup of findOrCreate comes to an end: there is an unused bucket.
THEOREM LookupsTerminate == Spec => [](TablesFit => LookupsEnd)
<1>1. ArchetypesInv => (TablesFit => LookupsEnd)
  BY LookupsAnswered DEF ArchetypesInv
<1> QED  BY <1>1, ArchetypesInvariant, PTL

\* findOrCreate finds the table of a type and no other, whatever types collided
\* with it and however often the buckets were moved; no two tables have one type.
THEOREM LookupsAreExact == Spec => [](TablesFit => LookupsAgree)
<1>1. ArchetypesInv => (TablesFit => LookupsAgree)
  BY LookupsAnswered DEF ArchetypesInv
<1> QED  BY <1>1, ArchetypesInvariant, PTL

\* A resolved edge leads to the table of the type that the add or the remove
\* yields.
THEOREM EdgesStaySound == Spec => [](TablesFit => EdgesSound)
<1>1. ASSUME ArchetypesInv, TablesFit
      PROVE  EdgesSound
  <2>1. types \in Seq(EntityType) /\ EdgesRight(edges, types)
    BY <1>1 DEF ArchetypesInv, GraphRight
  <2> SUFFICES ASSUME NEW from \in Tid, NEW c \in Component
               PROVE  LET to == edges[from + 1]
                      IN  /\ to.add[c] # InvalidTableId =>
                                TypeOf(to.add[c]) = TypeOf(from) \cup {c}
                          /\ to.remove[c] # InvalidTableId =>
                                TypeOf(to.remove[c]) = TypeOf(from) \ {c}
    BY DEF EdgesSound
  <2>2. from + 1 \in 1 .. Len(types)
    BY <2>1 DEF Tid
  <2>3. /\ Leads(edges[from + 1].add[c], types[from + 1] \cup {c}, types)
        /\ Leads(edges[from + 1].remove[c], types[from + 1] \ {c}, types)
    BY <2>1, <2>2 DEF EdgesRight
  <2> QED  BY <2>3 DEF Leads, TypeOf
<1> QED  BY <1>1, ArchetypesInvariant, PTL

\* A cached query has each table it is about once, in the order they were made.
THEOREM CachesAreExact == Spec => [](TablesFit => QueryCachesExact)
<1>1. ASSUME ArchetypesInv, TablesFit
      PROVE  QueryCachesExact
  <2>1. /\ queries \in Seq(Query)
        /\ \A j \in 1 .. Len(queries) :
              Answer(queries[j], queries[j].terms, MeantOf(queries[j].terms, types))
    BY <1>1 DEF ArchetypesInv, GraphRight, QueriesRight
  <2>2. \A terms : Meant(terms) = MeantOf(terms, types)
    BY DEF Meant, MeantOf, Tid, TypeOf
  <2> QED  BY <2>1, <2>2 DEF QueryCachesExact, Answer
<1> QED  BY <1>1, ArchetypesInvariant, PTL

\* So has a runtime query, from whichever table list it starts.
THEOREM RuntimeQueriesAreExact == Spec => [](TablesFit => RuntimeQueriesExact)
<1>1. ASSUME ArchetypesInv, TablesFit
      PROVE  RuntimeQueriesExact
  <2>1. types \in Seq(EntityType) /\ ComponentsListed(componentTables, types)
    BY <1>1 DEF ArchetypesInv, GraphRight
  <2> SUFFICES ASSUME NEW terms \in QueryTerms, NEW seq \in Matching(terms)
               PROVE  Lists(seq, Meant(terms))
    BY DEF RuntimeQueriesExact
  <2> QED  BY <2>1, MatchingMeant DEF Answer
<1> QED  BY <1>1, ArchetypesInvariant, PTL

\* A list of tables lists tables.
LEMMA ListedTables ==
    ASSUME NEW seq \in Seq(Nat), NEW S, Lists(seq, S), S \subseteq Tid
    PROVE  seq \in Seq(Tid)
<1>1. \A i \in 1 .. Len(seq) : seq[i] \in Tid
  BY DEF Lists, Range
<1> QED  BY <1>1

\* Every variable has its type.
THEOREM ArchetypesTypeCorrect == Spec => [](TablesFit => TypeOK)
<1>1. ASSUME ArchetypesInv, TablesFit
      PROVE  TypeOK
  <2>1. /\ types \in Seq(EntityType) /\ EdgesRight(edges, types)
        /\ ComponentsListed(componentTables, types) /\ QueriesRight(queries, types)
    BY <1>1 DEF ArchetypesInv, GraphRight
  <2>2. Len(edges) = Len(types) /\ \A j \in DOMAIN edges : edges[j] \in EdgeSet
    BY <2>1 DEF EdgesRight
  <2>3. componentTables \in [Component -> Seq(Tid)]
    <3>1. ASSUME NEW c \in Component
          PROVE  componentTables[c] \in Seq(Tid)
      <4>1. componentTables[c] \in Seq(Nat) /\ Lists(componentTables[c], TablesWith(c, types))
        BY <2>1 DEF ComponentsListed
      <4>2. TablesWith(c, types) \subseteq Tid
        BY DEF TablesWith, Tid
      <4> QED  BY <4>1, <4>2, ListedTables
    <3> QED  BY <2>1, <3>1 DEF ComponentsListed
  <2>4. ASSUME NEW j \in DOMAIN queries
        PROVE  queries[j].terms \in QueryTerms /\ queries[j].tables \in Seq(Tid)
    <3>1. PICK q, S : q = queries[j] /\ S = MeantOf(q.terms, types)
      OBVIOUS
    <3>2. Answer(q, q.terms, S)
      BY <2>1, <3>1 DEF QueriesRight
    <3>3. q.terms \in QueryTerms /\ q.tables \in Seq(Nat) /\ Lists(q.tables, S)
      BY <3>2 DEF Answer, Query
    <3>4. S \subseteq Tid
      BY <3>1 DEF MeantOf, Tid
    <3> QED  BY <3>1, <3>3, <3>4, ListedTables
  <2> QED  BY <2>1, <2>2, <2>3, <2>4 DEF TypeOK, EdgeSet
<1> QED  BY <1>1, ArchetypesInvariant, PTL
=============================================================================
