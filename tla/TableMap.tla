------------------------------- MODULE TableMap -------------------------------
(***************************************************************************)
(* TableMap: an open-addressing hash map from an entity type to the table  *)
(* that stores it.  Buckets are probed linearly; the bucket array doubles  *)
(* before it would be more than half full.  Tables are never deleted.      *)
(***************************************************************************)
EXTENDS Naturals, FiniteSets, SequencesExt

CONSTANTS
    EntityType,       \* the types that are looked up
    HashValue,        \* values hashEntityType can return
    InitialBuckets,   \* 16 in the code
    InvalidTableId    \* UINT16_MAX: the tableId of an unused bucket

ASSUME TableMapAssumption ==
    /\ HashValue # {} /\ HashValue \subseteq Nat
    /\ InitialBuckets \in Nat /\ InitialBuckets > 1
    /\ InvalidTableId \in Nat

VARIABLES
    types,     \* the type of table 0, 1, ..
    buckets,   \* function on 0 .. size - 1
    count,     \* buckets in use
    hash       \* hashEntityType, any function: the properties hold for all

mapVars == <<types, buckets, count, hash>>

TableId == 0 .. InvalidTableId
Bucket == [tableId : TableId, hash : HashValue]

TypeOf(tid) == types[tid + 1]
BucketCount(bs) == Cardinality(DOMAIN bs)
Unused(bucket) == bucket.tableId = InvalidTableId

\* The hash of an unused bucket is never looked at.
EmptyBuckets(size) ==
    [i \in 0 .. size - 1 |->
        [tableId |-> InvalidTableId, hash |-> CHOOSE v \in HashValue : TRUE]]

-----------------------------------------------------------------------------
(* Probing *)

\* The first position at or after h & mask, cyclically, where Stop holds.
Probe(bs, h, Stop(_)) ==
    LET size == BucketCount(bs)
        At(k) == (h + k) % size
    IN  At(Min({k \in 0 .. size - 1 : Stop(bs[At(k)])}))

FindBucketIndex(bs, e) ==
    Probe(bs, hash[e],
          LAMBDA b : Unused(b) \/ (b.hash = hash[e] /\ TypeOf(b.tableId) = e))

Reinsert(bs, bucket) ==
    IF Unused(bucket) THEN bs
    ELSE [bs EXCEPT ![Probe(bs, bucket.hash, Unused)] = bucket]

\* Wrong: the buckets are copied to the positions they had.
CopyBuckets ==
    LET size == BucketCount(buckets)
    IN  [i \in 0 .. 2 * size - 1 |->
            IF i < size THEN buckets[i] ELSE EmptyBuckets(2 * size)[i]]

\* growBuckets: a bucket array of twice the size, filled in bucket order.
GrowBuckets ==
    LET size == BucketCount(buckets)
    IN  FoldLeft(Reinsert, EmptyBuckets(2 * size), [i \in 1 .. size |-> buckets[i - 1]])

-----------------------------------------------------------------------------
(* Operations *)

\* Wrong: the array grows only once it is full.
SearchedFull ==
    IF count + 1 > BucketCount(buckets) THEN GrowBuckets ELSE buckets

\* The buckets a findOrCreate searches.
Searched ==
    IF (count + 1) * 2 > BucketCount(buckets) THEN GrowBuckets ELSE buckets

\* createAt, with its assertion "table id limit reached".
CreateAt(bs, i, e) ==
    /\ Len(types) <= InvalidTableId
    /\ buckets' = [bs EXCEPT ![i] = [tableId |-> Len(types), hash |-> hash[e]]]
    /\ types' = Append(types, e)
    /\ count' = count + 1
    /\ UNCHANGED hash

FindOrCreate(e) ==
    LET bs == Searched
        i == FindBucketIndex(bs, e)
    IN  IF Unused(bs[i]) THEN CreateAt(bs, i, e)
        ELSE buckets' = bs /\ UNCHANGED <<types, count, hash>>

\* The table id findOrCreate returns.
Found(e) ==
    LET bs == Searched
        bucket == bs[FindBucketIndex(bs, e)]
    IN  IF Unused(bucket) THEN Len(types) ELSE bucket.tableId

-----------------------------------------------------------------------------
(* Safety *)

Created(e) == \E j \in DOMAIN types : types[j] = e

\* A lookup comes to an end: it finds an unused bucket if nothing else.
LookupsEnd == \E i \in DOMAIN buckets : Unused(buckets[i])

\* findOrCreate reuses the existing table of a type, whatever types collided
\* with it and however often the buckets were moved; no other type is given
\* that table.
LookupsAgree ==
    /\ \A e \in EntityType :
          LET bucket == buckets[FindBucketIndex(buckets, e)]
          IN  IF Created(e) THEN ~Unused(bucket) /\ TypeOf(bucket.tableId) = e
              ELSE Unused(bucket)
    /\ \A j, k \in DOMAIN types : types[j] = types[k] => j = k
=============================================================================
