------------------------------- MODULE Vectors -------------------------------
(***************************************************************************)
(* EcsVec: a vector of plain data that has no destructor.  Several vectors *)
(* share one heap; a copy gets a block of its own, a move takes the block  *)
(* over, and a block is given back by free or by an assignment only.       *)
(***************************************************************************)
EXTENDS Naturals, SequencesExt

CONSTANTS
    Vec,       \* the vectors of the program
    Item,      \* what a vector stores
    Junk,      \* an element nothing was written to, after resize
    Null,      \* data = nullptr
    MaxSize    \* bound on the size of a vector

VectorsAssumption ==
    /\ IsFiniteSet(Vec) /\ Null \notin Nat
    /\ MaxSize \in Nat \ {0} /\ Junk \notin Item

VARIABLES
    vec,     \* the fields of each vector
    heap,    \* the elements in each allocated block
    kept     \* history: how often each vector was given each element and still has it

vectorVars == <<vec, heap, kept>>

Element == Item \cup {Junk}
Block == 1 .. Cardinality(Vec) + 1

VectorsTypeOK ==
    /\ vec \in [Vec -> [data : Block \cup {Null}, size : 0 .. MaxSize,
                        capacity : 0 .. 2 * MaxSize]]
    /\ DOMAIN heap \subseteq Block
    /\ \A b \in DOMAIN heap : heap[b] \in Seq(Element)

Empty == [data |-> Null, size |-> 0, capacity |-> 0]

\* How often each element occurs in s.
Tally(s) == [x \in Element |-> Cardinality({i \in DOMAIN s : s[i] = x})]

\* A tally with n more of x, and with one less.
Gaining(tally, x, n) == [tally EXCEPT ![x] = @ + n]
Losing(tally, x) == [tally EXCEPT ![x] = @ - 1]

Elements(v) == IF vec[v].data = Null THEN << >> ELSE heap[vec[v].data]

-----------------------------------------------------------------------------
(* The heap *)

\* malloc: some block that is not in use.
FreshBlock == CHOOSE b \in Block : b \notin DOMAIN heap

WithoutBlock(h, b) == [c \in DOMAIN h \ {b} |-> h[c]]
WithBlock(h, b, s) == [c \in DOMAIN h \cup {b} |-> IF c = b THEN s ELSE h[c]]

\* v gets the elements s; where capacity exceeds the present one its block is
\* reallocated, which may or may not move it.
Store(v, s, capacity) ==
    /\ \E b \in IF vec[v].data = Null THEN {FreshBlock}
                ELSE IF capacity = vec[v].capacity THEN {vec[v].data}
                ELSE {vec[v].data, FreshBlock} :
          /\ heap' = WithBlock(WithoutBlock(heap, vec[v].data), b, s)
          /\ vec' = [vec EXCEPT ![v] =
                        [data |-> b, size |-> Len(s), capacity |-> capacity]]

-----------------------------------------------------------------------------
(* Operations *)

VectorsInit ==
    /\ vec = [v \in Vec |-> Empty]
    /\ heap = << >>
    /\ kept = [v \in Vec |-> Tally(<< >>)]

Full(v) == vec[v].size >= vec[v].capacity

\* The capacity push_back leaves.
Room(v) ==
    IF ~Full(v) THEN vec[v].capacity
    ELSE IF vec[v].capacity = 0 THEN 1 ELSE 2 * vec[v].capacity

\* push_back, which EcsVec(value) calls too.
PushBack(v, x) ==
    /\ vec[v].size < MaxSize
    /\ Store(v, Append(Elements(v), x), Room(v))
    /\ kept' = [kept EXCEPT ![v] = Gaining(@, x, 1)]

\* push_back of an element of the vector itself, by reference: when the block
\* moves, the bytes are read from where it was.
PushOwn(v, i) ==
    LET x == Elements(v)[i]
    IN  /\ vec[v].size < MaxSize
        /\ \E read \in IF Full(v) THEN Element ELSE {x} :
              Store(v, Append(Elements(v), read), Room(v))
        /\ kept' = [kept EXCEPT ![v] = Gaining(@, x, 1)]

\* Wrong: the place of the erased element is taken by the one before the last.
FilledFromBefore(s, i) ==
    [j \in 1 .. Len(s) - 1 |-> IF j = i /\ i > 1 THEN s[Len(s) - 1] ELSE s[j]]

\* The last element takes the place of element i.
Filled(s, i) == [j \in 1 .. Len(s) - 1 |-> IF j = i THEN s[Len(s)] ELSE s[j]]

\* erase; the caller names an element that is there.
Erase(v, i) ==
    /\ Store(v, Filled(Elements(v), i), vec[v].capacity)
    /\ kept' = [kept EXCEPT ![v] = Losing(@, Elements(v)[i])]

Has(v, x) == x \in Range(Elements(v))

\* remove: of the first element that equals x, if there is one.
RemoveValue(v, x) ==
    /\ Has(v, x)
    /\ Store(v, Filled(Elements(v), SelectInSeq(Elements(v), LAMBDA y : y = x)),
             vec[v].capacity)
    /\ kept' = [kept EXCEPT ![v] = Losing(@, x)]

\* replace, of the first as well.
Replace(v, x, y) ==
    /\ Has(v, x)
    /\ Store(v, ReplaceAt(Elements(v), SelectInSeq(Elements(v), LAMBDA z : z = x), y),
             vec[v].capacity)
    /\ kept' = [kept EXCEPT ![v] = Gaining(Losing(@, x), y, 1)]

PopBack(v) ==
    /\ vec[v].size > 0
    /\ Store(v, Front(Elements(v)), vec[v].capacity)
    /\ kept' = [kept EXCEPT ![v] = Losing(@, Last(Elements(v)))]

\* resize, with the value for new elements or without one.  Filling fewer
\* elements than there are has no meaning; without a value the rest is dropped.
Resize(v, n, x) ==
    LET s == Elements(v)
    IN  /\ n # Len(s) /\ (n < Len(s) => x = Junk)
        /\ Store(v, [j \in 1 .. n |-> IF j <= Len(s) THEN s[j] ELSE x],
                 Max({n, vec[v].capacity}))
        /\ kept' = [kept EXCEPT ![v] =
                       IF n < Len(s) THEN Tally(SubSeq(s, 1, n))
                       ELSE Gaining(@, x, n - Len(s))]

Free(v) ==
    /\ heap' = WithoutBlock(heap, vec[v].data)
    /\ vec' = [vec EXCEPT ![v] = Empty]
    /\ kept' = [kept EXCEPT ![v] = Tally(<< >>)]

\* Wrong: the copy refers to the block of the original.
CopyShallow(v, w) ==
    /\ v # w
    /\ heap' = WithoutBlock(heap, vec[v].data)
    /\ vec' = [vec EXCEPT ![v] = vec[w]]
    /\ kept' = [kept EXCEPT ![v] = kept[w]]

\* v = w, and the construction of an empty v from w: what v had is freed.
Copy(v, w) ==
    /\ v # w
    /\ IF vec[w].size = 0
       THEN heap' = WithoutBlock(heap, vec[v].data) /\ vec' = [vec EXCEPT ![v] = Empty]
       ELSE LET left == WithoutBlock(heap, vec[v].data)
                b == CHOOSE c \in Block : c \notin DOMAIN left
            IN  /\ heap' = WithBlock(left, b, Elements(w))
                /\ vec' = [vec EXCEPT ![v] = [data |-> b, size |-> vec[w].size,
                                              capacity |-> vec[w].size]]
    /\ kept' = [kept EXCEPT ![v] = kept[w]]

\* v = std::move(w).  A migration does the same when it copies the bytes of a
\* column with memcpy and gives up the row they came from.
Move(v, w) ==
    /\ v # w
    /\ heap' = WithoutBlock(heap, vec[v].data)
    /\ vec' = [vec EXCEPT ![v] = vec[w], ![w] = Empty]
    /\ kept' = [kept EXCEPT ![v] = kept[w], ![w] = Tally(<< >>)]

\* What does not push a vector's own element.
ChangeVector(v) ==
    \/ \E x \in Item : PushBack(v, x) \/ RemoveValue(v, x)
    \/ \E x, y \in Item : Replace(v, x, y)
    \/ \E i \in DOMAIN Elements(v) : Erase(v, i)
    \/ \E n \in 0 .. MaxSize, x \in Element : Resize(v, n, x)
    \/ PopBack(v) \/ Free(v)
    \/ \E w \in Vec : Copy(v, w) \/ Move(v, w)

\* An own element is pushed only where the vector has room.
VectorsNext ==
    \E v \in Vec :
        \/ ChangeVector(v)
        \/ \E i \in DOMAIN Elements(v) : ~Full(v) /\ PushOwn(v, i)

VectorsSpec == VectorsInit /\ [][VectorsNext]_vectorVars

-----------------------------------------------------------------------------
(* Safety *)

\* However vectors are copied, moved, assigned and freed, each has a block to
\* itself that is as large as it says, and no block is without a vector.
BlocksOwned ==
    /\ VectorsTypeOK
    /\ \A v \in Vec :
          IF vec[v].data = Null THEN vec[v] = Empty
          ELSE /\ vec[v].data \in DOMAIN heap
               /\ Len(heap[vec[v].data]) = vec[v].size
               /\ vec[v].size <= vec[v].capacity
    /\ \A v, w \in Vec : vec[v].data = vec[w].data => v = w \/ vec[v].data = Null
    /\ DOMAIN heap \subseteq {vec[v].data : v \in Vec}

\* A vector has the elements it was given, each as often as it was, although
\* erasing reorders them and growing moves them.
ContentsKept == \A v \in Vec : Tally(Elements(v)) = kept[v]
=============================================================================
