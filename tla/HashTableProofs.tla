--------------------------- MODULE HashTableProofs ---------------------------
(***************************************************************************)
(* The table of table.c does what KVStore promises, for every number of    *)
(* buckets and every hash function.  The invariant that makes each step    *)
(* map to a request of KVStore: every bucket is an exact list of keys of   *)
(* that bucket, and quantity counts the keys of the whole table.  First    *)
(* what the operations of list.c compute, for every list in descending     *)
(* order whose counter is exact: as a map from keys to values, list_add    *)
(* sets one key and list_remove clears one, and the result is again such a *)
(* list.                                                                   *)
(***************************************************************************)
EXTENDS HashTable, SequenceTheorems, FiniteSetTheorems, TLAPS

\* A list as the operations leave it.
Exact(l) == l \in List /\ Sorted(l) /\ l.size = Len(l.node)

-----------------------------------------------------------------------------
\* A set of numbers that is not empty has a least member.
LEMMA LeastNumber ==
  ASSUME NEW T \in SUBSET Nat, T # {}
  PROVE  \E x \in T : \A y \in T : x <= y
<1>1. \E x \in T : \A y \in T : ~(<<y, x>> \in OpToRel(<, Nat))
  BY NatLessThanWellFounded, WFMin
<1>2. \A x, y \in Nat : <<y, x>> \in OpToRel(<, Nat) <=> y < x
  BY DEF OpToRel
<1>3. PICK x \in T : \A y \in T : ~(<<y, x>> \in OpToRel(<, Nat))
  BY <1>1
<1>4. ASSUME NEW y \in T PROVE x <= y
  <2>1. x \in Nat /\ y \in Nat /\ ~(y < x)
    BY <1>2, <1>3
  <2> QED
    BY <2>1
<1> QED
  BY <1>4

\* The nodes of a list are entries, and the keys of entries are ordered.
LEMMA NodeTypes ==
  ASSUME NEW n \in Seq(Entry)
  PROVE  /\ Len(n) \in Nat
         /\ n # <<>> => 1 \in 1..Len(n) /\ Len(n) \in 1..Len(n)
         /\ \A i \in 1..Len(n) : /\ n[i] \in Entry
                                 /\ n[i].key \in Key /\ n[i].key \in Int
                                 /\ n[i].val \in Val /\ n[i].val # NoVal
<1>1. ASSUME NEW i \in 1..Len(n)
      PROVE  /\ n[i] \in Entry /\ n[i].key \in Key /\ n[i].key \in Int
             /\ n[i].val \in Val /\ n[i].val # NoVal
  <2>1. n[i] \in Entry
    BY ElementOfSeq
  <2> QED
    BY <2>1, KeyOrder, KeyValAssumption DEF Entry
<1>2. Len(n) \in Nat /\ (n # <<>> => Len(n) # 0)
  BY LenProperties, EmptySeq
<1> QED
  BY <1>1, <1>2

\* In a sorted list a key is found at its one position.
LEMMA Found ==
  ASSUME NEW l \in List, Sorted(l), NEW i \in 1..Len(l.node)
  PROVE  /\ HasKey(l, l.node[i].key)
         /\ Find(l, l.node[i].key) = i
         /\ list_get(l, l.node[i].key) = l.node[i].val
<1> DEFINE k == l.node[i].key
<1>1. Len(l.node) \in Nat /\ \A j \in 1..Len(l.node) : l.node[j].key \in Int
  BY NodeTypes DEF List
<1>2. \A j \in 1..Len(l.node) : j # i => l.node[j].key # k
  BY <1>1 DEF Sorted
<1>3. HasKey(l, k)
  BY DEF HasKey
<1>4. Find(l, k) = i
  BY <1>1, <1>2 DEF Find
<1> QED
  BY <1>3, <1>4 DEF list_get

\* The search for a key fails if, and only if, no node has it.
LEMMA Lookup ==
  ASSUME NEW l \in List, Sorted(l), NEW k \in Key
  PROVE  /\ list_get(l, k) \in Val \cup {NoVal}
         /\ list_get(l, k) # NoVal <=> HasKey(l, k)
         /\ HasKey(l, k) => Find(l, k) \in 1..Len(l.node) /\ l.node[Find(l, k)].key = k
<1>1. CASE HasKey(l, k)
  <2>1. PICK i \in 1..Len(l.node) : l.node[i].key = k
    BY <1>1 DEF HasKey
  <2>2. Find(l, k) = i /\ list_get(l, k) = l.node[i].val
    BY <2>1, Found
  <2>3. l.node[i].val \in Val /\ l.node[i].val # NoVal
    BY NodeTypes DEF List
  <2> QED
    BY <1>1, <2>1, <2>2, <2>3
<1>2. CASE ~HasKey(l, k)
  BY <1>2 DEF list_get
<1> QED
  BY <1>1, <1>2

-----------------------------------------------------------------------------
\* The walk of list_add stops, and not before it has to.
LEMMA WalkStops ==
  ASSUME NEW n \in Seq(Entry), NEW k \in Key, n # <<>>
  PROVE  /\ LeavesAt(n, k) \in 1..Len(n)
         /\ Leaves(n, k, LeavesAt(n, k))
         /\ \A j \in 1..Len(n) : j < LeavesAt(n, k) => ~Leaves(n, k, j)
<1> DEFINE T == {i \in 1..Len(n) : Leaves(n, k, i)}
<1>1. Len(n) \in Nat /\ Len(n) \in 1..Len(n)
  BY NodeTypes
<1>2. T \in SUBSET Nat /\ T # {}
  BY <1>1 DEF Leaves
<1>3. PICK x \in T : \A y \in T : x <= y
  BY <1>2, LeastNumber
<1>4. \A j \in 1..Len(n) : j < x => ~Leaves(n, k, j)
  BY <1>1, <1>3
<1> QED
  BY <1>1, <1>3, <1>4 DEF LeavesAt

\* m is a, e and b, one after the other.
Between(a, e, b, m) ==
  /\ m \in Seq(Entry) /\ Len(m) = Len(a) + 1 + Len(b)
  /\ \A j \in 1..Len(a) : m[j] = a[j]
  /\ m[Len(a) + 1] = e
  /\ \A j \in 1..Len(b) : m[Len(a) + 1 + j] = b[j]

\* A sequence put together from two parts with one entry between them.
LEMMA Joined ==
  ASSUME NEW a \in Seq(Entry), NEW b \in Seq(Entry), NEW e \in Entry
  PROVE  Between(a, e, b, a \o <<e>> \o b)
<1> DEFINE m == a \o <<e>> \o b
<1>1. <<e>> \in Seq(Entry) /\ Len(<<e>>) = 1 /\ <<e>>[1] = e
  OBVIOUS
<1>2. Len(a) \in Nat /\ Len(b) \in Nat
  BY LenProperties
<1>3. PICK c \in Seq(Entry) : c = a \o <<e>>
  BY <1>1, ConcatProperties
<1>4. /\ Len(c) = Len(a) + 1
      /\ \A j \in 1..Len(a) + 1 : c[j] = IF j <= Len(a) THEN a[j] ELSE <<e>>[j - Len(a)]
  BY <1>1, <1>3, ConcatProperties
<1>5. /\ m \in Seq(Entry) /\ Len(m) = Len(c) + Len(b)
      /\ \A j \in 1..Len(c) + Len(b) : m[j] = IF j <= Len(c) THEN c[j] ELSE b[j - Len(c)]
  BY <1>3, ConcatProperties
<1>6. \A j \in 1..Len(a) : m[j] = a[j]
  BY <1>2, <1>4, <1>5
<1>7. m[Len(a) + 1] = e
  BY <1>1, <1>2, <1>4, <1>5
<1>8. \A j \in 1..Len(b) : m[Len(a) + 1 + j] = b[j]
  BY <1>2, <1>4, <1>5
<1> HIDE DEF m
<1>9. Between(a, e, b, m)
  BY <1>2, <1>4, <1>5, <1>6, <1>7, <1>8 DEF Between
<1> QED
  BY <1>9 DEF m

\* The first p nodes of a list.
LEMMA FirstPart ==
  ASSUME NEW n \in Seq(Entry), NEW p \in 0..Len(n), NEW a, a = SubSeq(n, 1, p)
  PROVE  a \in Seq(Entry) /\ Len(a) = p /\ \A j \in 1..p : a[j] = n[j]
<1>1. Len(n) \in Nat /\ \A j \in 1..Len(n) : n[j] \in Entry
  BY LenProperties, ElementOfSeq
<1>2. p \in Int /\ \A j \in 1..p : n[j] \in Entry
  BY <1>1
<1>3. /\ a \in Seq(Entry)
      /\ Len(a) = IF 1 <= p THEN p - 1 + 1 ELSE 0
      /\ \A j \in 1..p - 1 + 1 : a[j] = n[1 + j - 1]
  BY <1>2, SubSeqProperties
<1> QED
  BY <1>1, <1>3

\* The nodes of a list after the first p.
LEMMA LastPart ==
  ASSUME NEW n \in Seq(Entry), NEW p \in 0..Len(n), NEW b, b = SubSeq(n, p + 1, Len(n))
  PROVE  /\ b \in Seq(Entry) /\ Len(b) = Len(n) - p
         /\ \A j \in 1..Len(n) - p : b[j] = n[p + j]
<1>1. Len(n) \in Nat /\ \A j \in 1..Len(n) : n[j] \in Entry
  BY LenProperties, ElementOfSeq
<1>2. p + 1 \in Int /\ Len(n) \in Int /\ \A j \in p + 1..Len(n) : n[j] \in Entry
  BY <1>1
<1>3. /\ b \in Seq(Entry)
      /\ Len(b) = IF p + 1 <= Len(n) THEN Len(n) - (p + 1) + 1 ELSE 0
      /\ \A j \in 1..Len(n) - (p + 1) + 1 : b[j] = n[p + 1 + j - 1]
  BY <1>2, SubSeqProperties
<1>4. \A j \in Int : p + 1 + j - 1 = p + j
  OBVIOUS
<1> QED
  BY <1>1, <1>3, <1>4

\* m is n with e put in after its first p nodes.
PutAfter(n, p, e, m) ==
  /\ m \in Seq(Entry) /\ Len(m) = Len(n) + 1
  /\ \A j \in 1..p : m[j] = n[j]
  /\ m[p + 1] = e
  /\ \A j \in p + 1..Len(n) : m[j + 1] = n[j]

\* That is what list_add puts together.
LEMMA Spliced ==
  ASSUME NEW n \in Seq(Entry), NEW p \in 0..Len(n), NEW e \in Entry
  PROVE  PutAfter(n, p, e, SubSeq(n, 1, p) \o <<e>> \o SubSeq(n, p + 1, Len(n)))
<1> DEFINE a == SubSeq(n, 1, p)
           b == SubSeq(n, p + 1, Len(n))
           m == a \o <<e>> \o b
<1>1. Len(n) \in Nat
  BY LenProperties
<1>2. a \in Seq(Entry) /\ Len(a) = p /\ \A j \in 1..p : a[j] = n[j]
  BY FirstPart
<1>3. /\ b \in Seq(Entry) /\ Len(b) = Len(n) - p
      /\ \A j \in 1..Len(n) - p : b[j] = n[p + j]
  BY LastPart
<1> HIDE DEF a, b
<1>j. Between(a, e, b, m)
  BY <1>2, <1>3, Joined
<1> HIDE DEF m
<1>4. /\ m \in Seq(Entry) /\ Len(m) = Len(a) + 1 + Len(b)
      /\ \A j \in 1..Len(a) : m[j] = a[j]
      /\ m[Len(a) + 1] = e
      /\ \A j \in 1..Len(b) : m[Len(a) + 1 + j] = b[j]
  BY <1>j DEF Between
<1>5. \A j \in p + 1..Len(n) : m[j + 1] = n[j]
  <2>1. ASSUME NEW j \in p + 1..Len(n) PROVE m[j + 1] = n[j]
    <3>1. PICK d \in 1..Len(n) - p : p + d = j /\ p + 1 + d = j + 1
      <4>1. j - p \in 1..Len(n) - p /\ p + (j - p) = j /\ p + 1 + (j - p) = j + 1
        BY <1>1
      <4> QED
        BY <4>1
    <3>2. m[p + 1 + d] = b[d] /\ b[d] = n[p + d]
      BY <1>2, <1>3, <1>4
    <3> QED
      BY <3>1, <3>2
  <2> QED
    BY <2>1
<1>6. PutAfter(n, p, e, m)
  BY <1>1, <1>2, <1>3, <1>4, <1>5 DEF PutAfter
<1> QED
  BY <1>6 DEF a, b, m

\* A new node goes between the larger keys and the smaller ones.
LEMMA InsertedInOrder ==
  ASSUME NEW n \in Seq(Entry), NEW e \in Entry, n # <<>>,
         \A i, j \in 1..Len(n) : i < j => n[i].key > n[j].key,
         \A j \in 1..Len(n) : n[j].key # e.key
  PROVE  \E p \in 0..Len(n) :
           /\ PutAfter(n, p, e, Inserted(n, e))
           /\ \A j \in 1..Len(n) :
                IF j <= p THEN n[j].key > e.key ELSE n[j].key < e.key
<1>1. /\ Len(n) \in Nat /\ e.key \in Key /\ e.key \in Int
      /\ \A j \in 1..Len(n) : n[j] \in Entry /\ n[j].key \in Int
  BY NodeTypes, KeyOrder DEF Entry
<1>2. PICK i \in 1..Len(n) :
        /\ i = LeavesAt(n, e.key)
        /\ Leaves(n, e.key, i)
        /\ \A j \in 1..Len(n) : j < i => ~Leaves(n, e.key, j)
  BY <1>1, WalkStops
<1>4. CASE n[i].key < e.key
  <2>1. i = 1
    <3>1. SUFFICES ASSUME i # 1 PROVE FALSE
      OBVIOUS
    <3>2. i - 1 \in 1..Len(n) /\ i - 1 < i /\ n[(i - 1) + 1].key < e.key
      BY <1>1, <1>2, <1>4, <3>1
    <3> QED
      BY <1>2, <3>2 DEF Leaves
  <2>2. \A j \in 1..Len(n) : n[j].key < e.key
    BY <1>1, <1>2, <1>4, <2>1
  <2>3. Inserted(n, e) = <<e>> \o n
    <3>1. n[i].key # e.key /\ ~(n[i].key > e.key)
      BY <1>1, <1>2, <1>4
    <3>2. Inserted(n, e) = <<e>> \o SubSeq(n, i, Len(n))
      BY <1>2, <1>4, <3>1 DEF Inserted
    <3> QED
      BY <2>1, <3>2, SubSeqFull
  <2>4. PutAfter(n, 0, e, <<e>> \o n)
    <3>1. <<e>> \in Seq(Entry) /\ Len(<<e>>) = 1 /\ <<e>>[1] = e
      OBVIOUS
    <3> QED
      BY <1>1, <3>1, ConcatProperties DEF PutAfter
  <2>5. 0 \in 0..Len(n) /\ \A j \in 1..Len(n) : ~(j <= 0)
    BY <1>1
  <2> QED
    BY <2>2, <2>3, <2>4, <2>5
<1>5. CASE n[i].key > e.key
  <2>1. \A j \in 1..Len(n) : IF j <= i THEN n[j].key > e.key ELSE n[j].key < e.key
    <3>1. \A j \in 1..Len(n) : j <= i => n[j].key > e.key
      BY <1>1, <1>2, <1>5
    <3>2. i = Len(n) \/ n[i + 1].key < e.key
      BY <1>1, <1>2, <1>5 DEF Leaves
    <3>3. \A j \in 1..Len(n) : j > i => n[j].key < e.key
      BY <1>1, <1>2, <3>2
    <3> QED
      BY <1>1, <1>2, <3>1, <3>3
  <2>2. Inserted(n, e) = SubSeq(n, 1, i) \o <<e>> \o SubSeq(n, i + 1, Len(n))
    <3>1. n[i].key # e.key /\ ~(n[i].key < e.key)
      BY <1>1, <1>2, <1>5
    <3> QED
      BY <1>2, <1>5, <3>1 DEF Inserted
  <2>3. i \in 0..Len(n)
    BY <1>1
  <2>4. PutAfter(n, i, e, Inserted(n, e))
    BY <2>2, <2>3, Spliced
  <2> QED
    BY <2>1, <2>3, <2>4
<1> QED
  BY <1>1, <1>2, <1>4, <1>5

-----------------------------------------------------------------------------
\* Two sorted lists that hold the same node for a key answer alike for it.
LEMMA SameLookup ==
  ASSUME NEW l \in List, NEW m \in List, Sorted(l), Sorted(m), NEW k \in Key,
         \A i \in 1..Len(l.node) : l.node[i].key = k =>
           \E j \in 1..Len(m.node) : m.node[j] = l.node[i],
         \A j \in 1..Len(m.node) : m.node[j].key = k =>
           \E i \in 1..Len(l.node) : l.node[i] = m.node[j]
  PROVE  list_get(m, k) = list_get(l, k)
<1>1. CASE HasKey(l, k)
  <2>1. PICK i \in 1..Len(l.node) : l.node[i].key = k
    BY <1>1 DEF HasKey
  <2>2. PICK j \in 1..Len(m.node) : m.node[j] = l.node[i]
    BY <2>1
  <2>3. list_get(l, k) = l.node[i].val
    BY <2>1, Found
  <2>4. list_get(m, k) = m.node[j].val
    BY <2>1, <2>2, Found
  <2> QED
    BY <2>2, <2>3, <2>4
<1>2. CASE ~HasKey(l, k)
  <2>1. ~HasKey(m, k)
    BY <1>2 DEF HasKey
  <2> QED
    BY <1>2, <2>1 DEF list_get
<1> QED
  BY <1>1, <1>2

\* list_add of a key that is not there puts its node in the right place.
LEMMA AddedNew ==
  ASSUME NEW l, Exact(l), NEW e \in Entry, ~HasKey(l, e.key)
  PROVE  /\ Exact(list_add(l, e))
         /\ \E p \in 0..Len(l.node) : PutAfter(l.node, p, e, list_add(l, e).node)
<1> DEFINE n == l.node
           m == list_add(l, e).node
<1>1. /\ l \in List /\ n \in Seq(Entry) /\ Len(n) \in Nat /\ l.size = Len(n)
      /\ e.key \in Key /\ e.key \in Int
      /\ \A j \in 1..Len(n) : n[j].key \in Int /\ n[j].key # e.key
  BY NodeTypes, KeyOrder DEF Exact, List, Entry, HasKey
<1>2. \A i, j \in 1..Len(n) : i < j => n[i].key > n[j].key
  BY DEF Exact, Sorted
<1>3. /\ list_add(l, e) = [node |-> m, size |-> Len(n) + 1]
      /\ \E p \in 0..Len(n) :
           /\ PutAfter(n, p, e, m)
           /\ \A j \in 1..Len(n) : IF j <= p THEN n[j].key > e.key ELSE n[j].key < e.key
  <2>1. CASE n = <<>>
    <3>1. list_add(l, e) = [node |-> <<e>>, size |-> Len(n) + 1]
      BY <1>1, <2>1 DEF list_add
    <3>2. Len(n) = 0 /\ 0 \in 0..Len(n)
      BY <2>1
    <3>3. PutAfter(n, 0, e, <<e>>)
      BY <3>2 DEF PutAfter
    <3> QED
      BY <3>1, <3>2, <3>3
  <2>2. CASE n # <<>>
    <3>1. LeavesAt(n, e.key) \in 1..Len(n)
      BY <1>1, <2>2, WalkStops
    <3>2. n[LeavesAt(n, e.key)].key # e.key
      BY <1>1, <3>1
    <3>3. list_add(l, e) = [node |-> Inserted(n, e), size |-> Len(n) + 1]
      BY <1>1, <2>2, <3>2 DEF list_add
    <3>4. \E p \in 0..Len(n) :
            /\ PutAfter(n, p, e, Inserted(n, e))
            /\ \A j \in 1..Len(n) : IF j <= p THEN n[j].key > e.key ELSE n[j].key < e.key
      BY <1>1, <1>2, <2>2, InsertedInOrder
    <3> QED
      BY <3>3, <3>4
  <2> QED
    BY <2>1, <2>2
<1>4. PICK p \in 0..Len(n) :
        /\ PutAfter(n, p, e, m)
        /\ \A j \in 1..Len(n) : IF j <= p THEN n[j].key > e.key ELSE n[j].key < e.key
  BY <1>3
<1> HIDE DEF m
<1>5. /\ m \in Seq(Entry) /\ Len(m) = Len(n) + 1
      /\ \A j \in 1..p : m[j] = n[j]
      /\ m[p + 1] = e
      /\ \A j \in p + 1..Len(n) : m[j + 1] = n[j]
  BY <1>4 DEF PutAfter
<1>6. ASSUME NEW i \in 1..Len(m), NEW j \in 1..Len(m), i < j
      PROVE  m[i].key > m[j].key
  <2>1. \A h \in 1..Len(m) : h > p + 1 => h - 1 \in p + 1..Len(n) /\ m[h] = n[h - 1]
    <3>1. ASSUME NEW h \in 1..Len(m), h > p + 1
          PROVE  h - 1 \in p + 1..Len(n) /\ m[h] = n[h - 1]
      <4>1. h - 1 \in p + 1..Len(n) /\ (h - 1) + 1 = h
        BY <1>1, <1>5, <3>1
      <4> QED
        BY <1>5, <4>1
    <3> QED
      BY <3>1
  <2>2. CASE j <= p
    <3>1. m[i] = n[i] /\ m[j] = n[j] /\ i \in 1..Len(n) /\ j \in 1..Len(n)
      BY <1>1, <1>5, <1>6, <2>2
    <3> QED
      BY <1>2, <1>6, <3>1
  <2>3. CASE j = p + 1
    <3>1. i \in 1..p /\ i \in 1..Len(n) /\ i <= p
      BY <1>1, <1>6, <2>3
    <3>2. m[i] = n[i] /\ m[j] = e
      BY <1>5, <2>3, <3>1
    <3>3. n[i].key > e.key
      BY <1>4, <3>1
    <3> QED
      BY <3>2, <3>3
  <2>4. CASE i = p + 1
    <3>1. j - 1 \in 1..Len(n) /\ ~(j - 1 <= p) /\ m[j] = n[j - 1]
      BY <1>1, <1>6, <2>1, <2>4
    <3>2. n[j - 1].key < e.key
      BY <1>4, <3>1
    <3> QED
      BY <1>1, <1>5, <2>4, <3>1, <3>2
  <2>5. CASE i <= p /\ j > p + 1
    <3>1. j - 1 \in 1..Len(n) /\ i \in 1..Len(n) /\ i < j - 1
      BY <1>1, <1>6, <2>1, <2>5
    <3>2. m[i] = n[i] /\ m[j] = n[j - 1]
      BY <1>5, <2>1, <2>5
    <3>3. n[i].key > n[j - 1].key
      BY <1>2, <3>1
    <3> QED
      BY <3>2, <3>3
  <2>6. CASE i > p + 1
    <3>1. j - 1 \in 1..Len(n) /\ i - 1 \in 1..Len(n) /\ i - 1 < j - 1
      BY <1>1, <1>6, <2>1, <2>6
    <3>2. m[i] = n[i - 1] /\ m[j] = n[j - 1]
      <4>1. j > p + 1
        BY <1>6, <2>6
      <4> QED
        BY <2>1, <2>6, <4>1
    <3>3. n[i - 1].key > n[j - 1].key
      BY <1>2, <3>1
    <3> QED
      BY <3>2, <3>3
  <2> QED
    BY <1>1, <1>5, <2>2, <2>3, <2>4, <2>5, <2>6
<1>7. Exact(list_add(l, e))
  BY <1>1, <1>3, <1>5, <1>6 DEF Exact, Sorted, List
<1> QED
  BY <1>4, <1>7 DEF m

\* m is list l with node i overwritten by e, which has the same key.
PutAt(l, i, e, m) ==
  /\ e.key = l.node[i].key
  /\ m = [node |-> [l.node EXCEPT ![i] = e], size |-> l.size]

\* A node overwritten by one with the same key.
LEMMA Overwritten ==
  ASSUME NEW l, Exact(l), NEW i \in 1..Len(l.node), NEW e \in Entry,
         NEW m, PutAt(l, i, e, m)
  PROVE  /\ Exact(m)
         /\ Len(m.node) = Len(l.node)
         /\ \A j \in 1..Len(l.node) : m.node[j] = IF j = i THEN e ELSE l.node[j]
<1> DEFINE n == l.node
<1>1. n \in Seq(Entry) /\ l \in List /\ Sorted(l) /\ l.size = Len(n)
  BY DEF Exact, List
<1>2. /\ m.node \in Seq(Entry) /\ Len(m.node) = Len(n)
      /\ \A j \in 1..Len(n) : m.node[j] = IF j = i THEN e ELSE n[j]
  BY <1>1, ExceptSeq DEF PutAt
<1>3. m \in List /\ m.size = Len(n)
  BY <1>1, <1>2 DEF List, PutAt
<1>4. \A j \in 1..Len(n) : m.node[j].key = n[j].key
  BY <1>2 DEF PutAt
<1> QED
  BY <1>1, <1>2, <1>3, <1>4 DEF Exact, Sorted

\* list_add of a key that is there overwrites the value of its node.
LEMMA AddedAgain ==
  ASSUME NEW l, Exact(l), NEW e \in Entry, HasKey(l, e.key)
  PROVE  /\ Find(l, e.key) \in 1..Len(l.node) /\ l.node[Find(l, e.key)].key = e.key
         /\ list_add(l, e) = [node |-> [l.node EXCEPT ![Find(l, e.key)] = e],
                              size |-> l.size]
<1> DEFINE n == l.node
<1>1. /\ l \in List /\ Sorted(l) /\ n \in Seq(Entry) /\ Len(n) \in Nat
      /\ e.key \in Key /\ e.key \in Int
      /\ \A j \in 1..Len(n) : n[j].key \in Int
  BY NodeTypes, KeyOrder DEF Exact, List, Entry
<1>2. \A i, j \in 1..Len(n) : i < j => n[i].key > n[j].key
  BY <1>1 DEF Sorted
<1>3. PICK i \in 1..Len(n) : i = Find(l, e.key) /\ n[i].key = e.key
  BY <1>1, Lookup
<1>4. n # <<>>
  BY <1>1, <1>3
<1>5. PICK w \in 1..Len(n) :
        /\ w = LeavesAt(n, e.key)
        /\ Leaves(n, e.key, w)
        /\ \A j \in 1..Len(n) : j < w => ~Leaves(n, e.key, j)
  BY <1>1, <1>4, WalkStops
<1>6. Leaves(n, e.key, i)
  BY <1>3 DEF Leaves
<1>7. w <= i
  BY <1>1, <1>5, <1>6
<1>8. w = i
  <2>1. SUFFICES ASSUME w < i PROVE FALSE
    BY <1>1, <1>7
  <2>2. n[w].key > e.key /\ w # Len(n) /\ w + 1 \in 1..Len(n) /\ w + 1 <= i
    BY <1>1, <1>2, <1>3, <2>1
  <2>3. ~(n[w + 1].key < e.key)
    BY <1>1, <1>2, <1>3, <2>2
  <2> QED
    BY <1>1, <1>5, <2>2, <2>3 DEF Leaves
<1>9. Inserted(n, e) = [n EXCEPT ![i] = e]
  <2>1. ~(n[i].key < e.key) /\ ~(n[i].key > e.key)
    BY <1>1, <1>3
  <2> QED
    BY <1>3, <1>5, <1>8, <2>1 DEF Inserted
<1>10. list_add(l, e) = [node |-> [n EXCEPT ![i] = e], size |-> l.size]
  BY <1>3, <1>4, <1>5, <1>8, <1>9 DEF list_add
<1> QED
  BY <1>3, <1>10

\* list_set does the same to a key that is there.
LEMMA SetAgain ==
  ASSUME NEW l, Exact(l), NEW k \in Key, NEW v \in Val, HasKey(l, k)
  PROVE  /\ Find(l, k) \in 1..Len(l.node) /\ l.node[Find(l, k)].key = k
         /\ list_set(l, k, v) =
              [node |-> [l.node EXCEPT ![Find(l, k)] = [key |-> k, val |-> v]],
               size |-> l.size]
<1> DEFINE n == l.node
<1>1. l \in List /\ Sorted(l) /\ n \in Seq(Entry)
  BY DEF Exact, List
<1>2. PICK i \in 1..Len(n) : i = Find(l, k) /\ n[i].key = k
  BY <1>1, Lookup
<1>3. n[i] \in Entry /\ [n[i] EXCEPT !.val = v] = [key |-> k, val |-> v]
  <2>1. n[i] \in Entry
    BY <1>1, NodeTypes
  <2> QED
    BY <1>2, <2>1 DEF Entry
<1>4. list_set(l, k, v) = [l EXCEPT !.node = [n EXCEPT ![i] = [n[i] EXCEPT !.val = v]]]
  BY <1>1, <1>2 DEF list_set
<1>5. \A m : [l EXCEPT !.node = m] = [node |-> m, size |-> l.size]
  BY <1>1 DEF List
<1> QED
  BY <1>2, <1>3, <1>4, <1>5

\* list_remove closes the gap.
LEMMA Removed ==
  ASSUME NEW l, Exact(l), NEW k \in Key, HasKey(l, k)
  PROVE  /\ Exact(list_remove(l, k))
         /\ Len(list_remove(l, k).node) = Len(l.node) - 1
         /\ \A j \in 1..Len(l.node) - 1 :
              list_remove(l, k).node[j] =
                IF j < Find(l, k) THEN l.node[j] ELSE l.node[j + 1]
<1> DEFINE n == l.node
           i == Find(l, k)
           a == SubSeq(n, 1, i - 1)
           b == SubSeq(n, i + 1, Len(n))
           m == a \o b
<1>1. /\ l \in List /\ Sorted(l) /\ n \in Seq(Entry) /\ Len(n) \in Nat /\ l.size = Len(n)
      /\ \A j \in 1..Len(n) : n[j].key \in Int
  BY NodeTypes DEF Exact, List
<1>2. i \in 1..Len(n) /\ n[i].key = k
  BY <1>1, Lookup
<1>3. i - 1 \in 0..Len(n) /\ i \in 0..Len(n)
  BY <1>1, <1>2
<1>4. a \in Seq(Entry) /\ Len(a) = i - 1 /\ \A j \in 1..i - 1 : a[j] = n[j]
  BY <1>1, <1>3, FirstPart
<1>5. b \in Seq(Entry) /\ Len(b) = Len(n) - i /\ \A j \in 1..Len(n) - i : b[j] = n[i + j]
  BY <1>1, <1>3, LastPart
<1>0. list_remove(l, k) = [node |-> m, size |-> l.size - 1]
  BY DEF list_remove
<1> HIDE DEF i, a, b
<1>6. /\ m \in Seq(Entry) /\ Len(m) = Len(a) + Len(b)
      /\ \A j \in 1..Len(a) + Len(b) : m[j] = IF j <= Len(a) THEN a[j] ELSE b[j - Len(a)]
  BY <1>4, <1>5, ConcatProperties
<1> HIDE DEF m
<1>7. Len(m) = Len(n) - 1
  BY <1>1, <1>2, <1>4, <1>5, <1>6
<1>8. \A j \in 1..Len(n) - 1 : m[j] = IF j < i THEN n[j] ELSE n[j + 1]
  <2>1. ASSUME NEW j \in 1..Len(n) - 1, j < i PROVE m[j] = n[j]
    <3>1. j \in 1..i - 1 /\ j \in 1..Len(a) + Len(b) /\ j <= Len(a)
      BY <1>1, <1>2, <1>4, <1>5, <2>1
    <3>2. m[j] = a[j]
      BY <1>6, <3>1
    <3> QED
      BY <1>4, <3>1, <3>2
  <2>2. ASSUME NEW j \in 1..Len(n) - 1, ~(j < i) PROVE m[j] = n[j + 1]
    <3>1. PICK d \in 1..Len(n) - i : d = j - (i - 1) /\ i + d = j + 1
      <4>1. j - (i - 1) \in 1..Len(n) - i /\ i + (j - (i - 1)) = j + 1
        BY <1>1, <1>2, <2>2
      <4> QED
        BY <4>1
    <3>2. j \in 1..Len(a) + Len(b) /\ ~(j <= Len(a)) /\ j - Len(a) = d
      BY <1>1, <1>2, <1>4, <1>5, <2>2, <3>1
    <3>3. m[j] = b[d]
      BY <1>6, <3>2
    <3> QED
      BY <1>5, <3>1, <3>3
  <2> QED
    BY <2>1, <2>2
<1>9. ASSUME NEW x \in 1..Len(m), NEW y \in 1..Len(m), x < y PROVE m[x].key > m[y].key
  <2>1. PICK c : c = IF x < i THEN x ELSE x + 1
    OBVIOUS
  <2>2. PICK d : d = IF y < i THEN y ELSE y + 1
    OBVIOUS
  <2>3. c \in 1..Len(n) /\ d \in 1..Len(n) /\ c < d
    BY <1>1, <1>2, <1>7, <1>9, <2>1, <2>2
  <2>4. m[x] = n[c] /\ m[y] = n[d]
    BY <1>1, <1>7, <1>8, <2>1, <2>2
  <2> QED
    BY <1>1, <2>3, <2>4 DEF Sorted
<1>10. Exact(list_remove(l, k))
  BY <1>0, <1>1, <1>6, <1>7, <1>9 DEF Exact, Sorted, List
<1> QED
  BY <1>0, <1>7, <1>8, <1>10 DEF i

-----------------------------------------------------------------------------
\* The keys of the nodes of a list.
NodeKeys(l) == {l.node[i].key : i \in 1..Len(l.node)}

\* The empty list answers NULL for every key.
LEMMA EmptyList ==
  /\ Exact(list_create)
  /\ NodeKeys(list_create) = {}
  /\ \A k \in Key : list_get(list_create, k) = NoVal
<1>1. <<>> \in Seq(Entry) /\ Len(<<>>) = 0
  BY EmptySeq
<1>2. /\ list_create \in List /\ list_create.node = <<>> /\ list_create.size = 0
  BY <1>1 DEF list_create, List
<1>3. 1..Len(list_create.node) = {}
  BY <1>1, <1>2
<1> QED
  BY <1>1, <1>2, <1>3 DEF Exact, Sorted, NodeKeys, list_get, HasKey

\* A node overwritten by one with the same key changes the value of that key.
LEMMA OverwrittenLookup ==
  ASSUME NEW l, Exact(l), NEW i \in 1..Len(l.node), NEW e \in Entry,
         NEW m, PutAt(l, i, e, m)
  PROVE  /\ Exact(m)
         /\ NodeKeys(m) = NodeKeys(l)
         /\ \A k \in Key : list_get(m, k) = IF k = e.key THEN e.val ELSE list_get(l, k)
<1>1. /\ Exact(m) /\ Len(m.node) = Len(l.node)
      /\ \A j \in 1..Len(l.node) : m.node[j] = IF j = i THEN e ELSE l.node[j]
  BY Overwritten
<1>0. e.key = l.node[i].key
  BY DEF PutAt
<1>2. l \in List /\ m \in List /\ Sorted(l) /\ Sorted(m)
  BY <1>1 DEF Exact
<1>3. \A j \in 1..Len(l.node) : m.node[j].key = l.node[j].key
  BY <1>0, <1>1
<1>4. NodeKeys(m) = NodeKeys(l)
  BY <1>1, <1>3 DEF NodeKeys
<1>5. list_get(m, e.key) = e.val
  <2>1. i \in 1..Len(m.node) /\ m.node[i] = e
    BY <1>1
  <2> QED
    BY <1>2, <2>1, Found
<1>6. ASSUME NEW k \in Key, k # e.key PROVE list_get(m, k) = list_get(l, k)
  <2>1. \A j \in 1..Len(l.node) : l.node[j].key = k => m.node[j] = l.node[j]
    BY <1>0, <1>1, <1>6
  <2>2. \A j \in 1..Len(m.node) : m.node[j].key = k => m.node[j] = l.node[j]
    BY <1>0, <1>1, <1>6
  <2> QED
    BY <1>1, <1>2, <2>1, <2>2, SameLookup
<1> QED
  BY <1>1, <1>4, <1>5, <1>6

\* list_add sets the value of one key, whether it is there or not.
THEOREM ListAdd ==
  ASSUME NEW l, Exact(l), NEW e \in Entry
  PROVE  /\ Exact(list_add(l, e))
         /\ NodeKeys(list_add(l, e)) = NodeKeys(l) \cup {e.key}
         /\ \A k \in Key : list_get(list_add(l, e), k) =
                             IF k = e.key THEN e.val ELSE list_get(l, k)
<1> DEFINE m == list_add(l, e)
<1>1. CASE HasKey(l, e.key)
  <2>1. PICK i \in 1..Len(l.node) :
          /\ l.node[i].key = e.key
          /\ m = [node |-> [l.node EXCEPT ![i] = e], size |-> l.size]
    BY <1>1, AddedAgain
  <2>2. e.key \in NodeKeys(l)
    BY <2>1 DEF NodeKeys
  <2> HIDE DEF m
  <2>3. PICK c \in 1..Len(l.node) : PutAt(l, c, e, m)
    BY <2>1 DEF PutAt
  <2>4. /\ Exact(m) /\ NodeKeys(m) = NodeKeys(l)
        /\ \A k \in Key : list_get(m, k) = IF k = e.key THEN e.val ELSE list_get(l, k)
    BY <2>3, OverwrittenLookup
  <2> QED
    BY <2>2, <2>4 DEF m
<1>2. CASE ~HasKey(l, e.key)
  <2>1. Exact(m) /\ \E p \in 0..Len(l.node) : PutAfter(l.node, p, e, m.node)
    BY <1>2, AddedNew
  <2> HIDE DEF m
  <2>2. PICK p \in 0..Len(l.node) : PutAfter(l.node, p, e, m.node)
    BY <2>1
  <2>3. /\ l \in List /\ m \in List /\ Sorted(l) /\ Sorted(m)
        /\ Len(l.node) \in Nat /\ Len(m.node) = Len(l.node) + 1
    BY <2>1, <2>2, LenProperties DEF Exact, List, PutAfter
  <2>4. p + 1 \in 1..Len(m.node) /\ m.node[p + 1] = e
    BY <2>2, <2>3 DEF PutAfter
  <2>5. ASSUME NEW i \in 1..Len(l.node)
        PROVE  \E j \in 1..Len(m.node) : m.node[j] = l.node[i]
    <3>1. CASE i <= p
      <4>1. i \in 1..Len(m.node) /\ m.node[i] = l.node[i]
        BY <2>2, <2>3, <3>1 DEF PutAfter
      <4> QED
        BY <4>1
    <3>2. CASE i > p
      <4>1. i + 1 \in 1..Len(m.node) /\ m.node[i + 1] = l.node[i]
        BY <2>2, <2>3, <3>2 DEF PutAfter
      <4> QED
        BY <4>1
    <3> QED
      BY <2>3, <3>1, <3>2
  <2>6. ASSUME NEW j \in 1..Len(m.node)
        PROVE  m.node[j] = e \/ \E i \in 1..Len(l.node) : l.node[i] = m.node[j]
    <3>1. CASE j <= p
      <4>1. j \in 1..Len(l.node) /\ m.node[j] = l.node[j]
        BY <2>2, <2>3, <3>1 DEF PutAfter
      <4> QED
        BY <4>1
    <3>2. CASE j > p + 1
      <4>1. j - 1 \in p + 1..Len(l.node) /\ (j - 1) + 1 = j
        BY <2>3, <3>2
      <4>2. m.node[(j - 1) + 1] = l.node[j - 1] /\ j - 1 \in 1..Len(l.node)
        BY <2>2, <2>3, <4>1 DEF PutAfter
      <4> QED
        BY <4>1, <4>2
    <3> QED
      BY <2>3, <2>4, <3>1, <3>2
  <2>7. NodeKeys(m) = NodeKeys(l) \cup {e.key}
    <3>1. NodeKeys(m) \subseteq NodeKeys(l) \cup {e.key}
      BY <2>6 DEF NodeKeys
    <3>2. e.key \in NodeKeys(m)
      BY <2>4 DEF NodeKeys
    <3>3. NodeKeys(l) \subseteq NodeKeys(m)
      BY <2>5 DEF NodeKeys
    <3> QED
      BY <3>1, <3>2, <3>3
  <2>8. list_get(m, e.key) = e.val
    BY <2>3, <2>4, Found
  <2>9. ASSUME NEW k \in Key, k # e.key PROVE list_get(m, k) = list_get(l, k)
    <3>1. \A j \in 1..Len(m.node) : m.node[j].key = k =>
            \E i \in 1..Len(l.node) : l.node[i] = m.node[j]
      BY <2>6, <2>9
    <3> QED
      BY <2>3, <2>5, <3>1, SameLookup
  <2> QED
    BY <2>1, <2>7, <2>8, <2>9 DEF m
<1> QED
  BY <1>1, <1>2

\* list_set changes the value of a key that is there.
LEMMA ListSet ==
  ASSUME NEW l, Exact(l), NEW k \in Key, NEW v \in Val, HasKey(l, k)
  PROVE  /\ Exact(list_set(l, k, v))
         /\ NodeKeys(list_set(l, k, v)) = NodeKeys(l)
         /\ \A x \in Key : list_get(list_set(l, k, v), x) =
                             IF x = k THEN v ELSE list_get(l, x)
<1> DEFINE e == [key |-> k, val |-> v]
           m == list_set(l, k, v)
<1>1. PICK i \in 1..Len(l.node) :
        /\ l.node[i].key = k
        /\ m = [node |-> [l.node EXCEPT ![i] = e], size |-> l.size]
  BY SetAgain
<1>2. e \in Entry /\ e.key = k /\ e.val = v
  BY DEF Entry
<1> HIDE DEF e, m
<1>3. e \in Entry /\ PutAt(l, i, e, m)
  BY <1>1, <1>2 DEF PutAt
<1>4. /\ Exact(m) /\ NodeKeys(m) = NodeKeys(l)
      /\ \A x \in Key : list_get(m, x) = IF x = e.key THEN e.val ELSE list_get(l, x)
  BY <1>3, OverwrittenLookup
<1> QED
  BY <1>2, <1>4 DEF m

\* list_remove clears one key.
THEOREM ListRemove ==
  ASSUME NEW l, Exact(l), NEW k \in Key, HasKey(l, k)
  PROVE  /\ Exact(list_remove(l, k))
         /\ NodeKeys(list_remove(l, k)) \subseteq NodeKeys(l)
         /\ \A x \in Key : list_get(list_remove(l, k), x) =
                             IF x = k THEN NoVal ELSE list_get(l, x)
<1> DEFINE n == l.node
           m == list_remove(l, k)
<1>1. /\ l \in List /\ Sorted(l) /\ n \in Seq(Entry) /\ Len(n) \in Nat
      /\ \A j \in 1..Len(n) : n[j].key \in Int
  BY NodeTypes DEF Exact, List
<1>2. PICK i \in 1..Len(n) : i = Find(l, k) /\ n[i].key = k
  BY <1>1, Lookup
<1>3. /\ Exact(m) /\ Len(m.node) = Len(n) - 1
      /\ \A j \in 1..Len(n) - 1 : m.node[j] = IF j < i THEN n[j] ELSE n[j + 1]
  BY <1>2, Removed
<1> HIDE DEF m
<1>4. m \in List /\ Sorted(m)
  BY <1>3 DEF Exact
<1>5. ASSUME NEW j \in 1..Len(m.node)
      PROVE  \E x \in 1..Len(n) : x # i /\ n[x] = m.node[j]
  <2>1. CASE j < i
    <3>1. j \in 1..Len(n) /\ j # i /\ n[j] = m.node[j]
      BY <1>1, <1>3, <2>1
    <3> QED
      BY <3>1
  <2>2. CASE ~(j < i)
    <3>1. j + 1 \in 1..Len(n) /\ j + 1 # i /\ n[j + 1] = m.node[j]
      BY <1>1, <1>3, <2>2
    <3> QED
      BY <3>1
  <2> QED
    BY <2>1, <2>2
<1>6. ASSUME NEW x \in 1..Len(n), x # i
      PROVE  \E j \in 1..Len(m.node) : m.node[j] = n[x]
  <2>1. CASE x < i
    <3>1. x \in 1..Len(m.node) /\ n[x] = m.node[x]
      BY <1>1, <1>3, <2>1
    <3> QED
      BY <3>1
  <2>2. CASE x > i
    <3>1. x - 1 \in 1..Len(m.node) /\ ~(x - 1 < i) /\ (x - 1) + 1 = x
      BY <1>1, <1>3, <2>2
    <3>2. m.node[x - 1] = n[x]
      BY <1>3, <3>1
    <3> QED
      BY <3>1, <3>2
  <2> QED
    BY <1>1, <1>6, <2>1, <2>2
<1>7. \A x \in 1..Len(n) : x # i => n[x].key # k
  BY <1>1, <1>2 DEF Sorted
<1>8. NodeKeys(m) \subseteq NodeKeys(l)
  BY <1>5 DEF NodeKeys
<1>9. list_get(m, k) = NoVal
  <2>1. ~HasKey(m, k)
    BY <1>5, <1>7 DEF HasKey
  <2> QED
    BY <2>1 DEF list_get
<1>10. ASSUME NEW x \in Key, x # k PROVE list_get(m, x) = list_get(l, x)
  <2>1. \A y \in 1..Len(n) : n[y].key = x => \E j \in 1..Len(m.node) : m.node[j] = n[y]
    BY <1>2, <1>6, <1>10
  <2>2. \A j \in 1..Len(m.node) : \E y \in 1..Len(n) : n[y] = m.node[j]
    BY <1>5
  <2> QED
    BY <1>1, <1>4, <2>1, <2>2, SameLookup
<1> QED
  BY <1>3, <1>8, <1>9, <1>10 DEF m

\* list_get_keys returns the keys that list_get answers for.
LEMMA ListKeys ==
  ASSUME NEW l, Exact(l)
  PROVE  /\ list_get_keys(l) = NodeKeys(l)
         /\ NodeKeys(l) = {k \in Key : list_get(l, k) # NoVal}
<1>1. l \in List /\ Sorted(l) /\ l.node \in Seq(Entry)
  BY DEF Exact, List
<1>2. \A i \in 1..Len(l.node) : l.node[i].key \in Key
  BY <1>1, NodeTypes
<1>3. NodeKeys(l) = {k \in Key : HasKey(l, k)}
  BY <1>2 DEF NodeKeys, HasKey
<1>4. \A k \in Key : list_get(l, k) # NoVal <=> HasKey(l, k)
  BY <1>1, Lookup
<1> QED
  BY <1>3, <1>4 DEF list_get_keys, NodeKeys, Exact

-----------------------------------------------------------------------------
\* The table: an array of such lists.
Bucket == 0..N - 1

\* Every list is exact and holds keys of its bucket only.
BucketsExact ==
  /\ buckets \in [Bucket -> List]
  /\ \A b \in Bucket : /\ Exact(buckets[b])
                       /\ \A k \in NodeKeys(buckets[b]) : Hash(k) = b

TableInv ==
  /\ BucketsExact
  /\ quantity = Cardinality(KeysOf(Contents))
  /\ reply \in Reply

-----------------------------------------------------------------------------
\* The bucket of a key exists.
LEMMA HashType == \A k \in Key : Hash(k) \in Bucket
BY HashAssumption DEF Bucket

\* A request that replaces the list of one bucket by one that differs, as a
\* map, at the key of the request only.
LEMMA OneBucketChanges ==
  ASSUME BucketsExact, NEW k \in Key, NEW w, NEW l,
         Exact(l), NodeKeys(l) \subseteq NodeKeys(buckets[Hash(k)]) \cup {k},
         \A x \in Key : list_get(l, x) =
                          IF x = k THEN w ELSE list_get(buckets[Hash(k)], x),
         buckets' = [buckets EXCEPT ![Hash(k)] = l]
  PROVE  /\ BucketsExact'
         /\ Contents' = [Contents EXCEPT ![k] = w]
<1>1. Hash(k) \in Bucket /\ l \in List
  BY HashType DEF Exact
<1>2. /\ buckets' \in [Bucket -> List]
      /\ \A b \in Bucket : buckets'[b] = IF b = Hash(k) THEN l ELSE buckets[b]
  BY <1>1 DEF BucketsExact
<1>3. BucketsExact'
  BY <1>2 DEF BucketsExact
<1>4. \A x \in Key : table_get(x)' = IF x = k THEN w ELSE table_get(x)
  <2>1. ASSUME NEW x \in Key PROVE table_get(x)' = IF x = k THEN w ELSE table_get(x)
    <3>1. Hash(x) \in Bucket
      BY HashType
    <3>2. buckets'[Hash(x)] = IF Hash(x) = Hash(k) THEN l ELSE buckets[Hash(x)]
      BY <1>2, <3>1
    <3>3. table_get(x)' = list_get(buckets'[Hash(x)], x)
      BY DEF table_get
    <3> QED
      BY <3>2, <3>3 DEF table_get
  <2> QED
    BY <2>1
<1>5. Contents' = [x \in Key |-> table_get(x)']
  BY DEF Contents
<1>6. Contents' = [Contents EXCEPT ![k] = w]
  BY <1>4, <1>5 DEF Contents
<1> QED
  BY <1>3, <1>6

\* The search for a key finds what is in the table.
LEMMA ContentsType ==
  ASSUME BucketsExact
  PROVE  /\ Contents \in Table
         /\ \A k \in Key : /\ Contents[k] = list_get(buckets[Hash(k)], k)
                           /\ HasKey(buckets[Hash(k)], k) <=> Contents[k] # NoVal
<1>1. ASSUME NEW k \in Key
      PROVE  /\ list_get(buckets[Hash(k)], k) \in Val \cup {NoVal}
             /\ HasKey(buckets[Hash(k)], k) <=> list_get(buckets[Hash(k)], k) # NoVal
  <2>1. Exact(buckets[Hash(k)])
    BY HashType DEF BucketsExact
  <2> QED
    BY <2>1, Lookup DEF Exact
<1>2. \A k \in Key : Contents[k] = list_get(buckets[Hash(k)], k)
  BY DEF Contents, table_get
<1>3. Contents \in Table
  BY <1>1 DEF Contents, table_get, Table
<1> QED
  BY <1>1, <1>2, <1>3

\* The keys that table_get_keys collects are those of the table.
LEMMA TableKeys ==
  ASSUME BucketsExact
  PROVE  table_get_keys = KeysOf(Contents)
<1>1. \A b \in Bucket : list_get_keys(buckets[b]) = NodeKeys(buckets[b])
                        /\ NodeKeys(buckets[b]) = {k \in Key : list_get(buckets[b], k) # NoVal}
  BY ListKeys DEF BucketsExact
<1>2. ASSUME NEW k \in table_get_keys PROVE k \in KeysOf(Contents)
  <2>1. PICK b \in Bucket : k \in NodeKeys(buckets[b])
    BY <1>1 DEF table_get_keys, Bucket
  <2>2. k \in Key /\ list_get(buckets[b], k) # NoVal /\ Hash(k) = b
    BY <1>1, <2>1 DEF BucketsExact
  <2> QED
    BY <2>2, ContentsType DEF KeysOf
<1>3. ASSUME NEW k \in KeysOf(Contents) PROVE k \in table_get_keys
  <2>1. k \in Key /\ list_get(buckets[Hash(k)], k) # NoVal
    BY ContentsType DEF KeysOf
  <2>2. Hash(k) \in Bucket /\ k \in list_get_keys(buckets[Hash(k)])
    BY <1>1, <2>1, HashType
  <2> QED
    BY <2>2 DEF table_get_keys, Bucket
<1> QED
  BY <1>2, <1>3

\* The number of keys of a table, after one of them is set or cleared.
LEMMA KeyCount ==
  ASSUME NEW t \in Table, NEW k \in Key
  PROVE  /\ IsFiniteSet(KeysOf(t)) /\ Cardinality(KeysOf(t)) \in Nat
         /\ Cardinality(KeysOf(t)) = 0 <=> KeysOf(t) = {}
         /\ \A v \in Val : Cardinality(KeysOf([t EXCEPT ![k] = v])) =
              IF t[k] = NoVal THEN Cardinality(KeysOf(t)) + 1 ELSE Cardinality(KeysOf(t))
         /\ t[k] # NoVal => Cardinality(KeysOf([t EXCEPT ![k] = NoVal]))
                              = Cardinality(KeysOf(t)) - 1
<1>1. IsFiniteSet(KeysOf(t))
  <2>1. KeysOf(t) \subseteq Key
    BY DEF KeysOf
  <2> QED
    BY <2>1, FS_Subset, KeyValAssumption
<1>2. Cardinality(KeysOf(t)) \in Nat /\ (Cardinality(KeysOf(t)) = 0 <=> KeysOf(t) = {})
  BY <1>1, FS_CardinalityType, FS_EmptySet
<1>3. ASSUME NEW v \in Val
      PROVE  Cardinality(KeysOf([t EXCEPT ![k] = v])) =
               IF t[k] = NoVal THEN Cardinality(KeysOf(t)) + 1 ELSE Cardinality(KeysOf(t))
  <2>1. KeysOf([t EXCEPT ![k] = v]) = KeysOf(t) \cup {k}
    BY KeyValAssumption DEF KeysOf, Table
  <2>2. t[k] = NoVal => k \notin KeysOf(t)
    BY DEF KeysOf
  <2>3. t[k] # NoVal => KeysOf(t) \cup {k} = KeysOf(t)
    BY DEF KeysOf
  <2> QED
    BY <1>1, <2>1, <2>2, <2>3, FS_AddElement
<1>4. ASSUME t[k] # NoVal
      PROVE  Cardinality(KeysOf([t EXCEPT ![k] = NoVal])) = Cardinality(KeysOf(t)) - 1
  <2>1. KeysOf([t EXCEPT ![k] = NoVal]) = KeysOf(t) \ {k}
    BY DEF KeysOf, Table
  <2>2. k \in KeysOf(t)
    BY <1>4 DEF KeysOf
  <2> QED
    BY <1>1, <2>1, <2>2, FS_RemoveElement
<1> QED
  BY <1>1, <1>2, <1>3, <1>4

-----------------------------------------------------------------------------
\* The replies of the dispatcher are replies.
LEMMA ReplyTypes ==
  /\ NoReply \in Reply /\ ErrorReply \in Reply
  /\ \A n \in Int : Result(n) \in Reply
  /\ \A v \in Val : ValueOf(v) \in Reply
  /\ \A ks \in SUBSET Key : KeyList(ks) \in Reply
BY DEF NoReply, ErrorReply, Result, ValueOf, KeyList, Reply

\* What each request does to a map and answers, as KVStore has it.
LEMMA Promises ==
  ASSUME NEW t \in Table, NEW k \in Key
  PROVE  /\ \A v \in Val :
              /\ KV!Apply(Msg("PUT", k, v), t) =
                   IF t[k] = NoVal THEN [t EXCEPT ![k] = v] ELSE t
              /\ KV!Answer(Msg("PUT", k, v), t) = Result(IF t[k] = NoVal THEN 0 ELSE -10)
              /\ KV!Apply(Msg("UPDATE", k, v), t) =
                   IF t[k] = NoVal THEN t ELSE [t EXCEPT ![k] = v]
              /\ KV!Answer(Msg("UPDATE", k, v), t) =
                   IF t[k] = NoVal THEN ErrorReply ELSE Result(0)
         /\ KV!Apply(Msg("DEL", k, NoVal), t) = [t EXCEPT ![k] = NoVal]
         /\ KV!Answer(Msg("DEL", k, NoVal), t) =
              IF t[k] = NoVal THEN ErrorReply ELSE Result(0)
         /\ KV!Apply(Msg("GET", k, NoVal), t) = t
         /\ KV!Answer(Msg("GET", k, NoVal), t) =
              IF t[k] = NoVal THEN ErrorReply ELSE ValueOf(t[k])
<1> USE DEF Msg, KV!Apply, KV!Answer, Result, ErrorReply, ValueOf,
            KV!Result, KV!ErrorReply, KV!ValueOf
<1>1. ASSUME NEW v \in Val
      PROVE  /\ KV!Apply(Msg("PUT", k, v), t) =
                  IF t[k] = NoVal THEN [t EXCEPT ![k] = v] ELSE t
             /\ KV!Answer(Msg("PUT", k, v), t) = Result(IF t[k] = NoVal THEN 0 ELSE -10)
  OBVIOUS
<1>2. ASSUME NEW v \in Val
      PROVE  /\ KV!Apply(Msg("UPDATE", k, v), t) =
                  IF t[k] = NoVal THEN t ELSE [t EXCEPT ![k] = v]
             /\ KV!Answer(Msg("UPDATE", k, v), t) =
                  IF t[k] = NoVal THEN ErrorReply ELSE Result(0)
  OBVIOUS
<1>3. /\ KV!Apply(Msg("DEL", k, NoVal), t) = [t EXCEPT ![k] = NoVal]
      /\ KV!Answer(Msg("DEL", k, NoVal), t) =
              IF t[k] = NoVal THEN ErrorReply ELSE Result(0)
  OBVIOUS
<1>4. /\ KV!Apply(Msg("GET", k, NoVal), t) = t
      /\ KV!Answer(Msg("GET", k, NoVal), t) =
              IF t[k] = NoVal THEN ErrorReply ELSE ValueOf(t[k])
  OBVIOUS
<1> HIDE DEF Msg, KV!Apply, KV!Answer, Result, ErrorReply, ValueOf
<1> QED
  BY <1>1, <1>2, <1>3, <1>4

\* A step of the table: the invariant is kept, and KVStore can take the same
\* step with the request m.
Serves(m) ==
  /\ TableInv'
  /\ m \in KV!TableRequest
  /\ Contents' = KV!Apply(m, Contents)
  /\ reply' = KV!Answer(m, Contents)

\* Requests that write.
LEMMA WriteServed ==
  ASSUME TableInv, NEW k \in Key
  PROVE  /\ \A v \in Val : /\ Put(k, v) => Serves(Msg("PUT", k, v))
                           /\ Update(k, v) => Serves(Msg("UPDATE", k, v))
         /\ Del(k) => Serves(Msg("DEL", k, NoVal))
<1> DEFINE l == buckets[Hash(k)]
<1>1. /\ BucketsExact /\ Hash(k) \in Bucket /\ Exact(l) /\ Contents \in Table
      /\ table_get(k) = Contents[k]
      /\ HasKey(l, k) <=> Contents[k] # NoVal
  BY HashType, ContentsType DEF TableInv, BucketsExact, table_get
<1>2. /\ \A v \in Val : /\ Msg("PUT", k, v) \in KV!TableRequest
                        /\ Msg("UPDATE", k, v) \in KV!TableRequest
      /\ Msg("DEL", k, NoVal) \in KV!TableRequest
  BY DEF KV!TableRequest, KV!Msg, Msg
<1>3. Result(0) \in Reply /\ Result(-10) \in Reply /\ ErrorReply \in Reply
  BY ReplyTypes
<1>4. [Contents EXCEPT ![k] = Contents[k]] = Contents
  BY <1>1 DEF Table
\* The bucket of k gets list m, which gives k the value w.
<1>5. ASSUME NEW m, NEW w, Exact(m), NodeKeys(m) \subseteq NodeKeys(l) \cup {k},
             \A x \in Key : list_get(m, x) = IF x = k THEN w ELSE list_get(l, x),
             buckets' = [buckets EXCEPT ![Hash(k)] = m]
      PROVE  BucketsExact' /\ Contents' = [Contents EXCEPT ![k] = w]
  BY <1>1, <1>5, OneBucketChanges
<1>6. ASSUME UNCHANGED buckets PROVE BucketsExact' /\ Contents' = Contents
  BY <1>1, <1>6 DEF BucketsExact, Contents, table_get
<1>7. ASSUME NEW v \in Val, Put(k, v) PROVE Serves(Msg("PUT", k, v))
  <2>1. CASE Contents[k] # NoVal
    <3>1. reply' = Result(-10) /\ UNCHANGED <<buckets, quantity>>
      BY <1>1, <1>7, <2>1 DEF Put
    <3> QED
      BY <1>1, <1>2, <1>3, <1>6, <2>1, <3>1, Promises DEF Serves, TableInv
  <2>2. CASE Contents[k] = NoVal
    <3> DEFINE e == [key |-> k, val |-> v]
    <3>1. /\ buckets' = [buckets EXCEPT ![Hash(k)] = list_add(l, e)]
          /\ quantity' = quantity + 1 /\ reply' = Result(0)
      BY <1>1, <1>7, <2>2 DEF Put
    <3>2. e \in Entry /\ e.key = k /\ e.val = v
      BY DEF Entry
    <3>3. /\ Exact(list_add(l, e)) /\ NodeKeys(list_add(l, e)) = NodeKeys(l) \cup {k}
          /\ \A x \in Key : list_get(list_add(l, e), x) = IF x = k THEN v ELSE list_get(l, x)
      BY <1>1, <3>2, ListAdd
    <3>4. BucketsExact' /\ Contents' = [Contents EXCEPT ![k] = v]
      BY <1>5, <3>1, <3>3
    <3>5. quantity' = Cardinality(KeysOf(Contents'))
      BY <1>1, <2>2, <3>1, <3>4, KeyCount DEF TableInv
    <3> QED
      BY <1>1, <1>2, <1>3, <2>2, <3>1, <3>4, <3>5, Promises DEF Serves, TableInv
  <2> QED
    BY <2>1, <2>2
<1>8. ASSUME NEW v \in Val, Update(k, v) PROVE Serves(Msg("UPDATE", k, v))
  <2>1. CASE Contents[k] = NoVal
    <3>1. reply' = ErrorReply /\ UNCHANGED <<buckets, quantity>>
      BY <1>1, <1>8, <2>1 DEF Update
    <3> QED
      BY <1>1, <1>2, <1>3, <1>6, <2>1, <3>1, Promises DEF Serves, TableInv
  <2>2. CASE Contents[k] # NoVal
    <3>1. /\ buckets' = [buckets EXCEPT ![Hash(k)] = list_set(l, k, v)]
          /\ quantity' = quantity /\ reply' = Result(0)
      BY <1>1, <1>8, <2>2 DEF Update
    <3>2. /\ Exact(list_set(l, k, v)) /\ NodeKeys(list_set(l, k, v)) = NodeKeys(l)
          /\ \A x \in Key : list_get(list_set(l, k, v), x) = IF x = k THEN v ELSE list_get(l, x)
      BY <1>1, <2>2, ListSet
    <3>3. BucketsExact' /\ Contents' = [Contents EXCEPT ![k] = v]
      BY <1>5, <3>1, <3>2
    <3>4. quantity' = Cardinality(KeysOf(Contents'))
      BY <1>1, <2>2, <3>1, <3>3, KeyCount DEF TableInv
    <3> QED
      BY <1>1, <1>2, <1>3, <2>2, <3>1, <3>3, <3>4, Promises DEF Serves, TableInv
  <2> QED
    BY <2>1, <2>2
<1>9. ASSUME Del(k) PROVE Serves(Msg("DEL", k, NoVal))
  <2>1. CASE Contents[k] = NoVal
    <3>1. reply' = ErrorReply /\ UNCHANGED <<buckets, quantity>>
      BY <1>1, <1>9, <2>1 DEF Del
    <3> QED
      BY <1>1, <1>2, <1>3, <1>4, <1>6, <2>1, <3>1, Promises DEF Serves, TableInv
  <2>2. CASE Contents[k] # NoVal
    <3>1. /\ buckets' = [buckets EXCEPT ![Hash(k)] = list_remove(l, k)]
          /\ quantity' = quantity - 1 /\ reply' = Result(0)
      BY <1>1, <1>9, <2>2 DEF Del
    <3>2. /\ Exact(list_remove(l, k)) /\ NodeKeys(list_remove(l, k)) \subseteq NodeKeys(l)
          /\ \A x \in Key : list_get(list_remove(l, k), x) =
                              IF x = k THEN NoVal ELSE list_get(l, x)
      BY <1>1, <2>2, ListRemove
    <3>3. BucketsExact' /\ Contents' = [Contents EXCEPT ![k] = NoVal]
      BY <1>5, <3>1, <3>2
    <3>4. quantity' = Cardinality(KeysOf(Contents'))
      BY <1>1, <2>2, <3>1, <3>3, KeyCount DEF TableInv
    <3> QED
      BY <1>1, <1>2, <1>3, <2>2, <3>1, <3>3, <3>4, Promises DEF Serves, TableInv
  <2> QED
    BY <2>1, <2>2
<1> QED
  BY <1>7, <1>8, <1>9

\* Requests that read.
LEMMA ReadServed ==
  ASSUME TableInv
  PROVE  /\ \A k \in Key : Get(k) => Serves(Msg("GET", k, NoVal))
         /\ GetKeys => Serves(Plain("KEYS"))
         /\ Size => Serves(Plain("SIZE"))
<1>1. BucketsExact /\ Contents \in Table
  BY ContentsType DEF TableInv
<1>2. ASSUME UNCHANGED <<buckets, quantity>>
      PROVE  BucketsExact' /\ Contents' = Contents
             /\ quantity' = Cardinality(KeysOf(Contents'))
  BY <1>1, <1>2 DEF BucketsExact, Contents, table_get, TableInv
<1>3. ASSUME NEW k \in Key, Get(k) PROVE Serves(Msg("GET", k, NoVal))
  <2>1. table_get(k) = Contents[k]
    BY DEF Contents
  <2>2. reply' = (IF Contents[k] = NoVal THEN ErrorReply ELSE ValueOf(Contents[k]))
    BY <1>3, <2>1 DEF Get
  <2>3. reply' \in Reply
    BY <1>1, <2>2, ReplyTypes DEF Table
  <2>4. Msg("GET", k, NoVal) \in KV!TableRequest
    BY DEF KV!TableRequest, KV!Msg, Msg
  <2>5. UNCHANGED <<buckets, quantity>>
    BY <1>3 DEF Get
  <2>6. /\ KV!Apply(Msg("GET", k, NoVal), Contents) = Contents
        /\ KV!Answer(Msg("GET", k, NoVal), Contents) =
             IF Contents[k] = NoVal THEN ErrorReply ELSE ValueOf(Contents[k])
    BY <1>1 DEF Msg, KV!Apply, KV!Answer, ErrorReply, ValueOf, KV!ErrorReply, KV!ValueOf
  <2> QED
    BY <1>2, <2>2, <2>3, <2>4, <2>5, <2>6 DEF Serves, TableInv
<1>4. ASSUME GetKeys PROVE Serves(Plain("KEYS"))
  <2>1. quantity = 0 <=> KeysOf(Contents) = {}
    <3>1. IsFiniteSet(KeysOf(Contents))
      BY FS_Subset, KeyValAssumption DEF KeysOf
    <3> QED
      BY <3>1, FS_EmptySet DEF TableInv
  <2>2. reply' = (IF KeysOf(Contents) = {} THEN Result(0) ELSE KeyList(KeysOf(Contents)))
    BY <1>1, <1>4, <2>1, TableKeys DEF GetKeys
  <2>3. reply' \in Reply
    <3>1. KeysOf(Contents) \in SUBSET Key
      BY DEF KeysOf
    <3> QED
      BY <2>2, <3>1, ReplyTypes
  <2>4. Plain("KEYS") \in KV!TableRequest
    BY DEF KV!TableRequest, KV!Plain, KV!Msg, Plain, Msg
  <2>5. /\ KV!Apply(Plain("KEYS"), Contents) = Contents
        /\ KV!Answer(Plain("KEYS"), Contents) =
             IF KeysOf(Contents) = {} THEN Result(0) ELSE KeyList(KeysOf(Contents))
    BY DEF Plain, Msg, KV!Apply, KV!Answer, KV!KeysOf, KeysOf, Result, KV!Result,
           KeyList, KV!KeyList
  <2>6. UNCHANGED <<buckets, quantity>>
    BY <1>4 DEF GetKeys
  <2> QED
    BY <1>2, <2>2, <2>3, <2>4, <2>5, <2>6 DEF Serves, TableInv
<1>5. ASSUME Size PROVE Serves(Plain("SIZE"))
  <2>1. quantity = Cardinality(KeysOf(Contents)) /\ quantity \in Int
    <3>1. IsFiniteSet(KeysOf(Contents))
      BY FS_Subset, KeyValAssumption DEF KeysOf
    <3> QED
      BY <3>1, FS_CardinalityType DEF TableInv
  <2>2. reply' = Result(Cardinality(KeysOf(Contents))) /\ reply' \in Reply
    BY <1>5, <2>1, ReplyTypes DEF Size
  <2>3. Plain("SIZE") \in KV!TableRequest
    BY DEF KV!TableRequest, KV!Plain, KV!Msg, Plain, Msg
  <2>4. /\ KV!Apply(Plain("SIZE"), Contents) = Contents
        /\ KV!Answer(Plain("SIZE"), Contents) = Result(Cardinality(KeysOf(Contents)))
    <3>1. KV!KeysOf(Contents) = KeysOf(Contents)
      BY DEF KV!KeysOf, KeysOf
    <3>2. /\ KV!Apply(Plain("SIZE"), Contents) = Contents
          /\ KV!Answer(Plain("SIZE"), Contents) = KV!Result(KV!Cardinality(KV!KeysOf(Contents)))
      BY DEF Plain, Msg, KV!Apply, KV!Answer
    <3>4. KV!Cardinality(KeysOf(Contents)) = Cardinality(KeysOf(Contents))
      BY DEF KV!Cardinality, Cardinality
    <3>3. \A n : KV!Result(n) = Result(n)
      BY DEF KV!Result, Result
    <3> QED
      BY <3>1, <3>2, <3>3, <3>4
  <2>5. UNCHANGED <<buckets, quantity>>
    BY <1>5 DEF Size
  <2> QED
    BY <1>2, <2>2, <2>3, <2>4, <2>5 DEF Serves, TableInv
<1> QED
  BY <1>3, <1>4, <1>5

-----------------------------------------------------------------------------
\* The empty table satisfies the invariant and is the empty map.
LEMMA TableInit == Init => TableInv /\ KV!Init
<1> SUFFICES ASSUME Init PROVE TableInv /\ KV!Init
  OBVIOUS
<1>1. Exact(list_create) /\ list_create \in List /\ NodeKeys(list_create) = {}
  BY EmptyList DEF Exact
<1>2. BucketsExact
  BY <1>1 DEF Init, BucketsExact, Bucket
<1>3. \A k \in Key : table_get(k) = NoVal
  BY HashType, EmptyList DEF Init, table_get, Bucket
<1>4. Contents = [k \in Key |-> NoVal] /\ KeysOf(Contents) = {}
  BY <1>3 DEF Contents, KeysOf
<1>5. quantity = Cardinality(KeysOf(Contents))
  BY <1>4, FS_EmptySet DEF Init
<1>6. KV!Init
  BY <1>4 DEF Init, KV!Init, KV!EmptyTable, KV!NoReply, NoReply
<1> QED
  BY <1>2, <1>5, <1>6, ReplyTypes DEF Init, TableInv

\* Every request keeps the invariant and is one of KVStore.
LEMMA TableStep ==
  ASSUME TableInv, [Next]_vars
  PROVE  TableInv' /\ [KV!Next]_<<Contents, reply>>
<1>1. ASSUME NEW m, Serves(m) PROVE TableInv' /\ KV!Next
  BY <1>1 DEF Serves, KV!Next
<1>2. CASE Next
  <2>1. ASSUME NEW k \in Key, NEW v \in Val, Put(k, v) \/ Update(k, v)
        PROVE  \E m : Serves(m)
    BY <2>1, WriteServed
  <2>2. ASSUME NEW k \in Key, Del(k) PROVE \E m : Serves(m)
    BY <2>2, WriteServed
  <2>3. ASSUME NEW k \in Key, Get(k) PROVE \E m : Serves(m)
    BY <2>3, ReadServed
  <2>4. ASSUME GetKeys \/ Size PROVE \E m : Serves(m)
    BY <2>4, ReadServed
  <2> QED
    BY <1>1, <1>2, <2>1, <2>2, <2>3, <2>4 DEF Next
<1>3. CASE UNCHANGED vars
  BY <1>3 DEF vars, TableInv, BucketsExact, Contents, table_get
<1> QED
  BY <1>2, <1>3

\* The invariant holds in every reachable state.
THEOREM TableInductive == Spec => []TableInv
<1>1. Init => TableInv
  BY TableInit
<1>2. TableInv /\ [Next]_vars => TableInv'
  BY TableStep
<1> QED
  BY <1>1, <1>2, PTL DEF Spec

\* Type correctness of the table.
THEOREM TableTypes == Spec => []TypeOK
<1>1. TableInv => TypeOK
  <2>1. IsFiniteSet(KeysOf(Contents))
    BY FS_Subset, KeyValAssumption DEF KeysOf
  <2> QED
    BY <2>1, FS_CardinalityType DEF TableInv, BucketsExact, TypeOK, Bucket
<1> QED
  BY <1>1, TableInductive, PTL

\* The lists of a table are sorted and hold only keys of their own bucket, for
\* every number of buckets and every hash function.
THEOREM BucketsSortedHolds == Spec => []BucketsSorted
<1>1. TableInv => BucketsSorted
  BY DEF TableInv, BucketsExact, BucketsSorted, Bucket, NodeKeys, Exact
<1> QED
  BY <1>1, TableInductive, PTL

\* The counters that size the arrays of keys are exact in every state.
THEOREM CountsExactHolds == Spec => []CountsExact
<1>1. TableInv => CountsExact
  BY DEF TableInv, BucketsExact, CountsExact, Bucket, Exact
<1> QED
  BY <1>1, TableInductive, PTL

\* table.c over list.c is the map that the servers and clients rely on: it
\* starts empty, and every request changes it and is answered as KVStore says.
THEOREM TableRefines == Spec => ImplementsKVStore
<1>1. Init => KV!Init
  BY TableInit
<1>2. TableInv /\ [Next]_vars => [KV!Next]_<<Contents, reply>>
  BY TableStep
<1> QED
  BY <1>1, <1>2, TableInductive, PTL DEF Spec, ImplementsKVStore, KV!Spec
=============================================================================
