------------------------- MODULE TtlLruCacheProofs --------------------------
(***************************************************************************)
(* Theorems about the cache of src/src/cache.rs for every set of keys and  *)
(* values, every capacity of at least one and every time to live.  First   *)
(* the operations on a well-formed cache value, then the invariants and    *)
(* the refinement of TtlLruCache.                                          *)
(***************************************************************************)
EXTENDS TtlLruCache, FiniteSetTheorems, SequenceTheorems, TLAPS

\* No repetition: positions of the order with the same key are the same.
Distinct(s, n) == \A i, j \in 1..n : s[i] = s[j] => i = j
NoRepeat(s) == Distinct(s, Len(s))

\* t is s, of length n, less its i-th element.
LessAt(t, s, n, i) == \A j \in 1..(n - 1) : t[j] = IF j < i THEN s[j] ELSE s[j + 1]

\* The order lists x; the order lists x ahead of y.
Lists(s, x) == \E i \in 1..Len(s) : s[i] = x
Ahead(s, x, y) == \E i, j \in 1..Len(s) : i < j /\ s[i] = x /\ s[j] = y

\* The shape a cache value keeps: finitely many entries, listed once each.
WellFormed(c, K) ==
  /\ CachedKeys(c) \subseteq K
  /\ IsFiniteSet(CachedKeys(c))
  /\ c.order \in Seq(K)
  /\ \A k : Lists(c.order, k) <=> k \in CachedKeys(c)
  /\ NoRepeat(c.order)
-----------------------------------------------------------------------------
\* What SubSeq returns between two positions of a sequence.
LEMMA SubSeqFacts ==
  ASSUME NEW K, NEW s \in Seq(K), NEW m \in Nat \ {0}, NEW n \in Nat,
         m <= n + 1, n <= Len(s)
  PROVE  /\ SubSeq(s, m, n) \in Seq(K)
         /\ Len(SubSeq(s, m, n)) = n - m + 1
         /\ \A j \in 1..(n - m + 1) : SubSeq(s, m, n)[j] = s[m + j - 1]
<1>1. Len(s) \in Nat /\ s \in [1..Len(s) -> K]
  BY LenProperties
<1>2. \A j \in m..n : s[j] \in K
  BY <1>1
<1>3. m \in Int /\ n \in Int
  OBVIOUS
<1>4. /\ SubSeq(s, m, n) \in Seq(K)
      /\ Len(SubSeq(s, m, n)) = IF m <= n THEN n - m + 1 ELSE 0
      /\ \A j \in 1..(n - m + 1) : SubSeq(s, m, n)[j] = s[m + j - 1]
  BY <1>2, <1>3, SubSeqProperties
<1> QED BY <1>4

\* What that leaves: t has no repetition, lacks s[i], and has everything else.
Dropped(t, s, n, i) ==
  /\ Distinct(t, n - 1)
  /\ \A j \in 1..(n - 1) : t[j] # s[i]
  /\ \A j \in 1..n : j # i => \E m \in 1..(n - 1) : t[m] = s[j]
  /\ \A j \in 1..(n - 1) : \E m \in 1..n : t[j] = s[m]

\* Dropping a position of a sequence without repetition.
LEMMA DropPosition ==
  ASSUME NEW s, NEW n \in Nat, NEW i \in 1..n, NEW t,
         Distinct(s, n), LessAt(t, s, n, i)
  PROVE  Dropped(t, s, n, i)
<1> USE DEF Distinct, LessAt, Dropped
<1>1. \A p, q \in 1..(n - 1) : t[p] = t[q] => p = q
  OBVIOUS
<1>2. \A j \in 1..(n - 1) : t[j] # s[i]
  OBVIOUS
<1>3. ASSUME NEW j \in 1..n, j # i
      PROVE  \E m \in 1..(n - 1) : t[m] = s[j]
  <2>1. CASE j < i
    <3>1. j \in 1..(n - 1)
      BY <2>1
    <3> QED BY <3>1, <2>1
  <2>2. CASE j > i
    <3>1. j - 1 \in 1..(n - 1) /\ ~(j - 1 < i) /\ (j - 1) + 1 = j
      BY <2>2
    <3> QED BY <3>1
  <2> QED BY <2>1, <2>2, <1>3
<1>4. ASSUME NEW j \in 1..(n - 1)
      PROVE  \E m \in 1..n : t[j] = s[m]
  <2>1. j \in 1..n /\ j + 1 \in 1..n
    OBVIOUS
  <2> QED BY <2>1
<1> QED BY <1>1, <1>2, <1>3, <1>4

\* The two halves of s around position i, joined, are s less its i-th element.
IsJoin(t, a, la, b, n) == \A j \in 1..n : t[j] = IF j <= la THEN a[j] ELSE b[j - la]
IsPart(a, s, skip, n) == \A j \in 1..n : a[j] = s[skip + j]

LEMMA JoinHalves ==
  ASSUME NEW s, NEW n \in Nat, NEW i \in 1..n, NEW a, NEW b, NEW t,
         IsJoin(t, a, i - 1, b, n - 1), IsPart(a, s, 0, i - 1), IsPart(b, s, i, n - i)
  PROVE  LessAt(t, s, n, i)
<1> USE DEF IsJoin, IsPart
<1> SUFFICES \A j \in 1..(n - 1) : t[j] = IF j < i THEN s[j] ELSE s[j + 1]
  BY DEF LessAt
<1> TAKE j \in 1..(n - 1)
<1>1. CASE j < i
  BY <1>1
<1>2. CASE ~(j < i)
  <2>1. j - (i - 1) \in 1..(n - i) /\ i + (j - (i - 1)) = j + 1
    BY <1>2
  <2> QED BY <2>1, <1>2
<1> QED BY <1>1, <1>2

DropAt(s, i) == SubSeq(s, 1, i - 1) \o SubSeq(s, i + 1, Len(s))

LEMMA DropAtFacts ==
  ASSUME NEW K, NEW s \in Seq(K), NEW i \in 1..Len(s)
  PROVE  /\ DropAt(s, i) \in Seq(K)
         /\ Len(DropAt(s, i)) = Len(s) - 1
         /\ LessAt(DropAt(s, i), s, Len(s), i)
<1> DEFINE n == Len(s)
           a == SubSeq(s, 1, i - 1)
           b == SubSeq(s, i + 1, n)
           t == a \o b
<1>1. n \in Nat /\ i \in 1..n /\ i \in Nat \ {0}
  BY LenProperties
<1>2. /\ a \in Seq(K) /\ Len(a) = i - 1
      /\ IsPart(a, s, 0, i - 1)
  BY <1>1, SubSeqFacts DEF IsPart
<1>3. /\ b \in Seq(K) /\ Len(b) = n - i
      /\ IsPart(b, s, i, n - i)
  <2>1. i + 1 \in Nat \ {0} /\ i + 1 <= n + 1
    BY <1>1
  <2>2. /\ b \in Seq(K) /\ Len(b) = n - (i + 1) + 1
        /\ \A j \in 1..(n - (i + 1) + 1) : b[j] = s[(i + 1) + j - 1]
    BY <1>1, <2>1, SubSeqFacts
  <2> HIDE DEF b
  <2> QED BY <1>1, <2>2 DEF IsPart
<1>4. t = DropAt(s, i)
  BY DEF DropAt
<1> HIDE DEF a, b
<1>5. /\ t \in Seq(K) /\ Len(t) = Len(a) + Len(b)
      /\ \A j \in 1..(Len(a) + Len(b)) : t[j] = IF j <= Len(a) THEN a[j] ELSE b[j - Len(a)]
  BY <1>2, <1>3, ConcatProperties
<1> HIDE DEF t, n
<1>6. Len(a) + Len(b) = n - 1 /\ Len(a) = i - 1
  BY <1>1, <1>2, <1>3
<1>7. IsJoin(t, a, i - 1, b, n - 1)
  BY <1>5, <1>6 DEF IsJoin
<1>8. LessAt(t, s, n, i)
  BY <1>1, <1>2, <1>3, <1>7, JoinHalves, Zenon
<1>9. t \in Seq(K) /\ Len(t) = n - 1
  BY <1>5, <1>6
<1> QED BY <1>4, <1>8, <1>9 DEF n
-----------------------------------------------------------------------------
\* Dropping a position of an order drops its key and nothing else, and keeps
\* what is ahead of what.
LEMMA DropAtOrder ==
  ASSUME NEW K, NEW s \in Seq(K), NoRepeat(s), NEW i \in 1..Len(s)
  PROVE  /\ NoRepeat(DropAt(s, i))
         /\ \A x : Lists(DropAt(s, i), x) <=> Lists(s, x) /\ x # s[i]
         /\ \A x, y : Ahead(DropAt(s, i), x, y) => Ahead(s, x, y)
<1> DEFINE t == DropAt(s, i)
           n == Len(s)
<1>1. n \in Nat /\ i \in 1..n
  BY LenProperties
<1>2. Len(t) = n - 1 /\ LessAt(t, s, n, i)
  BY DropAtFacts
<1>3. Distinct(s, n)
  BY DEF NoRepeat
<1> HIDE DEF t, n
<1>4. Dropped(t, s, n, i)
  BY <1>1, <1>2, <1>3, DropPosition
<1>5. NoRepeat(t)
  BY <1>2, <1>4 DEF NoRepeat, Dropped
<1>6. \A x : Lists(t, x) <=> Lists(s, x) /\ x # s[i]
  <2>1. \A x : Lists(t, x) <=> \E j \in 1..(n - 1) : t[j] = x
    BY <1>2 DEF Lists
  <2>2. \A x : Lists(s, x) <=> \E j \in 1..n : s[j] = x
    BY DEF Lists, n
  <2> QED BY <1>1, <1>3, <1>4, <2>1, <2>2 DEF Dropped, Distinct
<1>7. ASSUME NEW x, NEW y, Ahead(t, x, y)
      PROVE  Ahead(s, x, y)
  <2>1. PICK p \in 1..(n - 1), q \in 1..(n - 1) : p < q /\ t[p] = x /\ t[q] = y
    BY <1>2, <1>7 DEF Ahead
  <2> DEFINE u == IF p < i THEN p ELSE p + 1
             v == IF q < i THEN q ELSE q + 1
  <2>2. u \in 1..n /\ v \in 1..n /\ u < v
    BY <1>1, <2>1
  <2>3. s[u] = x /\ s[v] = y
    BY <1>2, <2>1 DEF LessAt
  <2> HIDE DEF u, v
  <2> QED BY <2>2, <2>3 DEF Ahead, n
<1> QED BY <1>5, <1>6, <1>7 DEF t

\* VecDeque::retain(|k| k != key): the key is no longer listed, the others are.
LEMMA ForgetFacts ==
  ASSUME NEW K, NEW s \in Seq(K), NoRepeat(s), NEW k
  PROVE  /\ Forget(s, k) \in Seq(K)
         /\ NoRepeat(Forget(s, k))
         /\ \A x : Lists(Forget(s, k), x) <=> Lists(s, x) /\ x # k
         /\ \A x, y : Ahead(Forget(s, k), x, y) => Ahead(s, x, y)
<1>1. DOMAIN s = 1..Len(s)
  BY LenProperties
<1>2. CASE Lists(s, k)
  <2> DEFINE i == CHOOSE i \in DOMAIN s : s[i] = k
  <2>1. i \in 1..Len(s) /\ s[i] = k
    BY <1>1, <1>2 DEF Lists
  <2>2. k \in Range(s)
    BY <1>1, <2>1 DEF Range
  <2>3. Forget(s, k) = DropAt(s, i)
    BY <2>2 DEF Forget, DropAt
  <2> HIDE DEF i
  <2> QED BY <2>1, <2>3, DropAtFacts, DropAtOrder
<1>3. CASE ~Lists(s, k)
  <2>1. k \notin Range(s)
    BY <1>1, <1>3 DEF Lists, Range
  <2>2. Forget(s, k) = s
    BY <2>1 DEF Forget
  <2> QED BY <2>2, <1>3
<1> QED BY <1>2, <1>3

\* Popping the front is dropping the first position.
LEMMA PopFront ==
  ASSUME NEW K, NEW s \in Seq(K), NEW m \in Nat, m = Len(s), m > 0
  PROVE  SubSeq(s, 2, m) = DropAt(s, 1)
<1>1. SubSeq(s, 1, 0) = << >>
  BY SubSeqEmpty
<1>2. SubSeq(s, 2, m) \in Seq(K)
  BY SubSeqFacts
<1>3. << >> \o SubSeq(s, 2, m) = SubSeq(s, 2, m)
  BY <1>2, ConcatEmptySeq
<1>4. DropAt(s, 1) = SubSeq(s, 1, 0) \o SubSeq(s, 2, m)
  BY DEF DropAt
<1> QED BY <1>1, <1>3, <1>4

\* What push_back of a key that is not listed does to the order.
LEMMA AppendOrder ==
  ASSUME NEW K, NEW s \in Seq(K), NoRepeat(s), NEW k \in K, ~Lists(s, k)
  PROVE  /\ Append(s, k) \in Seq(K)
         /\ NoRepeat(Append(s, k))
         /\ \A x : Lists(Append(s, k), x) <=> Lists(s, x) \/ x = k
         /\ \A x, y : Ahead(Append(s, k), x, y) => Ahead(s, x, y) \/ (Lists(s, x) /\ y = k)
<1> DEFINE t == Append(s, k)
           n == Len(s)
<1>1. /\ n \in Nat /\ t \in Seq(K) /\ Len(t) = n + 1
      /\ \A j \in 1..n : t[j] = s[j]
      /\ t[n + 1] = k
  BY AppendProperties, LenProperties
<1>2. \A p, q \in 1..n : s[p] = s[q] => p = q
  BY DEF NoRepeat, Distinct
<1>3. \A p \in 1..n : s[p] # k
  BY DEF Lists
<1> HIDE DEF t
<1>4. NoRepeat(t)
  BY <1>1, <1>2, <1>3 DEF NoRepeat, Distinct
<1>5. \A x : Lists(t, x) <=> Lists(s, x) \/ x = k
  BY <1>1 DEF Lists
<1>6. \A x, y : Ahead(t, x, y) => Ahead(s, x, y) \/ (Lists(s, x) /\ y = k)
  BY <1>1 DEF Ahead, Lists
<1> QED BY <1>1, <1>4, <1>5, <1>6 DEF t
-----------------------------------------------------------------------------
\* d is c less the keys S: the other entries are as they were, and so is what
\* is ahead of what.
Shrunk(c, d, S) ==
  /\ CachedKeys(d) = CachedKeys(c) \ S
  /\ \A j \in CachedKeys(d) : d.entries[j] = c.entries[j]
  /\ \A x, y : Ahead(d.order, x, y) => Ahead(c.order, x, y)

\* The cache as it is built is well formed.
LEMMA EmptyWellFormed ==
  ASSUME NEW K
  PROVE  WellFormed(EmptyCache, K) /\ CachedKeys(EmptyCache) = {}
<1>1. CachedKeys(EmptyCache) = {} /\ EmptyCache.order = << >>
  BY DEF EmptyCache, CachedKeys
<1>2. << >> \in Seq(K) /\ Len(<< >>) = 0
  BY EmptySeq
<1>3. NoRepeat(<< >>) /\ \A k : ~Lists(<< >>, k)
  BY <1>2 DEF NoRepeat, Distinct, Lists
<1> QED BY <1>1, <1>2, <1>3, FS_EmptySet DEF WellFormed

\* remove takes the key and its place, and leaves a well-formed cache.
LEMMA RemoveFacts ==
  ASSUME NEW K, NEW c, WellFormed(c, K), NEW k
  PROVE  WellFormed(CacheRemove(c, k), K) /\ Shrunk(c, CacheRemove(c, k), {k})
<1> DEFINE d == CacheRemove(c, k)
<1>1. /\ c.order \in Seq(K) /\ NoRepeat(c.order)
      /\ CachedKeys(c) \subseteq K /\ IsFiniteSet(CachedKeys(c))
      /\ \A x : Lists(c.order, x) <=> x \in CachedKeys(c)
  BY DEF WellFormed
<1>2. /\ CachedKeys(d) = CachedKeys(c) \ {k}
      /\ \A j \in CachedKeys(d) : d.entries[j] = c.entries[j]
      /\ d.order = Forget(c.order, k)
  BY DEF CacheRemove, CachedKeys, Restrict
<1> HIDE DEF d
<1>3. /\ d.order \in Seq(K)
      /\ NoRepeat(d.order)
      /\ \A x : Lists(d.order, x) <=> Lists(c.order, x) /\ x # k
      /\ \A x, y : Ahead(d.order, x, y) => Ahead(c.order, x, y)
  BY <1>1, <1>2, ForgetFacts
<1>4. IsFiniteSet(CachedKeys(d))
  BY <1>1, <1>2, FS_RemoveElement
<1>5. WellFormed(d, K)
  BY <1>1, <1>2, <1>3, <1>4 DEF WellFormed
<1>6. Shrunk(c, d, {k})
  BY <1>2, <1>3 DEF Shrunk
<1> QED BY <1>5, <1>6 DEF d

\* The eviction loop pops nothing below capacity, and one key at capacity.
LEMMA PoppedFacts ==
  ASSUME NEW K, NEW c, WellFormed(c, K), NEW capacity \in Nat \ {0},
         Cardinality(CachedKeys(c)) <= capacity
  PROVE  /\ Cardinality(CachedKeys(c)) < capacity => Popped(c, capacity) = 0
         /\ Cardinality(CachedKeys(c)) = capacity =>
              /\ Len(c.order) \in Nat /\ Len(c.order) > 0
              /\ Popped(c, capacity) = 1
              /\ FrontKeys(c, 1) = {c.order[1]}
              /\ c.order[1] \in CachedKeys(c)
<1> DEFINE AtCapacity(n) == Cardinality(CachedKeys(c) \ FrontKeys(c, n)) >= capacity
           Stops(n) == /\ n = Len(c.order) \/ ~AtCapacity(n)
                       /\ \A m \in 0..(n - 1) : AtCapacity(m)
<1>1. /\ c.order \in Seq(K) /\ IsFiniteSet(CachedKeys(c))
      /\ \A k : Lists(c.order, k) <=> k \in CachedKeys(c)
  BY DEF WellFormed
<1>2. Len(c.order) \in Nat /\ Cardinality(CachedKeys(c)) \in Nat
  BY <1>1, LenProperties, FS_CardinalityType
<1>3. Popped(c, capacity) = CHOOSE n \in 0..Len(c.order) : Stops(n)
  BY DEF Popped
<1>4. FrontKeys(c, 0) = {}
  BY DEF FrontKeys
<1>5. CachedKeys(c) \ FrontKeys(c, 0) = CachedKeys(c)
  BY <1>4
<1>6. AtCapacity(0) <=> Cardinality(CachedKeys(c)) >= capacity
  BY <1>5
<1>7. ASSUME Cardinality(CachedKeys(c)) < capacity
      PROVE  Popped(c, capacity) = 0
  <2>1. ~AtCapacity(0)
    BY <1>2, <1>6, <1>7
  <2> HIDE DEF AtCapacity
  <2>2. 0 \in 0..Len(c.order) /\ Stops(0)
    BY <1>2, <2>1
  <2>3. \A n \in 0..Len(c.order) : Stops(n) => n = 0
    BY <1>2, <2>1
  <2> QED BY <1>3, <2>2, <2>3
<1>8. ASSUME Cardinality(CachedKeys(c)) = capacity
      PROVE  /\ Len(c.order) > 0
             /\ Popped(c, capacity) = 1
             /\ FrontKeys(c, 1) = {c.order[1]}
             /\ c.order[1] \in CachedKeys(c)
  <2>1. CachedKeys(c) # {}
    BY <1>8, FS_EmptySet
  <2>2. Len(c.order) > 0
    BY <1>1, <1>2, <2>1 DEF Lists
  <2>3. c.order[1] \in CachedKeys(c)
    BY <1>1, <1>2, <2>2 DEF Lists
  <2>4. FrontKeys(c, 1) = {c.order[1]}
    <3>1. 1..1 = {1}
      OBVIOUS
    <3> QED BY <3>1 DEF FrontKeys
  <2>5. ~AtCapacity(1)
    <3>1. Cardinality(CachedKeys(c) \ {c.order[1]}) = capacity - 1
      BY <1>1, <1>8, <2>3, FS_RemoveElement
    <3>2. Cardinality(CachedKeys(c) \ FrontKeys(c, 1)) = capacity - 1
      BY <2>4, <3>1, Zenon
    <3> QED BY <3>2
  <2>6. AtCapacity(0)
    BY <1>6, <1>8
  <2> HIDE DEF AtCapacity
  <2>7. 1 \in 0..Len(c.order) /\ Stops(1)
    BY <1>2, <2>2, <2>5, <2>6
  <2>8. \A n \in 0..Len(c.order) : Stops(n) => n = 1
    BY <1>2, <2>2, <2>5, <2>6
  <2>9. Popped(c, capacity) = 1
    BY <1>3, <2>7, <2>8
  <2> QED BY <2>2, <2>3, <2>4, <2>9
<1> QED BY <1>2, <1>7, <1>8

\* The eviction makes room: below capacity it takes nothing, at capacity the
\* front of the order and nothing else.
LEMMA EvictFacts ==
  ASSUME NEW K, NEW c, WellFormed(c, K), NEW capacity \in Nat \ {0},
         Cardinality(CachedKeys(c)) <= capacity,
         NEW e, e = EvictOldest(c, capacity)
  PROVE  /\ WellFormed(e, K)
         /\ Cardinality(CachedKeys(e)) < capacity
         /\ \/ Shrunk(c, e, {})
            \/ /\ Cardinality(CachedKeys(c)) = capacity
               /\ c.order[1] \in CachedKeys(c)
               /\ Shrunk(c, e, {c.order[1]})
               /\ \A x \in CachedKeys(c) : x # c.order[1] => Ahead(c.order, c.order[1], x)
<1>1. /\ c.order \in Seq(K) /\ IsFiniteSet(CachedKeys(c)) /\ CachedKeys(c) \subseteq K
      /\ NoRepeat(c.order)
      /\ \A k : Lists(c.order, k) <=> k \in CachedKeys(c)
  BY DEF WellFormed
<1>2. Len(c.order) \in Nat /\ Cardinality(CachedKeys(c)) \in Nat
  BY <1>1, LenProperties, FS_CardinalityType
<1> DEFINE n == Popped(c, capacity)
<1>3. /\ CachedKeys(e) = CachedKeys(c) \ FrontKeys(c, n)
      /\ \A j \in CachedKeys(e) : e.entries[j] = c.entries[j]
      /\ e.order = SubSeq(c.order, n + 1, Len(c.order))
  BY DEF EvictOldest, CachedKeys, Restrict
<1>4. CASE Cardinality(CachedKeys(c)) < capacity
  <2>1. n = 0
    BY <1>4, PoppedFacts
  <2>2. FrontKeys(c, 0) = {}
    BY DEF FrontKeys
  <2>3. e.order = c.order
    BY <1>1, <1>3, <2>1, SubSeqFull
  <2>4. CachedKeys(e) = CachedKeys(c)
    BY <1>3, <2>1, <2>2
  <2>5. Shrunk(c, e, {})
    BY <1>3, <2>3, <2>4 DEF Shrunk
  <2>6. WellFormed(e, K)
    BY <1>1, <2>3, <2>4 DEF WellFormed
  <2> QED BY <1>4, <2>4, <2>5, <2>6
<1>5. CASE Cardinality(CachedKeys(c)) = capacity
  <2>1. /\ n = 1 /\ FrontKeys(c, 1) = {c.order[1]} /\ c.order[1] \in CachedKeys(c)
        /\ Len(c.order) > 0
    BY <1>5, PoppedFacts
  <2>2. e.order = DropAt(c.order, 1)
    BY <1>1, <1>2, <1>3, <2>1, PopFront
  <2>3. CachedKeys(e) = CachedKeys(c) \ {c.order[1]}
    BY <1>3, <2>1
  <2>4. 1 \in 1..Len(c.order)
    BY <1>2, <2>1
  <2>5. /\ e.order \in Seq(K)
        /\ NoRepeat(e.order)
        /\ \A x : Lists(e.order, x) <=> Lists(c.order, x) /\ x # c.order[1]
        /\ \A x, y : Ahead(e.order, x, y) => Ahead(c.order, x, y)
    BY <1>1, <2>2, <2>4, DropAtFacts, DropAtOrder
  <2>6. IsFiniteSet(CachedKeys(e)) /\ Cardinality(CachedKeys(e)) = capacity - 1
    BY <1>1, <1>5, <2>1, <2>3, FS_RemoveElement
  <2>7. WellFormed(e, K)
    BY <1>1, <2>3, <2>5, <2>6 DEF WellFormed
  <2>8. Shrunk(c, e, {c.order[1]})
    BY <1>3, <2>3, <2>5 DEF Shrunk
  <2>9. ASSUME NEW x \in CachedKeys(c), x # c.order[1]
        PROVE  Ahead(c.order, c.order[1], x)
    <3>1. PICK j \in 1..Len(c.order) : c.order[j] = x
      BY <1>1 DEF Lists
    <3>2. 1 < j
      BY <1>2, <2>9, <3>1
    <3> QED BY <2>4, <3>1, <3>2 DEF Ahead
  <2> QED BY <1>5, <2>1, <2>6, <2>7, <2>8, <2>9
<1> QED BY <1>2, <1>4, <1>5

\* d is c after an insert of k: the key has its new entry, every other entry
\* of d is one of c, and k alone may have come in behind the others.
Put(c, d, k, entry) ==
  /\ k \in CachedKeys(d)
  /\ d.entries[k] = entry
  /\ \A j \in CachedKeys(d) : j # k => j \in CachedKeys(c) /\ d.entries[j] = c.entries[j]
  /\ \A x, y : Ahead(d.order, x, y) =>
       Ahead(c.order, x, y) \/ (k \notin CachedKeys(c) /\ x \in CachedKeys(c) /\ y = k)

\* Which keys an insert of k takes: none when k is present or there is room;
\* otherwise the one every other key is behind.
Kept(c, d, k, capacity) ==
  \/ CachedKeys(c) \subseteq CachedKeys(d)
  \/ /\ k \notin CachedKeys(c)
     /\ Cardinality(CachedKeys(c)) = capacity
     /\ \E f \in CachedKeys(c) :
          /\ CachedKeys(c) \ {f} \subseteq CachedKeys(d)
          /\ \A x \in CachedKeys(c) : x # f => Ahead(c.order, f, x)

\* insert keeps the cache well formed and within its capacity.
LEMMA InsertFacts ==
  ASSUME NEW K, NEW c, WellFormed(c, K), NEW capacity \in Nat \ {0},
         Cardinality(CachedKeys(c)) <= capacity,
         NEW k \in K, NEW v, NEW t,
         NEW d, d = CacheInsert(c, k, v, t, capacity)
  PROVE  /\ WellFormed(d, K)
         /\ Cardinality(CachedKeys(d)) <= capacity
         /\ Put(c, d, k, [value |-> v, inserted_at |-> t])
         /\ Kept(c, d, k, capacity)
<1> DEFINE entry == [value |-> v, inserted_at |-> t]
<1>1. /\ c.order \in Seq(K) /\ IsFiniteSet(CachedKeys(c)) /\ CachedKeys(c) \subseteq K
      /\ NoRepeat(c.order)
      /\ \A x : Lists(c.order, x) <=> x \in CachedKeys(c)
  BY DEF WellFormed
<1>2. CASE k \in CachedKeys(c)
  <2>1. d = [entries |-> PutEntry(c.entries, k, v, t), order |-> c.order]
    BY <1>2 DEF CacheInsert
  <2>2. /\ d.order = c.order
        /\ CachedKeys(d) = CachedKeys(c)
        /\ d.entries[k] = entry
        /\ \A j \in CachedKeys(c) : j # k => d.entries[j] = c.entries[j]
    BY <1>2, <2>1 DEF PutEntry, CachedKeys
  <2>3. WellFormed(d, K)
    BY <1>1, <2>2 DEF WellFormed
  <2> HIDE DEF entry
  <2>4. Put(c, d, k, entry)
    BY <1>2, <2>2 DEF Put
  <2>5. Kept(c, d, k, capacity)
    BY <2>2 DEF Kept
  <2> QED BY <2>2, <2>3, <2>4, <2>5 DEF entry
<1>3. CASE k \notin CachedKeys(c)
  <2> DEFINE e == EvictOldest(c, capacity)
  <2>1. /\ WellFormed(e, K)
        /\ Cardinality(CachedKeys(e)) < capacity
        /\ \/ Shrunk(c, e, {})
           \/ /\ Cardinality(CachedKeys(c)) = capacity
              /\ c.order[1] \in CachedKeys(c)
              /\ Shrunk(c, e, {c.order[1]})
              /\ \A x \in CachedKeys(c) : x # c.order[1] => Ahead(c.order, c.order[1], x)
    BY EvictFacts
  <2>2. d = [entries |-> PutEntry(e.entries, k, v, t), order |-> Append(e.order, k)]
    BY <1>3 DEF CacheInsert
  <2> HIDE DEF e
  <2>3. /\ d.order = Append(e.order, k)
        /\ CachedKeys(d) = CachedKeys(e) \cup {k}
        /\ d.entries[k] = entry
        /\ \A j \in CachedKeys(e) : j # k => d.entries[j] = e.entries[j]
    BY <2>2 DEF PutEntry, CachedKeys
  <2> HIDE DEF entry
  <2>4. /\ CachedKeys(e) \subseteq CachedKeys(c)
        /\ \A j \in CachedKeys(e) : e.entries[j] = c.entries[j]
        /\ \A x, y : Ahead(e.order, x, y) => Ahead(c.order, x, y)
    BY <2>1 DEF Shrunk
  <2>5. /\ e.order \in Seq(K) /\ IsFiniteSet(CachedKeys(e)) /\ CachedKeys(e) \subseteq K
        /\ NoRepeat(e.order)
        /\ \A x : Lists(e.order, x) <=> x \in CachedKeys(e)
    BY <2>1 DEF WellFormed
  <2>6. k \notin CachedKeys(e) /\ ~Lists(e.order, k)
    BY <1>3, <2>4, <2>5
  <2>7. /\ d.order \in Seq(K)
        /\ NoRepeat(d.order)
        /\ \A x : Lists(d.order, x) <=> Lists(e.order, x) \/ x = k
        /\ \A x, y : Ahead(d.order, x, y) => Ahead(e.order, x, y) \/ (Lists(e.order, x) /\ y = k)
    BY <2>3, <2>5, <2>6, AppendOrder
  <2>8. IsFiniteSet(CachedKeys(d)) /\ Cardinality(CachedKeys(d)) = Cardinality(CachedKeys(e)) + 1
    BY <2>3, <2>5, <2>6, FS_AddElement
  <2>9. WellFormed(d, K)
    BY <2>3, <2>5, <2>7, <2>8 DEF WellFormed
  <2>10. Cardinality(CachedKeys(d)) <= capacity
    BY <2>1, <2>5, <2>8, FS_CardinalityType
  <2>11. Put(c, d, k, entry)
    BY <1>3, <2>3, <2>4, <2>5, <2>7 DEF Put
  <2>12. Kept(c, d, k, capacity)
    <3>1. CASE Shrunk(c, e, {})
      BY <2>3, <3>1 DEF Kept, Shrunk
    <3>2. CASE /\ Cardinality(CachedKeys(c)) = capacity
               /\ c.order[1] \in CachedKeys(c)
               /\ Shrunk(c, e, {c.order[1]})
               /\ \A x \in CachedKeys(c) : x # c.order[1] => Ahead(c.order, c.order[1], x)
      <4>1. CachedKeys(c) \ {c.order[1]} \subseteq CachedKeys(d)
        BY <2>3, <3>2 DEF Shrunk
      <4> QED BY <1>3, <3>2, <4>1 DEF Kept
    <3> QED BY <2>1, <3>1, <3>2
  <2> QED BY <2>9, <2>10, <2>11, <2>12 DEF entry
<1> QED BY <1>2, <1>3
-----------------------------------------------------------------------------
\* The history and the cache agree: whatever is behind a key in the order
\* entered after it, and a key that is gone before its time has had at least
\* Capacity keys enter after it.
HistoryInv ==
  /\ \A k \in Keys : IsFiniteSet(newer[k])
  /\ \A x, y : Ahead(cache.order, x, y) => y \in newer[x]
  /\ KeptUntilCapacityNewer

\* The inductive invariant.
IInv ==
  /\ TypeOK
  /\ WellFormed(cache, Keys)
  /\ WithinCapacity
  /\ EntriesAreLastWritten
  /\ HistoryInv

LEMMA InitInv == Init => IInv
<1> SUFFICES ASSUME Init PROVE IInv
  OBVIOUS
<1>1. WellFormed(cache, Keys) /\ CachedKeys(cache) = {}
  BY EmptyWellFormed DEF Init
<1>2. cache.order = << >> /\ Len(cache.order) = 0 /\ cache.order \in Seq(Keys)
  BY EmptySeq DEF Init, EmptyCache
<1>3. TypeOK
  <2>1. cache.entries \in [CachedKeys(cache) -> Entry]
    BY <1>1 DEF Init, EmptyCache, CachedKeys
  <2>2. now \in Nat /\ reply \in {Miss} /\ newer \in [Keys -> SUBSET Keys]
    BY DEF Init
  <2>3. written \in [Keys -> Written]
    BY DEF Init, Written
  <2> QED BY <1>1, <1>2, <2>1, <2>2, <2>3 DEF TypeOK
<1>4. WithinCapacity
  BY <1>1, CapacityAssumption, FS_EmptySet DEF WithinCapacity
<1>5. EntriesAreLastWritten
  BY <1>1 DEF EntriesAreLastWritten
<1>6. HistoryInv
  <2>1. \A k \in Keys : newer[k] = {} /\ ~written[k].present
    BY DEF Init, Absent
  <2>2. \A x, y : ~Ahead(cache.order, x, y)
    BY <1>2 DEF Ahead
  <2> QED BY <2>1, <2>2, FS_EmptySet DEF HistoryInv, KeptUntilCapacityNewer
<1> QED BY <1>1, <1>3, <1>4, <1>5, <1>6 DEF IInv

\* Taking a key out, when it was removed or is past its time, keeps the
\* invariant: the step of Remove, and of a Get that finds the entry expired.
LEMMA TakeOut ==
  ASSUME IInv, NEW k \in Keys, cache' = CacheRemove(cache, k),
         now' = now, newer' = newer, reply' \in {Miss} \cup [key : Keys, value : Values],
         \/ written' = [written EXCEPT ![k] = Absent]
         \/ Expired(cache, k, now, Ttl) /\ written' = written
  PROVE  IInv'
<1> USE DEF IInv
<1>1. WellFormed(cache, Keys)' /\ Shrunk(cache, cache', {k})
  BY RemoveFacts
<1>2. /\ CachedKeys(cache') = CachedKeys(cache) \ {k}
      /\ \A j \in CachedKeys(cache') : cache'.entries[j] = cache.entries[j]
      /\ \A x, y : Ahead(cache'.order, x, y) => Ahead(cache.order, x, y)
  BY <1>1 DEF Shrunk
<1>3. written' \in [Keys -> Written] /\ \A j \in Keys : j # k => written'[j] = written[j]
  BY DEF TypeOK, Written
<1>4. TypeOK'
  <2>1. cache'.entries \in [CachedKeys(cache') -> Entry]
    <3>1. cache'.entries = [j \in CachedKeys(cache) \ {k} |-> cache.entries[j]]
      BY DEF CacheRemove, Restrict
    <3> QED BY <1>2, <3>1 DEF TypeOK
  <2>2. CachedKeys(cache') \subseteq Keys /\ cache'.order \in Seq(Keys)
    BY <1>1 DEF WellFormed
  <2> QED BY <1>3, <2>1, <2>2 DEF TypeOK
<1>5. WithinCapacity'
  <2>1. IsFiniteSet(CachedKeys(cache))
    BY DEF WellFormed
  <2>2. IsFiniteSet(CachedKeys(cache')) /\ Cardinality(CachedKeys(cache')) <= Cardinality(CachedKeys(cache))
    BY <1>2, <2>1, FS_Subset
  <2> QED BY <2>1, <2>2, CapacityAssumption, FS_CardinalityType DEF WithinCapacity
<1>6. EntriesAreLastWritten'
  BY <1>2, <1>3 DEF EntriesAreLastWritten, TypeOK
<1>7. HistoryInv'
  <2>1. KeptUntilCapacityNewer'
    <3> SUFFICES ASSUME NEW j \in Keys, written'[j].present, now' - written'[j].at <= Ttl,
                        j \notin CachedKeys(cache')
                 PROVE  Cardinality(newer'[j]) >= Capacity
      BY DEF KeptUntilCapacityNewer
    <3>1. CASE j # k
      BY <1>2, <1>3, <3>1 DEF HistoryInv, KeptUntilCapacityNewer
    <3>2. CASE j = k
      <4>1. written' # [written EXCEPT ![k] = Absent]
        BY <3>2 DEF TypeOK, Absent
      <4>2. Expired(cache, k, now, Ttl) /\ written' = written
        BY <4>1
      <4>3. k \in CachedKeys(cache) /\ now - written[k].at > Ttl
        BY <4>2 DEF Expired, EntriesAreLastWritten
      <4>4. written[k].at \in Nat
        <5>1. written[k] \in Written /\ written[k].present
          BY <3>2, <4>2 DEF TypeOK
        <5>2. written[k] # Absent
          BY <5>1 DEF Absent
        <5> QED BY <5>1, <5>2 DEF Written
      <4> QED BY <3>2, <4>2, <4>3, <4>4, TtlAssumption DEF TypeOK
    <3> QED BY <3>1, <3>2
  <2> QED BY <1>2, <2>1 DEF HistoryInv
<1> QED BY <1>1, <1>4, <1>5, <1>6, <1>7

\* A Get keeps the invariant.
LEMMA GetStep ==
  ASSUME IInv, NEW k \in Keys, Get(k)
  PROVE  IInv'
<1>1. /\ cache' = CacheAfterGet(cache, k, now, Ttl)
      /\ now' = now /\ written' = written /\ newer' = newer
      /\ reply' = IF CacheHits(cache, k, now, Ttl)
                    THEN [key |-> k, value |-> cache.entries[k].value] ELSE Miss
  BY DEF Get
<1>2. reply' \in {Miss} \cup [key : Keys, value : Values]
  BY <1>1 DEF CacheHits, IInv, TypeOK, Entry
<1>3. CASE Expired(cache, k, now, Ttl)
  BY <1>1, <1>2, <1>3, TakeOut DEF CacheAfterGet
<1>4. CASE ~Expired(cache, k, now, Ttl)
  <2>1. cache' = cache
    BY <1>1, <1>4 DEF CacheAfterGet
  <2> QED BY <1>1, <1>2, <2>1
       DEF IInv, TypeOK, WithinCapacity, EntriesAreLastWritten, HistoryInv, KeptUntilCapacityNewer
<1> QED BY <1>3, <1>4

\* A Remove keeps the invariant.
LEMMA RemoveStep ==
  ASSUME IInv, NEW k \in Keys, Remove(k)
  PROVE  IInv'
<1>1. /\ cache' = CacheRemove(cache, k)
      /\ written' = [written EXCEPT ![k] = Absent]
      /\ now' = now /\ newer' = newer
      /\ reply' \in {Miss} \cup [key : Keys, value : Values]
  BY DEF Remove, IInv, TypeOK
<1> QED BY <1>1, TakeOut

\* An Insert keeps the invariant.  The key the eviction takes is the front one:
\* the Capacity - 1 others are behind it, so they entered after it, and the
\* new key makes Capacity.
LEMMA InsertStep ==
  ASSUME IInv, NEW k \in Keys, NEW v \in Values, Insert(k, v)
  PROVE  IInv'
<1> DEFINE entry == [value |-> v, inserted_at |-> now]
<1>1. /\ cache' = CacheInsert(cache, k, v, now, Capacity)
      /\ written' = [written EXCEPT ![k] = [present |-> TRUE, value |-> v, at |-> now]]
      /\ newer' = IF k \in CachedKeys(cache) THEN newer
                  ELSE [j \in Keys |-> IF j = k THEN {} ELSE newer[j] \cup {k}]
      /\ now' = now /\ reply' = reply
  BY DEF Insert
<1>2. /\ TypeOK /\ WellFormed(cache, Keys) /\ WithinCapacity
      /\ EntriesAreLastWritten /\ HistoryInv
  BY DEF IInv
<1>3. /\ WellFormed(cache', Keys)
      /\ Cardinality(CachedKeys(cache')) <= Capacity
      /\ Put(cache, cache', k, entry)
      /\ Kept(cache, cache', k, Capacity)
  BY <1>1, <1>2, CapacityAssumption, InsertFacts DEF WithinCapacity
<1>4. /\ k \in CachedKeys(cache')
      /\ cache'.entries[k] = entry
      /\ \A j \in CachedKeys(cache') : j # k =>
           j \in CachedKeys(cache) /\ cache'.entries[j] = cache.entries[j]
      /\ \A x, y : Ahead(cache'.order, x, y) =>
           Ahead(cache.order, x, y) \/ (k \notin CachedKeys(cache) /\ x \in CachedKeys(cache) /\ y = k)
  BY <1>3 DEF Put
<1>5. /\ written' \in [Keys -> Written]
      /\ written'[k] = [present |-> TRUE, value |-> v, at |-> now]
      /\ \A j \in Keys : j # k => written'[j] = written[j]
  BY <1>1, <1>2 DEF TypeOK, Written
<1>6. CachedKeys(cache') \subseteq Keys /\ cache'.order \in Seq(Keys)
  BY <1>3 DEF WellFormed
<1>7. TypeOK'
  <2>1. cache'.entries \in [CachedKeys(cache') -> Entry]
    <3>1. \A j \in CachedKeys(cache') : cache'.entries[j] \in Entry
      BY <1>2, <1>4 DEF TypeOK, Entry
    <3>2. cache'.entries = [j \in CachedKeys(cache') |-> cache'.entries[j]]
      BY <1>1 DEF CacheInsert, PutEntry, CachedKeys
    <3> QED BY <3>1, <3>2
  <2>2. newer' \in [Keys -> SUBSET Keys]
    BY <1>1, <1>2 DEF TypeOK
  <2> QED BY <1>1, <1>2, <1>5, <1>6, <2>1, <2>2 DEF TypeOK
<1>8. WithinCapacity'
  BY <1>3 DEF WithinCapacity
<1>9. EntriesAreLastWritten'
  BY <1>2, <1>4, <1>5, <1>6 DEF EntriesAreLastWritten
<1>10. \A j \in Keys : IsFiniteSet(newer'[j])
  BY <1>1, <1>2, FS_EmptySet, FS_AddElement DEF HistoryInv, TypeOK
<1>11. \A x, y : Ahead(cache'.order, x, y) => y \in newer'[x]
  <2> SUFFICES ASSUME NEW x, NEW y, Ahead(cache'.order, x, y)
               PROVE  y \in newer'[x]
    OBVIOUS
  <2>1. \A p, q : Ahead(cache.order, p, q) =>
          p \in CachedKeys(cache) /\ p \in Keys /\ q \in newer[p]
    <3>1. \A p, q : Ahead(cache.order, p, q) => Lists(cache.order, p)
      BY DEF Ahead, Lists
    <3> QED BY <1>2, <3>1 DEF WellFormed, HistoryInv
  <2>2. CASE Ahead(cache.order, x, y)
    BY <1>1, <2>1, <2>2
  <2>3. CASE k \notin CachedKeys(cache) /\ x \in CachedKeys(cache) /\ y = k
    BY <1>1, <1>2, <2>3 DEF TypeOK
  <2> QED BY <1>4, <2>2, <2>3
<1>12. KeptUntilCapacityNewer'
  <2> SUFFICES ASSUME NEW j \in Keys, written'[j].present, now' - written'[j].at <= Ttl,
                      j \notin CachedKeys(cache')
               PROVE  Cardinality(newer'[j]) >= Capacity
    BY DEF KeptUntilCapacityNewer
  <2>1. j # k /\ written'[j] = written[j]
    BY <1>4, <1>5
  <2>2. CASE j \in CachedKeys(cache)
    <3>1. /\ k \notin CachedKeys(cache)
          /\ Cardinality(CachedKeys(cache)) = Capacity
          /\ \A x \in CachedKeys(cache) : x # j => Ahead(cache.order, j, x)
      BY <1>3, <2>2 DEF Kept
    <3>2. newer'[j] = newer[j] \cup {k}
      BY <1>1, <2>1, <3>1
    <3>3. CachedKeys(cache) \ {j} \subseteq newer[j]
      BY <1>2, <3>1 DEF HistoryInv
    <3> DEFINE others == CachedKeys(cache) \ {j}
               behind == others \cup {k}
    <3>4. IsFiniteSet(others) /\ Cardinality(others) = Capacity - 1
      BY <1>2, <2>2, <3>1, FS_RemoveElement DEF WellFormed
    <3>5. k \notin others
      BY <3>1
    <3>6. behind \subseteq newer'[j]
      BY <3>2, <3>3
    <3> HIDE DEF others
    <3>7. Cardinality(behind) = Cardinality(others) + 1
      BY <3>4, <3>5, FS_AddElement
    <3>9. Cardinality(behind) = Capacity
      BY <3>4, <3>7, CapacityAssumption
    <3> HIDE DEF behind
    <3>8. Cardinality(behind) <= Cardinality(newer'[j])
      BY <1>10, <3>6, FS_Subset
    <3> QED BY <3>8, <3>9
  <2>3. CASE j \notin CachedKeys(cache)
    <3>1. IsFiniteSet(newer[j]) /\ Cardinality(newer[j]) >= Capacity
      BY <1>1, <1>2, <2>1, <2>3 DEF HistoryInv, KeptUntilCapacityNewer
    <3>2. Cardinality(newer[j] \cup {k}) >= Capacity
      <4>1. Cardinality(newer[j]) \in Nat
        BY <3>1, FS_CardinalityType
      <4>2. \/ Cardinality(newer[j] \cup {k}) = Cardinality(newer[j])
            \/ Cardinality(newer[j] \cup {k}) = Cardinality(newer[j]) + 1
        BY <3>1, FS_AddElement
      <4> QED BY <3>1, <4>1, <4>2, CapacityAssumption
    <3>3. newer'[j] = newer[j] \/ newer'[j] = newer[j] \cup {k}
      BY <1>1, <2>1
    <3> QED BY <3>1, <3>2, <3>3
  <2> QED BY <2>2, <2>3
<1> QED BY <1>3, <1>7, <1>8, <1>9, <1>10, <1>11, <1>12 DEF IInv, HistoryInv

\* The passage of time keeps the invariant.
LEMMA TickStep ==
  ASSUME IInv, Tick
  PROVE  IInv'
<1>1. cache' = cache /\ written' = written /\ newer' = newer /\ reply' = reply /\ now' = now + 1
  BY DEF Tick
<1>2. \A j \in Keys : written[j].present => written[j].at \in Nat
  <2> SUFFICES ASSUME NEW j \in Keys, written[j].present PROVE written[j].at \in Nat
    OBVIOUS
  <2>1. written[j] \in Written /\ written[j] # Absent
    BY DEF IInv, TypeOK, Absent
  <2> QED BY <2>1 DEF Written
<1>3. KeptUntilCapacityNewer'
  BY <1>1, <1>2, TtlAssumption DEF IInv, TypeOK, HistoryInv, KeptUntilCapacityNewer
<1> QED BY <1>1, <1>3
     DEF IInv, TypeOK, WithinCapacity, EntriesAreLastWritten, HistoryInv

\* Every step keeps the inductive invariant.
LEMMA NextInv == IInv /\ [Next]_vars => IInv'
<1> SUFFICES ASSUME IInv, [Next]_vars PROVE IInv'
  OBVIOUS
<1>1. CASE \E k \in Keys : Get(k)
  BY <1>1, GetStep
<1>2. CASE \E k \in Keys : Remove(k)
  BY <1>2, RemoveStep
<1>3. CASE \E k \in Keys, v \in Values : Insert(k, v)
  BY <1>3, InsertStep
<1>4. CASE Tick
  BY <1>4, TickStep
<1>5. CASE UNCHANGED vars
  BY <1>5 DEF vars, IInv, TypeOK, WithinCapacity, EntriesAreLastWritten, HistoryInv, KeptUntilCapacityNewer
<1> QED BY <1>1, <1>2, <1>3, <1>4, <1>5 DEF Next

\* The cache of cache.rs is always of its type.
THEOREM Typing == Spec => []TypeOK
<1>1. IInv => TypeOK
  BY DEF IInv
<1> QED BY <1>1, InitInv, NextInv, PTL DEF Spec

\* It never holds more than its capacity (cache.rs:56), for every capacity of
\* at least one.
THEOREM CapacityBound == Spec => []WithinCapacity
<1>1. IInv => WithinCapacity
  BY DEF IInv
<1> QED BY <1>1, InitInv, NextInv, PTL DEF Spec

\* The order kept by hand beside the entries lists each cached key once and
\* nothing else.
THEOREM OrderAgreement == Spec => []OrderEnumeratesEntries
<1>1. IInv => OrderEnumeratesEntries
  <2> SUFFICES ASSUME IInv PROVE OrderEnumeratesEntries
    OBVIOUS
  <2>1. /\ cache.order \in Seq(Keys) /\ NoRepeat(cache.order)
        /\ \A k : Lists(cache.order, k) <=> k \in CachedKeys(cache)
    BY DEF IInv, WellFormed
  <2>2. DOMAIN cache.order = 1..Len(cache.order)
    BY <2>1, LenProperties
  <2>3. Range(cache.order) = CachedKeys(cache)
    BY <2>1, <2>2 DEF Range, Lists
  <2> QED BY <2>1, <2>2, <2>3 DEF OrderEnumeratesEntries, NoRepeat, Distinct
<1> QED BY <1>1, InitInv, NextInv, PTL DEF Spec

\* A key that was not removed and has not expired is lost only after at least
\* Capacity distinct keys entered behind it.
THEOREM Retention == Spec => []KeptUntilCapacityNewer
<1>1. IInv => KeptUntilCapacityNewer
  BY DEF IInv, HistoryInv
<1> QED BY <1>1, InitInv, NextInv, PTL DEF Spec

\* The initial state is one of the promise, and every step of the cache is a
\* step of it or changes nothing it speaks of.
LEMMA StepPromised ==
  ASSUME IInv, [Next]_vars
  PROVE  [Promise!Next]_(Promise!mapVars)
<1>1. ASSUME NEW k \in Keys, Get(k) PROVE Promise!Next
  <2>1. CASE CacheHits(cache, k, now, Ttl)
    <3>1. reply' = [key |-> k, value |-> written[k].value]
      BY <1>1, <2>1 DEF Get, CacheHits, IInv, EntriesAreLastWritten
    <3>2. Promise!Fresh(k)
      <4>1. k \in CachedKeys(cache) /\ ~(now - cache.entries[k].inserted_at > Ttl)
        BY <2>1 DEF CacheHits, Expired
      <4>2. cache.entries[k].inserted_at = written[k].at /\ written[k].present
        BY <4>1 DEF IInv, EntriesAreLastWritten
      <4>3. cache.entries[k].inserted_at \in Nat /\ now \in Nat
        BY <4>1 DEF IInv, TypeOK, Entry
      <4> QED BY <4>1, <4>2, <4>3, TtlAssumption DEF Promise!Fresh
    <3>3. Promise!Read(k)
      BY <1>1, <3>1, <3>2 DEF Get, Promise!Read
    <3> QED BY <3>3 DEF Promise!Next
  <2>2. CASE ~CacheHits(cache, k, now, Ttl)
    <3>1. Promise!Read(k)
      BY <1>1, <2>2 DEF Get, Promise!Read
    <3> QED BY <3>1 DEF Promise!Next
  <2> QED BY <2>1, <2>2
<1>2. ASSUME NEW k \in Keys, Remove(k) PROVE Promise!Next
  <2>1. Promise!Remove(k)
    BY <1>2 DEF Remove, Promise!Remove, Absent, Promise!Absent
  <2> QED BY <2>1 DEF Promise!Next
<1>3. ASSUME NEW k \in Keys, NEW v \in Values, Insert(k, v) PROVE Promise!Next
  <2>1. Promise!Put(k, v)
    BY <1>3 DEF Insert, Promise!Put, Promise!Last
  <2> QED BY <2>1 DEF Promise!Next
<1>4. ASSUME Tick PROVE Promise!Next
  BY <1>4 DEF Tick, Promise!Next, Promise!Tick
<1>5. CASE UNCHANGED vars
  BY <1>5 DEF vars, Promise!mapVars
<1> QED BY <1>1, <1>2, <1>3, <1>4, <1>5 DEF Next

\* The cache implements the map that may forget but never lies.
THEOREM Refinement == Spec => ImplementsPromise
<1>1. Init => Promise!Init
  BY DEF Init, Promise!Init, Absent, Promise!Absent
<1>2. IInv /\ [Next]_vars => [Promise!Next]_(Promise!mapVars)
  BY StepPromised
<1> QED BY <1>1, <1>2, InitInv, NextInv, PTL DEF Spec, ImplementsPromise, Promise!Spec
=============================================================================
