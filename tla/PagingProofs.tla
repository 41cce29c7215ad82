---------------------------- MODULE PagingProofs ----------------------------
(***************************************************************************)
(* Theorems about paging, for every instance of the plugin: the cursor     *)
(* cached for an offset stands at that place of the result, so that a page *)
(* reached from any cursor is the page that OFFSET and LIMIT would give,   *)
(* and a request that ends in an error leaves the caches alone.            *)
(*                                                                         *)
(* First come lemmas about the rows of a query, of every collection: that  *)
(* its order is one, so that every document has a place of its own and     *)
(* Rows lists them by it; what start_after a document leaves of the list;  *)
(* and what a page of a page is.                                           *)
(***************************************************************************)
EXTENDS PluginProofs, FunctionTheorems, SequenceTheorems

-----------------------------------------------------------------------------
(* What puts the rows of a query in order.                                 *)

\* What the lemmas ask of documents that a query puts in order.
Ordered(docs, q, ids) ==
  /\ ids \subseteq Nat /\ IsFiniteSet(ids)
  /\ \A i \in ids : docs[i] \in Nat
  /\ q.order \in {"id", "rank"}

Before(docs, q, ids, i) == {j \in ids : Precedes(docs, q, j, i)}
Place(docs, q, ids, i) == Cardinality(Before(docs, q, ids, i))
Row(docs, i) == [id |-> i, rank |-> docs[i]]
-----------------------------------------------------------------------------
(* The order of a query.                                                   *)

LEMMA NotBeforeItself ==
  ASSUME NEW docs, NEW q, NEW ids, Ordered(docs, q, ids), NEW i \in ids
  PROVE  ~Precedes(docs, q, i, i)
<1>1. i \in Nat /\ docs[i] \in Nat
  BY DEF Ordered
<1> QED BY <1>1 DEF Precedes

LEMMA BeforeTransitive ==
  ASSUME NEW docs, NEW q, NEW ids, Ordered(docs, q, ids),
         NEW i \in ids, NEW j \in ids, NEW k \in ids,
         Precedes(docs, q, i, j), Precedes(docs, q, j, k)
  PROVE  Precedes(docs, q, i, k)
<1>1. /\ i \in Nat /\ j \in Nat /\ k \in Nat
      /\ docs[i] \in Nat /\ docs[j] \in Nat /\ docs[k] \in Nat
  BY DEF Ordered
<1> QED BY <1>1 DEF Precedes, Ordered

LEMMA BeforeTotal ==
  ASSUME NEW docs, NEW q, NEW ids, Ordered(docs, q, ids), NEW i \in ids, NEW j \in ids, i # j
  PROVE  Precedes(docs, q, i, j) \/ Precedes(docs, q, j, i)
<1>1. i \in Nat /\ j \in Nat /\ docs[i] \in Nat /\ docs[j] \in Nat
  BY DEF Ordered
<1> QED BY <1>1 DEF Precedes, Ordered
-----------------------------------------------------------------------------
(* Places.                                                                 *)

\* A place is a number below the number of documents.
LEMMA PlaceType ==
  ASSUME NEW docs, NEW q, NEW ids, Ordered(docs, q, ids), NEW i \in ids
  PROVE  /\ Cardinality(ids) \in Nat
         /\ IsFiniteSet(Before(docs, q, ids, i))
         /\ Place(docs, q, ids, i) \in 0..(Cardinality(ids) - 1)
<1> DEFINE before == Before(docs, q, ids, i)
<1>1. IsFiniteSet(ids) /\ Cardinality(ids) \in Nat
  BY FS_CardinalityType DEF Ordered
<1>2. IsFiniteSet(ids \ {i}) /\ Cardinality(ids \ {i}) = Cardinality(ids) - 1
  BY <1>1, FS_RemoveElement
<1>3. before \in SUBSET (ids \ {i})
  BY NotBeforeItself DEF Before
<1>4. IsFiniteSet(before) /\ Cardinality(before) <= Cardinality(ids \ {i})
  BY <1>2, <1>3, FS_Subset
<1>5. Cardinality(before) \in Nat
  BY <1>4, FS_CardinalityType
<1> QED BY <1>1, <1>2, <1>4, <1>5 DEF Place

\* Who comes before another document has an earlier place, and only he does.
LEMMA PlacesGrow ==
  ASSUME NEW docs, NEW q, NEW ids, Ordered(docs, q, ids), NEW i \in ids, NEW j \in ids,
         Precedes(docs, q, i, j)
  PROVE  Place(docs, q, ids, i) < Place(docs, q, ids, j)
<1> DEFINE S == Before(docs, q, ids, i)
           T == Before(docs, q, ids, j)
<1>1. S \in SUBSET T
  BY BeforeTransitive DEF Before
<1>2. i \in T /\ i \notin S
  BY NotBeforeItself DEF Before
<1>3. IsFiniteSet(T) /\ Cardinality(S) \in Nat /\ Cardinality(T) \in Nat
  BY PlaceType DEF Place
<1>4. Cardinality(S) <= Cardinality(T) /\ (Cardinality(T) = Cardinality(S) => T = S)
  BY <1>1, <1>3, FS_Subset
<1> QED BY <1>2, <1>3, <1>4 DEF Place

LEMMA PlacesOrder ==
  ASSUME NEW docs, NEW q, NEW ids, Ordered(docs, q, ids), NEW i \in ids, NEW j \in ids
  PROVE  Precedes(docs, q, i, j) <=> Place(docs, q, ids, i) < Place(docs, q, ids, j)
<1>1. Place(docs, q, ids, i) \in Nat /\ Place(docs, q, ids, j) \in Nat
  BY PlaceType
<1>2. CASE i = j
  BY <1>1, <1>2, NotBeforeItself
<1>3. CASE i # j
  BY <1>1, <1>3, PlacesGrow, BeforeTotal
<1> QED BY <1>2, <1>3

\* No two documents have the same place.
LEMMA PlacesDiffer ==
  ASSUME NEW docs, NEW q, NEW ids, Ordered(docs, q, ids), NEW i \in ids, NEW j \in ids,
         Place(docs, q, ids, i) = Place(docs, q, ids, j)
  PROVE  i = j
<1>1. Place(docs, q, ids, i) \in Nat /\ Place(docs, q, ids, j) \in Nat
  BY PlaceType
<1> QED BY <1>1, BeforeTotal, PlacesGrow

\* As many places as documents: each is taken.
LEMMA PlacesTaken ==
  ASSUME NEW docs, NEW q, NEW ids, Ordered(docs, q, ids), NEW n \in 0..(Cardinality(ids) - 1)
  PROVE  \E i \in ids : Place(docs, q, ids, i) = n
<1> DEFINE T == 0..(Cardinality(ids) - 1)
           place == [i \in ids |-> Place(docs, q, ids, i)]
<1>1. IsFiniteSet(ids) /\ Cardinality(ids) \in Nat
  BY FS_CardinalityType DEF Ordered
<1>2. IsFiniteSet(T) /\ Cardinality(T) = Cardinality(ids)
  BY <1>1, FS_Interval
<1>3. place \in [ids -> T]
  BY PlaceType
<1>4. \A i, j \in ids : place[i] = place[j] => i = j
  BY PlacesDiffer
<1>5. place \in Injection(ids, T)
  BY <1>3, <1>4, Fun_IsInj
<1>6. place \in Surjection(ids, T)
  BY <1>2, <1>5, FS_Injection
<1> QED BY <1>6 DEF Surjection
-----------------------------------------------------------------------------
(* Rows.                                                                   *)

\* The rows are a sequence with one row for each document ...
LEMMA RowsType ==
  ASSUME NEW docs, NEW q, NEW ids, Ordered(docs, q, ids)
  PROVE  /\ Rows(docs, q, ids) \in Seq({Row(docs, i) : i \in ids})
         /\ Len(Rows(docs, q, ids)) = Cardinality(ids)
         /\ Cardinality(ids) \in Nat
<1> DEFINE s == Rows(docs, q, ids)
           N == Cardinality(ids)
           S == {Row(docs, i) : i \in ids}
           at(n) == CHOOSE i \in ids : Cardinality({j \in ids : Precedes(docs, q, j, i)}) = n - 1
<1>1. N \in Nat
  BY FS_CardinalityType DEF Ordered
<1>2. ASSUME NEW n \in 1..N
      PROVE  at(n) \in ids
  <2>1. n - 1 \in 0..(N - 1)
    BY <1>1
  <2> QED BY <2>1, PlacesTaken DEF Place, Before
<1>3. s = [n \in 1..N |-> Row(docs, at(n))]
  BY DEF Rows, Row
<1> HIDE DEF at, s
<1>4. s \in [1..N -> S]
  BY <1>2, <1>3
<1>5. s \in Seq(S)
  BY <1>1, <1>4
<1>6. Len(s) = N
  BY <1>1, <1>4, <1>5, LenProperties
<1> QED BY <1>1, <1>5, <1>6 DEF s

\* ... at its place.
LEMMA RowAtPlace ==
  ASSUME NEW docs, NEW q, NEW ids, Ordered(docs, q, ids), NEW i \in ids
  PROVE  /\ Place(docs, q, ids, i) + 1 \in 1..Cardinality(ids)
         /\ Rows(docs, q, ids)[Place(docs, q, ids, i) + 1] = Row(docs, i)
<1> DEFINE N == Cardinality(ids)
           n == Place(docs, q, ids, i) + 1
           at == CHOOSE x \in ids : Cardinality({j \in ids : Precedes(docs, q, j, x)}) = n - 1
<1>1. N \in Nat /\ Place(docs, q, ids, i) \in 0..(N - 1)
  BY PlaceType
<1>2. n \in 1..N /\ n - 1 = Place(docs, q, ids, i)
  BY <1>1
<1>3. Cardinality({j \in ids : Precedes(docs, q, j, i)}) = n - 1
  BY <1>2 DEF Place, Before
<1>4. at \in ids /\ Cardinality({j \in ids : Precedes(docs, q, j, at)}) = n - 1
  BY <1>3
<1>5. Rows(docs, q, ids)[n] = Row(docs, at)
  BY <1>2 DEF Rows, Row
<1> HIDE DEF at, n
<1>6. Place(docs, q, ids, at) = Place(docs, q, ids, i)
  BY <1>3, <1>4 DEF Place, Before
<1>7. at = i
  BY <1>4, <1>6, PlacesDiffer
<1> QED BY <1>2, <1>5, <1>7 DEF n

\* A row is that of the document whose place it stands at.
LEMMA RowIsOfPlace ==
  ASSUME NEW docs, NEW q, NEW ids, Ordered(docs, q, ids), NEW n \in 1..Cardinality(ids)
  PROVE  \E i \in ids : Place(docs, q, ids, i) = n - 1 /\ Rows(docs, q, ids)[n] = Row(docs, i)
<1>1. Cardinality(ids) \in Nat
  BY RowsType
<1>2. PICK i \in ids : Place(docs, q, ids, i) = n - 1
  BY <1>1, PlacesTaken
<1>3. n = Place(docs, q, ids, i) + 1
  BY <1>1, <1>2
<1> QED BY <1>2, <1>3, RowAtPlace
-----------------------------------------------------------------------------
(* What a cursor leaves of the rows.                                       *)

\* Behind the document at row o come those of later places, when no two
\* documents tie: start_after, which compares the ordered field alone, skips
\* the documents up to row o and no others.
LEMMA BeyondIsLater ==
  ASSUME NEW docs, NEW q, NEW ids, Ordered(docs, q, ids), NEW c \in ids, NEW doc,
         doc.id = c, doc.rank = docs[c],
         q.order = "rank" => \A i, j \in ids : docs[i] = docs[j] => i = j
  PROVE  BeyondCursor(docs, q, ids, doc) = {i \in ids : Precedes(docs, q, c, i)}
<1> SUFFICES ASSUME NEW i \in ids
             PROVE  (IF q.order = "rank" THEN docs[i] > doc.rank ELSE i > doc.id)
                      <=> Precedes(docs, q, c, i)
  BY DEF BeyondCursor
<1>1. i \in Nat /\ c \in Nat /\ docs[i] \in Nat /\ docs[c] \in Nat
  BY DEF Ordered
<1>2. CASE q.order = "rank"
  BY <1>1, <1>2 DEF Precedes
<1>3. CASE q.order = "id"
  BY <1>1, <1>3 DEF Precedes
<1> QED BY <1>2, <1>3 DEF Ordered

\* There are o fewer of them, ...
LEMMA LaterCount ==
  ASSUME NEW docs, NEW q, NEW ids, Ordered(docs, q, ids), NEW c \in ids,
         NEW later, later = {i \in ids : Precedes(docs, q, c, i)},
         NEW o \in Nat, o = Place(docs, q, ids, c) + 1
  PROVE  /\ Ordered(docs, q, later)
         /\ Cardinality(later) = Cardinality(ids) - o
<1> DEFINE upto == Before(docs, q, ids, c) \cup {c}
<1>1. IsFiniteSet(ids)
  BY DEF Ordered
<1>2. IsFiniteSet(upto) /\ Cardinality(upto) = o
  <2>1. IsFiniteSet(Before(docs, q, ids, c)) /\ c \notin Before(docs, q, ids, c)
    BY PlaceType, NotBeforeItself DEF Before
  <2> QED BY <2>1, FS_AddElement DEF Place
<1>3. later = ids \ upto /\ ids \cap upto = upto
  <2>1. \A i \in ids : ~(Precedes(docs, q, c, i) /\ Precedes(docs, q, i, c))
    BY BeforeTransitive, NotBeforeItself
  <2> QED BY <2>1, BeforeTotal, NotBeforeItself DEF Before
<1> HIDE DEF upto
<1>4. IsFiniteSet(ids \ upto) /\ Cardinality(ids \ upto) = Cardinality(ids) - Cardinality(ids \cap upto)
  BY <1>1, FS_Difference
<1> QED BY <1>2, <1>3, <1>4 DEF Ordered

\* ... and they keep their order, each moved up by o places.
LEMMA LaterPlaces ==
  ASSUME NEW docs, NEW q, NEW ids, Ordered(docs, q, ids), NEW c \in ids,
         NEW later, later = {i \in ids : Precedes(docs, q, c, i)},
         NEW o \in Nat, o = Place(docs, q, ids, c) + 1, NEW i \in later
  PROVE  Place(docs, q, later, i) = Place(docs, q, ids, i) - o
<1> DEFINE upto == Before(docs, q, ids, c) \cup {c}
           before == Before(docs, q, ids, i)
<1>1. IsFiniteSet(Before(docs, q, ids, c)) /\ c \notin Before(docs, q, ids, c)
  BY PlaceType, NotBeforeItself DEF Before
<1>2. Cardinality(upto) = o
  BY <1>1, FS_AddElement DEF Place
<1>3. i \in ids /\ Precedes(docs, q, c, i)
  OBVIOUS
<1>4. before \cap upto = upto
  BY <1>3, BeforeTransitive DEF Before
<1>5. Before(docs, q, later, i) = before \ upto
  <2>1. \A j \in ids : ~(Precedes(docs, q, c, j) /\ Precedes(docs, q, j, c))
    BY BeforeTransitive, NotBeforeItself
  <2> QED BY <2>1, BeforeTotal, NotBeforeItself DEF Before
<1>6. IsFiniteSet(before)
  BY <1>3, PlaceType
<1> HIDE DEF upto, before
<1>7. Cardinality(before \ upto) = Cardinality(before) - Cardinality(before \cap upto)
  BY <1>6, FS_Difference
<1> QED BY <1>2, <1>4, <1>5, <1>7 DEF Place, before

\* The document that a row is of, and what is behind it.
LEMMA CursorStands ==
  ASSUME NEW docs, NEW q, NEW ids, Ordered(docs, q, ids), NEW doc,
         NEW o \in 1..Cardinality(ids),
         Rows(docs, q, ids)[o] = [id |-> doc.id, rank |-> doc.rank],
         q.order = "rank" => \A i, j \in ids : docs[i] = docs[j] => i = j
  PROVE  /\ o \in Nat
         /\ \E c \in ids : /\ o = Place(docs, q, ids, c) + 1
                           /\ BeyondCursor(docs, q, ids, doc) = {i \in ids : Precedes(docs, q, c, i)}
<1>1. PICK c \in ids : Place(docs, q, ids, c) = o - 1 /\ Rows(docs, q, ids)[o] = Row(docs, c)
  BY RowIsOfPlace
<1>2. doc.id = c /\ doc.rank = docs[c]
  BY <1>1 DEF Row
<1>3. BeyondCursor(docs, q, ids, doc) = {i \in ids : Precedes(docs, q, c, i)}
  BY <1>2, BeyondIsLater
<1>4. Cardinality(ids) \in Nat
  BY RowsType
<1>5. o \in Nat /\ o = Place(docs, q, ids, c) + 1
  BY <1>1, <1>4
<1> QED BY <1>3, <1>5

\* So the rows behind row o are o fewer, ...
LEMMA RowsBehindCount ==
  ASSUME NEW docs, NEW q, NEW ids, Ordered(docs, q, ids), NEW doc,
         NEW o \in 1..Cardinality(ids),
         Rows(docs, q, ids)[o] = [id |-> doc.id, rank |-> doc.rank],
         q.order = "rank" => \A i, j \in ids : docs[i] = docs[j] => i = j
  PROVE  /\ Ordered(docs, q, BeyondCursor(docs, q, ids, doc))
         /\ Cardinality(BeyondCursor(docs, q, ids, doc)) = Cardinality(ids) - o
<1> DEFINE later == BeyondCursor(docs, q, ids, doc)
<1>1. PICK c \in ids : o = Place(docs, q, ids, c) + 1 /\ later = {i \in ids : Precedes(docs, q, c, i)}
  BY CursorStands
<1>2. o \in Nat
  BY CursorStands
<1> HIDE DEF later
<1> QED BY <1>1, <1>2, LaterCount DEF later

\* ... and are the rows from o + 1 on.
LEMMA RowsBehind ==
  ASSUME NEW docs, NEW q, NEW ids, Ordered(docs, q, ids), NEW doc,
         NEW o \in 1..Cardinality(ids),
         Rows(docs, q, ids)[o] = [id |-> doc.id, rank |-> doc.rank],
         q.order = "rank" => \A i, j \in ids : docs[i] = docs[j] => i = j,
         NEW n \in 1..Cardinality(BeyondCursor(docs, q, ids, doc))
  PROVE  Rows(docs, q, BeyondCursor(docs, q, ids, doc))[n] = Rows(docs, q, ids)[o + n]
<1> DEFINE later == BeyondCursor(docs, q, ids, doc)
<1>1. PICK c \in ids : o = Place(docs, q, ids, c) + 1 /\ later = {i \in ids : Precedes(docs, q, c, i)}
  BY CursorStands
<1>2. o \in Nat
  BY CursorStands
<1>3. Ordered(docs, q, later) /\ n \in 1..Cardinality(later)
  BY RowsBehindCount
<1> HIDE DEF later
<1>4. PICK i \in later : Place(docs, q, later, i) = n - 1 /\ Rows(docs, q, later)[n] = Row(docs, i)
  BY <1>3, RowIsOfPlace
<1>5. i \in ids
  BY <1>1
<1>6. Place(docs, q, ids, i) \in Nat
  BY <1>5, PlaceType
<1>7. Place(docs, q, later, i) = Place(docs, q, ids, i) - o
  BY <1>1, <1>2, LaterPlaces
<1>8. n \in Int
  BY <1>3
<1>9. Place(docs, q, ids, i) + 1 = o + n
  BY <1>2, <1>4, <1>6, <1>7, <1>8
<1> QED BY <1>4, <1>5, <1>9, RowAtPlace DEF later
-----------------------------------------------------------------------------
(* Pages.                                                                  *)

\* How many elements a page of n holds.
PageLength(n, skip, limit) ==
  IF n <= skip THEN 0 ELSE IF skip + limit < n THEN limit ELSE n - skip

LEMMA SliceFacts ==
  ASSUME NEW S, NEW s \in Seq(S), NEW skip \in Nat, NEW limit \in Nat
  PROVE  /\ Slice(s, skip, limit) \in Seq(S)
         /\ Len(s) \in Nat
         /\ Len(Slice(s, skip, limit)) = PageLength(Len(s), skip, limit)
<1> DEFINE last == IF skip + limit < Len(s) THEN skip + limit ELSE Len(s)
           t == SubSeq(s, skip + 1, last)
<1>1. Len(s) \in Nat
  BY LenProperties
<1>2. last \in Nat /\ last <= Len(s)
  BY <1>1
<1>3. \A i \in (skip + 1)..last : s[i] \in S
  BY <1>1, <1>2, ElementOfSeq
<1>4. last - (skip + 1) + 1 = last - skip
  BY <1>2
<1>5. PageLength(Len(s), skip, limit) = IF skip + 1 <= last THEN last - skip ELSE 0
  BY <1>1 DEF PageLength
<1> HIDE DEF last
<1>6. /\ t \in Seq(S)
      /\ Len(t) = IF skip + 1 <= last THEN last - (skip + 1) + 1 ELSE 0
  BY <1>2, <1>3, SubSeqProperties
<1> QED BY <1>1, <1>4, <1>5, <1>6 DEF Slice, last

LEMMA SliceElement ==
  ASSUME NEW S, NEW s \in Seq(S), NEW skip \in Nat, NEW limit \in Nat,
         NEW i \in 1..PageLength(Len(s), skip, limit)
  PROVE  Slice(s, skip, limit)[i] = s[skip + i] /\ skip + i \in 1..Len(s)
<1> DEFINE last == IF skip + limit < Len(s) THEN skip + limit ELSE Len(s)
           t == SubSeq(s, skip + 1, last)
<1>1. Len(s) \in Nat
  BY LenProperties
<1>2. last \in Nat /\ last <= Len(s)
  BY <1>1
<1>3. \A j \in (skip + 1)..last : s[j] \in S
  BY <1>1, <1>2, ElementOfSeq
<1>4. i \in 1..(last - (skip + 1) + 1) /\ skip + 1 + i - 1 = skip + i /\ skip + i \in 1..Len(s)
  BY <1>1 DEF PageLength
<1> HIDE DEF last
<1>5. \A j \in 1..(last - (skip + 1) + 1) : t[j] = s[skip + 1 + j - 1]
  BY <1>2, <1>3, SubSeqProperties
<1> QED BY <1>4, <1>5 DEF Slice, last

\* What is behind element o of a sequence.
Behind(t, s, o) == Len(t) = Len(s) - o /\ \A n \in 1..Len(t) : t[n] = s[o + n]

\* A page of what is behind element o is a page, o elements on, of the whole.
LEMMA SliceBehind ==
  ASSUME NEW S, NEW s \in Seq(S), NEW t, NEW T, t \in Seq(T), NEW o \in 0..Len(s),
         Behind(t, s, o),
         NEW skip \in Nat, NEW limit \in Nat, NEW m, m = o + skip
  PROVE  Slice(t, skip, limit) = Slice(s, m, limit)
<1>1. Len(s) \in Nat /\ o \in Nat /\ m \in Nat
  BY LenProperties
<1> DEFINE a == Slice(t, skip, limit)
           b == Slice(s, m, limit)
           N == PageLength(Len(t), skip, limit)
<1>2. N = PageLength(Len(s), m, limit)
  BY <1>1 DEF PageLength, Behind
<1>3. a \in Seq(T) /\ b \in Seq(S) /\ Len(a) = N /\ Len(b) = N
  <2>1. a \in Seq(T) /\ Len(a) = PageLength(Len(t), skip, limit)
    BY SliceFacts
  <2>2. b \in Seq(S) /\ Len(b) = PageLength(Len(s), m, limit)
    BY <1>1, SliceFacts
  <2> QED BY <1>2, <2>1, <2>2
<1>4. ASSUME NEW i \in 1..N
      PROVE  a[i] = b[i]
  <2>1. a[i] = t[skip + i] /\ skip + i \in 1..Len(t)
    BY SliceElement
  <2>2. b[i] = s[m + i]
    BY <1>1, <1>2, SliceElement
  <2>3. o + (skip + i) = m + i
    BY <1>1
  <2> QED BY <2>1, <2>2, <2>3 DEF Behind
<1> HIDE DEF N, a, b
<1>5. a = b
  <2>1. a \in Seq(S \cup T) /\ b \in Seq(S \cup T)
    BY <1>3
  <2> QED BY <1>3, <1>4, <2>1, SeqEqual
<1> QED BY <1>5 DEF a, b
-----------------------------------------------------------------------------
(* Pages of rows.                                                          *)

\* What the matching documents of a collection are.
LEMMA MatchingOrdered ==
  ASSUME NEW docs, DOMAIN docs \subseteq Nat, IsFiniteSet(DOMAIN docs),
         \A i \in DOMAIN docs : docs[i] \in Nat, NEW q, q.order \in {"id", "rank"}
  PROVE  Ordered(docs, q, Matching(docs, q.where))
<1>1. Matching(docs, q.where) \in SUBSET (DOMAIN docs)
  BY DEF Matching
<1> QED BY <1>1, FS_Subset DEF Ordered

\* The page from behind the document at row o, with the rest of the way
\* skipped, is the page that OFFSET and LIMIT give.
LEMMA CursorPageIsOffsetPage ==
  ASSUME NEW docs, NEW q, Ordered(docs, q, Matching(docs, q.where)), TieFree(docs, q),
         NEW doc, NEW o \in 1..Len(Rows(docs, q, Matching(docs, q.where))),
         Rows(docs, q, Matching(docs, q.where))[o] = [id |-> doc.id, rank |-> doc.rank],
         NEW skip \in Nat, NEW limit \in Nat
  PROVE  CursorPage(docs, q, doc, skip, limit) = OffsetPage(docs, q, o + skip, limit)
<1> DEFINE ids == Matching(docs, q.where)
           later == BeyondCursor(docs, q, ids, doc)
           s == Rows(docs, q, ids)
           t == Rows(docs, q, later)
           S == {Row(docs, i) : i \in ids}
           T == {Row(docs, i) : i \in later}
<1>1. s \in Seq(S) /\ Len(s) = Cardinality(ids) /\ Cardinality(ids) \in Nat
  BY RowsType
<1>2. q.order = "rank" => \A i, j \in ids : docs[i] = docs[j] => i = j
  BY DEF TieFree
<1>3. Ordered(docs, q, later) /\ Cardinality(later) = Cardinality(ids) - o
  BY <1>1, <1>2, RowsBehindCount
<1>4. \A n \in 1..Cardinality(later) : t[n] = s[o + n]
  BY <1>1, <1>2, RowsBehind
<1>5. t \in Seq(T) /\ Len(t) = Cardinality(later)
  BY <1>3, RowsType
<1>6. o \in 0..Len(s)
  BY <1>1
<1> HIDE DEF s, t, later, ids, S, T
<1>7. ASSUME NEW m, m = o + skip
      PROVE  Slice(t, skip, limit) = Slice(s, m, limit)
  <2>1. Behind(t, s, o)
    BY <1>1, <1>3, <1>5, <1>4 DEF Behind
  <2>2. s \in Seq(S) /\ t \in Seq(T)
    BY <1>1, <1>5
  <2> QED BY <1>6, <1>7, <2>1, <2>2, SliceBehind
<1> QED BY <1>7 DEF s, t, later, ids, CursorPage, OffsetPage

\* The row that closes a page of OFFSET and LIMIT stands at its place.
LEMMA PageEnd ==
  ASSUME NEW docs, NEW q, Ordered(docs, q, Matching(docs, q.where)),
         NEW offset \in Nat, NEW limit \in Nat,
         OffsetPage(docs, q, offset, limit) # << >>
  PROVE  LET rows == Rows(docs, q, Matching(docs, q.where))
             page == OffsetPage(docs, q, offset, limit)
         IN  /\ offset + Len(page) \in 1..Len(rows)
             /\ page[Len(page)] = rows[offset + Len(page)]
<1> DEFINE ids == Matching(docs, q.where)
           s == Rows(docs, q, ids)
           page == Slice(s, offset, limit)
           N == PageLength(Len(s), offset, limit)
<1>1. s \in Seq({Row(docs, i) : i \in ids})
  BY RowsType
<1> HIDE DEF s
<1>2. page \in Seq({Row(docs, i) : i \in ids}) /\ Len(s) \in Nat /\ Len(page) = N
  BY <1>1, SliceFacts
<1>3. page # << >>
  BY DEF OffsetPage, s
<1>4. N \in Nat \ {0}
  <2>1. N \in Nat
    BY <1>2 DEF PageLength
  <2> QED BY <1>2, <1>3, <2>1, EmptySeq
<1>5. N \in 1..PageLength(Len(s), offset, limit)
  BY <1>4
<1>6. page[N] = s[offset + N] /\ offset + N \in 1..Len(s)
  BY <1>1, <1>5, SliceElement
<1> QED BY <1>2, <1>6 DEF s, OffsetPage

\* The rows of a page are rows of matching documents, and there are finitely many.
LEMMA PageRows ==
  ASSUME NEW docs, NEW q, NEW ids, Ordered(docs, q, ids), NEW skip \in Nat, NEW limit \in Nat
  PROVE  Slice(Rows(docs, q, ids), skip, limit) \in Seq({Row(docs, i) : i \in ids})
<1>1. Rows(docs, q, ids) \in Seq({Row(docs, i) : i \in ids})
  BY RowsType
<1> HIDE DEF Rows
<1> QED BY <1>1, SliceFacts

-----------------------------------------------------------------------------
(* The inductive invariant, beside that of PluginProofs.                   *)

AllRows(docs, q) == Rows(docs, q, Matching(docs, q.where))

\* A cursor for offset o, against the collection as it stands at version v: if
\* read at v and free of ties, it is the document of row o.
CursorStandsAt(x, o, docs, q, v) ==
  /\ IsCursor(x) /\ o \in Nat \ {0} /\ x.asof <= v
  /\ x.asof = v /\ TieFree(docs, q) =>
       o <= Len(AllRows(docs, q)) /\ AllRows(docs, q)[o] = [id |-> x.id, rank |-> x.rank]

\* Likewise the rows of a page.
PageStandsAt(rows, asof, offset, limit, docs, q, v) ==
  /\ rows \in Seq([id : Ids, rank : Ranks]) /\ asof \in Nat /\ asof <= v
  /\ asof = v /\ TieFree(docs, q) => rows = OffsetPage(docs, q, offset, limit)

CursorStandsNow(x, o, q) == CursorStandsAt(x, o, store[q.table], q, version[q.table])
PageStandsNow(rows, asof, offset, limit, q) ==
  PageStandsAt(rows, asof, offset, limit, store[q.table], q, version[q.table])

BoundsInv == now \in 0..MaxTime /\ \A t \in Tables : version[t] <= MaxVersion[t]

CountsTyped == \A k \in CachedKeys(counts) : CachedValue(counts, k) \in CountValue

CursorsPlaced ==
  \A q \in CachedKeys(cursors) : \A o \in DOMAIN CachedValue(cursors, q) :
    CursorStandsNow(CachedValue(cursors, q)[o], o, q)

\* The cursor in hand is that of the offset less what is still to be skipped.
QueryPlaced ==
  req.kind = "query" =>
    /\ req.skip <= req.offset
    /\ req.cursor = None => req.skip = req.offset
    /\ req.cursor # None => CursorStandsNow(req.cursor, req.offset - req.skip, req.q)
    /\ req.data \notin {Pending, Failed} =>
         /\ req.data.state = "ok"
         /\ PageStandsNow(req.data.rows, req.data.asof, req.offset, req.limit, req.q)
    /\ IsCount(req.count)

PagePlaced ==
  reply # None /\ reply.kind = "page" =>
    PageStandsNow(reply.rows, reply.asof, reply.offset, reply.limit, reply.q)

PlacesInv == BoundsInv /\ CountsTyped /\ CursorsPlaced /\ QueryPlaced /\ PagePlaced
-----------------------------------------------------------------------------
(* What stands goes on standing while the database moves forward.          *)

LEMMA CursorStays ==
  ASSUME NEW x, NEW o, NEW docs, NEW next, NEW q, NEW v \in Nat, NEW w \in Nat,
         CursorStandsAt(x, o, docs, q, v), v <= w, w = v => next = docs
  PROVE  CursorStandsAt(x, o, next, q, w)
<1>1. IsCursor(x) /\ x.asof \in Nat /\ o \in Nat \ {0} /\ x.asof <= v
  BY DEF CursorStandsAt, IsCursor
<1>2. x.asof <= w /\ (x.asof = w => w = v)
  BY <1>1
<1>3. CASE w = v
  BY <1>3 DEF CursorStandsAt
<1>4. CASE w # v
  BY <1>1, <1>2, <1>4 DEF CursorStandsAt
<1> QED BY <1>3, <1>4

LEMMA PageStays ==
  ASSUME NEW rows, NEW asof, NEW offset, NEW limit, NEW docs, NEW next, NEW q,
         NEW v \in Nat, NEW w \in Nat,
         PageStandsAt(rows, asof, offset, limit, docs, q, v), v <= w, w = v => next = docs
  PROVE  PageStandsAt(rows, asof, offset, limit, next, q, w)
<1>1. asof \in Nat /\ asof <= v /\ rows \in Seq([id : Ids, rank : Ranks])
  BY DEF PageStandsAt
<1>2. asof <= w /\ (asof = w => w = v)
  BY <1>1
<1>3. CASE w = v
  BY <1>3 DEF PageStandsAt
<1>4. CASE w # v
  BY <1>1, <1>2, <1>4 DEF PageStandsAt
<1> QED BY <1>3, <1>4

\* No collection goes back: its version grows, or it is what it was.
Forward ==
  \A t \in Tables : /\ version[t] \in Nat /\ version'[t] \in Nat /\ version[t] <= version'[t]
                    /\ version'[t] = version[t] => store'[t] = store[t]

LEMMA WriteForward ==
  ASSUME TypedState, BoundsInv, NEW t \in Tables, NEW docs, Write(t, docs)
  PROVE  Forward /\ \A u \in Tables : version'[u] <= MaxVersion[u]
<1>1. /\ store \in [Tables -> Collections] /\ version \in [Tables -> Nat]
      /\ MaxVersion \in [Tables -> Nat]
  BY BoundsAssumption DEF TypedState
<1>2. /\ docs # store[t] => version[t] < MaxVersion[t]
      /\ store' = [store EXCEPT ![t] = docs]
      /\ version' = [version EXCEPT ![t] = IF docs = store[t] THEN @ ELSE @ + 1]
  BY DEF Write
<1>3. \A u \in Tables \ {t} : store'[u] = store[u] /\ version'[u] = version[u]
  BY <1>1, <1>2
<1>4. store'[t] = docs /\ version'[t] = IF docs = store[t] THEN version[t] ELSE version[t] + 1
  BY <1>1, <1>2
<1>5. ASSUME NEW u \in Tables
      PROVE  /\ version[u] \in Nat /\ version'[u] \in Nat /\ version[u] <= version'[u]
             /\ version'[u] = version[u] => store'[u] = store[u]
             /\ version'[u] <= MaxVersion[u]
  <2>1. version[u] \in Nat /\ MaxVersion[u] \in Nat /\ version[u] <= MaxVersion[u]
    BY <1>1 DEF BoundsInv
  <2>2. CASE u = t
    BY <1>2, <1>4, <2>1, <2>2
  <2>3. CASE u # t
    BY <1>3, <2>1, <2>3
  <2> QED BY <2>2, <2>3
<1> QED BY <1>5 DEF Forward

LEMMA CallForward ==
  ASSUME TypedState, BoundsInv, NEW t \in Tables, NEW accepted, NEW docs, NEW out,
         Call(t, accepted, docs, out)
  PROVE  Forward /\ \A u \in Tables : version'[u] <= MaxVersion[u]
<1>1. CASE out = "failed"
  BY <1>1 DEF Call, Forward, TypedState, BoundsInv
<1>2. CASE out # "failed"
  BY <1>2, WriteForward DEF Call
<1> QED BY <1>1, <1>2

LEMMA StillForward ==
  ASSUME TypedState, BoundsInv, UNCHANGED <<store, version>>
  PROVE  Forward /\ \A u \in Tables : version'[u] <= MaxVersion[u]
BY DEF Forward, TypedState, BoundsInv
-----------------------------------------------------------------------------
(* What a step that reads nothing new keeps of the invariant.              *)

KeepsValues(c, d) ==
  \A k \in CachedKeys(d) : k \in CachedKeys(c) /\ CachedValue(d, k) = CachedValue(c, k)

\* The counts and cursors that stay stay what they are.
LEMMA CachesKept ==
  ASSUME IInv, PlacesInv, Forward, KeepsValues(counts, counts'), KeepsValues(cursors, cursors')
  PROVE  CountsTyped' /\ CursorsPlaced'
<1>1. CountsTyped'
  BY DEF PlacesInv, CountsTyped, KeepsValues
<1>2. ASSUME NEW q \in CachedKeys(cursors'), NEW o \in DOMAIN CachedValue(cursors', q)
      PROVE  CursorStandsAt(CachedValue(cursors', q)[o], o, store'[q.table], q, version'[q.table])
  <2>1. q \in CachedKeys(cursors) /\ CachedValue(cursors', q) = CachedValue(cursors, q)
    BY <1>2 DEF KeepsValues
  <2> DEFINE x == CachedValue(cursors, q)[o]
             t == q.table
  <2>2. CursorStandsAt(x, o, store[t], q, version[t])
    BY <1>2, <2>1 DEF PlacesInv, CursorsPlaced, CursorStandsNow
  <2>3. t \in Tables
    BY <2>1, QueriesAssumption DEF IInv, CacheInv, CursorsInv
  <2>4. /\ version[t] \in Nat /\ version'[t] \in Nat /\ version[t] <= version'[t]
        /\ version'[t] = version[t] => store'[t] = store[t]
    BY <2>3 DEF Forward
  <2> HIDE DEF x
  <2>5. CursorStandsAt(x, o, store'[t], q, version'[t])
    BY <2>2, <2>4, CursorStays
  <2> QED BY <2>1, <2>5 DEF x
<1> QED BY <1>1, <1>2 DEF CursorsPlaced, CursorStandsNow

\* The query in hand and the page answered likewise.
LEMMA RequestKept ==
  ASSUME IInv, PlacesInv, Forward, UNCHANGED <<req, reply>>
  PROVE  QueryPlaced' /\ PagePlaced'
<1>1. QueryPlaced'
  <2> SUFFICES ASSUME req.kind = "query"
               PROVE  QueryPlaced'
    BY DEF QueryPlaced
  <2> DEFINE t == req.q.table
  <2>1. t \in Tables
    BY QueriesAssumption DEF IInv, CacheInv, QueryInv
  <2>2. /\ version[t] \in Nat /\ version'[t] \in Nat /\ version[t] <= version'[t]
        /\ version'[t] = version[t] => store'[t] = store[t]
    BY <2>1 DEF Forward
  <2>3. req.cursor # None =>
          CursorStandsAt(req.cursor, req.offset - req.skip, store'[t], req.q, version'[t])
    BY <2>2, CursorStays DEF PlacesInv, QueryPlaced, CursorStandsNow
  <2>4. req.data \notin {Pending, Failed} =>
          PageStandsAt(req.data.rows, req.data.asof, req.offset, req.limit, store'[t], req.q, version'[t])
    BY <2>2, PageStays DEF PlacesInv, QueryPlaced, PageStandsNow
  <2> QED BY <2>3, <2>4 DEF PlacesInv, QueryPlaced, CursorStandsNow, PageStandsNow
<1>2. PagePlaced'
  <2> SUFFICES ASSUME reply # None, reply.kind = "page"
               PROVE  PagePlaced'
    BY DEF PagePlaced
  <2> DEFINE t == reply.q.table
  <2>1. t \in Tables
    BY QueriesAssumption DEF IInv, CacheInv, PageInv
  <2>2. /\ version[t] \in Nat /\ version'[t] \in Nat /\ version[t] <= version'[t]
        /\ version'[t] = version[t] => store'[t] = store[t]
    BY <2>1 DEF Forward
  <2>3. PageStandsAt(reply.rows, reply.asof, reply.offset, reply.limit, store'[t], reply.q, version'[t])
    BY <2>2, PageStays DEF PlacesInv, PagePlaced, PageStandsNow
  <2> QED BY <2>3 DEF PagePlaced, PageStandsNow
<1> QED BY <1>1, <1>2

\* When no query is in hand and no page is answered there is nothing to say.
LEMMA NoQueryNoPage ==
  ASSUME req'.kind # "query", reply' = None \/ reply'.kind # "page"
  PROVE  QueryPlaced' /\ PagePlaced'
BY DEF QueryPlaced, PagePlaced
-----------------------------------------------------------------------------
(* Steps of writes, of others, and of time.                                *)

\* How a write ends takes away from the caches and answers no page.
LEMMA ConcludeKeeps ==
  ASSUME NEW r, NEW out, Conclude(r, out)
  PROVE  /\ KeepsValues(counts, counts') /\ KeepsValues(cursors, cursors')
         /\ req'.kind # "query" /\ reply'.kind # "page"
<1>1. KeepsValues(counts, counts') /\ KeepsValues(cursors, cursors')
  BY RemoveAllKeepsValues DEF Conclude, InvalidateTable, KeepsValues
<1>2. req'.kind # "query" /\ reply'.kind # "page"
  BY DEF Conclude, Answer, Idle, Done, GaveUp
<1> QED BY <1>1, <1>2

LEMMA SingleWriteKeeps ==
  ASSUME IInv, PlacesInv, InsertRecord \/ UpdateRecord \/ DeleteRecord
  PROVE  PlacesInv'
<1>1. TypedState /\ BoundsInv
  BY DEF IInv, PlacesInv
<1>2. PICK r, out, accepted, docs :
        Call(req.table, accepted, docs, out) /\ Conclude(r, out)
  BY DEF InsertRecord, UpdateRecord, DeleteRecord, CallCreate, CallUpdate, CallDelete
<1>3. req.table \in Tables /\ UNCHANGED now
  BY DEF InsertRecord, UpdateRecord, DeleteRecord, IInv, WriteInv, RequestInv, SingleWrites
<1>4. Forward /\ BoundsInv'
  BY <1>1, <1>2, <1>3, CallForward DEF BoundsInv
<1> QED BY <1>2, <1>4, ConcludeKeeps, CachesKept, NoQueryNoPage DEF PlacesInv

LEMMA RenameKeeps ==
  ASSUME IInv, PlacesInv, RenameGet \/ RenameCheck \/ RenameCreate \/ RenameDelete
  PROVE  PlacesInv'
<1>1. TypedState /\ BoundsInv
  BY DEF IInv, PlacesInv
<1>2. req.kind = "rename" /\ req \in Renames /\ req.table \in Tables /\ reply = None /\ UNCHANGED now
  BY RenameFacts DEF RenameGet, RenameCheck, RenameCreate, RenameDelete
<1>3. Forward /\ BoundsInv'
  <2>1. CASE RenameGet \/ RenameCheck
    BY <1>1, <1>2, <2>1, StillForward DEF RenameGet, RenameCheck, BoundsInv, history
  <2>2. CASE RenameCreate \/ RenameDelete
    <3>1. \E out, accepted, docs : Call(req.table, accepted, docs, out)
      BY <2>2 DEF RenameCreate, RenameDelete, CallCreate, CallDelete
    <3> QED BY <1>1, <1>2, <3>1, CallForward DEF BoundsInv
  <2> QED BY <2>1, <2>2
<1>4. /\ KeepsValues(counts, counts') /\ KeepsValues(cursors, cursors')
      /\ req'.kind # "query" /\ (reply' = None \/ reply'.kind # "page")
  <2>1. CASE RenameDelete
    BY <2>1, ConcludeKeeps DEF RenameDelete
  <2>2. CASE RenameGet \/ RenameCheck \/ RenameCreate
    <3>1. UNCHANGED <<counts, cursors>>
      BY <2>2 DEF RenameGet, RenameCheck, RenameCreate
    <3>2. Answer(GaveUp(req)) \/ (req'.kind = "rename" /\ UNCHANGED reply)
      BY <1>2, <2>2 DEF RenameGet, RenameCheck, RenameCreate, Renames
    <3> QED BY <1>2, <3>1, <3>2 DEF KeepsValues, Answer, GaveUp, Idle
  <2> QED BY <1>2, <2>1, <2>2 DEF RenameGet, RenameCheck, RenameCreate, RenameDelete
<1> QED BY <1>3, <1>4, CachesKept, NoQueryNoPage DEF PlacesInv

LEMMA StartWriteKeeps ==
  ASSUME IInv, PlacesInv, RejectQuery \/ RejectWrite \/ \E c \in Commands : StartWrite(c)
  PROVE  PlacesInv'
<1>1. UNCHANGED <<store, counts, cursors, now, version>>
  BY DEF RejectQuery, RejectWrite, StartWrite, history
<1>2. Forward /\ BoundsInv'
  BY <1>1, StillForward DEF IInv, PlacesInv, BoundsInv
<1>3. req'.kind # "query" /\ (reply' = None \/ reply'.kind # "page")
  <2>1. CASE RejectQuery \/ RejectWrite
    BY <2>1 DEF RejectQuery, RejectWrite, Answer, Error, Idle
  <2>2. ASSUME NEW c \in Commands, StartWrite(c)
        PROVE  req'.kind # "query" /\ (reply' = None \/ reply'.kind # "page")
    <3>1. c \in WriteCommands
      BY CommandsAssumption
    <3>2. CASE c.kind = "rename" /\ c.new = c.id
      BY <2>2, <3>2 DEF StartWrite, Answer, Idle, Done
    <3>3. CASE c.kind = "rename" /\ c.new # c.id
      <4>1. req' = [c EXCEPT !.stage = "get"] /\ reply' = None
        BY <2>2, <3>3 DEF StartWrite
      <4>2. c \in [kind : {"rename"}, table : Tables, id : Ids, new : Ids, rank : {None}, stage : {None}]
        BY <3>1, <3>3 DEF WriteCommands
      <4> QED BY <4>1, <4>2
    <3>4. CASE c.kind # "rename"
      <4>1. req' = c /\ reply' = None
        BY <2>2, <3>4 DEF StartWrite
      <4>2. c.kind \in {"insert", "update", "delete"}
        BY <3>1, <3>4 DEF WriteCommands
      <4> QED BY <4>1, <4>2
    <3> QED BY <3>2, <3>3, <3>4
  <2> QED BY <2>1, <2>2
<1>4. KeepsValues(counts, counts') /\ KeepsValues(cursors, cursors')
  BY <1>1 DEF KeepsValues
<1> QED BY <1>2, <1>3, <1>4, CachesKept, NoQueryNoPage DEF PlacesInv

LEMMA OthersKeep ==
  ASSUME IInv, PlacesInv, (\E t \in Tables : ForeignWrite(t)) \/ Tick \/ UNCHANGED vars
  PROVE  PlacesInv'
<1>1. TypedState /\ BoundsInv
  BY DEF IInv, PlacesInv
<1>2. UNCHANGED <<counts, cursors, req, reply>>
  BY DEF ForeignWrite, Tick, vars
<1>3. Forward /\ BoundsInv'
  <2>1. CASE \E t \in Tables : ForeignWrite(t)
    <3>1. PICK t \in Tables : ForeignWrite(t)
      BY <2>1
    <3>2. PICK docs : Write(t, docs) /\ UNCHANGED now
      BY <3>1 DEF ForeignWrite
    <3> QED BY <1>1, <3>2, WriteForward DEF BoundsInv
  <2>2. CASE Tick
    <3>1. now' \in 0..MaxTime
      BY <1>1, <2>2, BoundsAssumption DEF Tick, BoundsInv
    <3> QED BY <1>1, <2>2, <3>1, StillForward DEF Tick, BoundsInv, history
  <2>3. CASE UNCHANGED vars
    BY <1>1, <2>3, StillForward DEF vars, history, BoundsInv
  <2> QED BY <2>1, <2>2, <2>3
<1>4. KeepsValues(counts, counts') /\ KeepsValues(cursors, cursors')
  BY <1>2 DEF KeepsValues
<1> QED BY <1>2, <1>3, <1>4, CachesKept, RequestKept DEF PlacesInv
-----------------------------------------------------------------------------
(* Steps of a query.                                                       *)

\* What the database holds of a table can be put in the order of a query, and
\* its rows are rows.
LEMMA StoreOrdered ==
  ASSUME TypedState, NEW q \in Queries, NEW ids \in SUBSET (DOMAIN store[q.table])
  PROVE  /\ Ordered(store[q.table], q, ids)
         /\ {Row(store[q.table], i) : i \in ids} \subseteq [id : Ids, rank : Ranks]
         /\ ids \in SUBSET Ids
<1> DEFINE docs == store[q.table]
<1>1. docs \in Collections /\ q.order \in {"id", "rank"}
  BY QueriesAssumption DEF TypedState
<1>2. PICK D \in SUBSET Ids : docs \in [D -> Ranks]
  BY <1>1 DEF Collections
<1>3. ids \in SUBSET Ids /\ IsFiniteSet(ids) /\ \A i \in ids : docs[i] \in Ranks
  <2>1. ids \in SUBSET D
    BY <1>2
  <2>2. ids \in SUBSET Ids
    BY <2>1
  <2> QED BY <1>2, <2>1, <2>2, FS_Subset, IdsAssumption
<1>4. Ordered(docs, q, ids)
  BY <1>1, <1>3, IdsAssumption DEF Ordered
<1>5. {Row(docs, i) : i \in ids} \subseteq [id : Ids, rank : Ranks]
  BY <1>3 DEF Row
<1> QED BY <1>3, <1>4, <1>5

\* The cursors an entry knows stand where they should.
LEMMA KnownStand ==
  ASSUME IInv, PlacesInv, NEW q \in Queries, NEW o \in DOMAIN KnownCursors(cursors, q)
  PROVE  CursorStandsNow(KnownCursors(cursors, q)[o], o, q)
<1>1. CASE CacheHits(cursors, QueryKey(q), now, CursorTtl)
  <2>1. q \in CachedKeys(cursors) /\ KnownCursors(cursors, q) = CachedValue(cursors, q)
    BY <1>1 DEF CacheHits, QueryKey, KnownCursors, CachedValue
  <2> QED BY <2>1 DEF PlacesInv, CursorsPlaced
<1>2. CASE ~CacheHits(cursors, QueryKey(q), now, CursorTtl)
  BY <1>2 DEF KnownCursors
<1> QED BY <1>1, <1>2

LEMMA StartQueryKeeps ==
  ASSUME IInv, PlacesInv, NEW q \in Queries, NEW p \in Pagings, StartQuery(q, p)
  PROVE  PlacesInv'
<1> DEFINE limit == EffectiveLimit(p)
           offset == EffectiveOffset(p)
           known == KnownCursors(cursors, q)
           cursor == IF offset > 0 THEN CursorFor(known, offset) ELSE None
           doc == IF cursor = None THEN None ELSE cursor.doc
           cached == CacheHits(counts, CountKey(q), now, CountTtl)
           skip == IF cursor = None THEN offset ELSE offset - cursor.at
           count == IF cached THEN counts.entries[CountKey(q)].value
                    ELSE IF offset = 0 THEN Pending ELSE None
<1>1. /\ req' = [kind |-> "query", q |-> q, paging |-> p, limit |-> limit, offset |-> offset,
                 cursor |-> doc, skip |-> skip, data |-> Pending, count |-> count]
      /\ reply' = None /\ UNCHANGED <<store, now, version>>
      /\ counts' = CacheAfterGet(counts, CountKey(q), now, CountTtl)
      /\ cursors' \in {cursors, CacheAfterGet(cursors, QueryKey(q), now, CursorTtl)}
  BY DEF StartQuery
<1>2. offset \in Nat
  BY PagingFacts
<1>3. cursor # None => /\ CursorStandsNow(cursor.doc, cursor.at, q)
                       /\ cursor.at \in Nat /\ cursor.at <= offset
  <2> SUFFICES ASSUME cursor # None
               PROVE  /\ CursorStandsNow(cursor.doc, cursor.at, q)
                      /\ cursor.at \in Nat /\ cursor.at <= offset
    OBVIOUS
  <2>1. DOMAIN known \subseteq Nat
    BY KnownCursorsFacts DEF IInv, CacheInv, KnownSince
  <2>2. cursor = CursorFor(known, offset)
    OBVIOUS
  <2> HIDE DEF offset, known, cursor
  <2>3. PICK o \in DOMAIN known : o <= offset /\ cursor.at = o /\ cursor.doc = known[o]
    BY <1>2, <2>1, <2>2, CursorForFacts
  <2>4. CursorStandsNow(known[o], o, q)
    BY KnownStand DEF known
  <2> QED BY <2>1, <2>3, <2>4
<1> HIDE DEF cursor, offset
<1>4. /\ skip <= offset
      /\ doc = None => skip = offset
      /\ doc # None => CursorStandsNow(doc, offset - skip, q)
  <2>1. CASE cursor = None
    BY <1>2, <2>1
  <2>2. CASE cursor # None
    <3>1. IsCursor(cursor.doc)
      BY <1>3, <2>2 DEF CursorStandsNow, CursorStandsAt
    <3>2. doc = cursor.doc /\ doc # None
      BY <2>2, <3>1, NoneAssumption DEF IsCursor
    <3>3. skip <= offset /\ offset - skip = cursor.at
      BY <1>2, <1>3, <2>2
    <3> QED BY <1>3, <2>2, <3>2, <3>3
  <2> QED BY <2>1, <2>2
<1>5. IsCount(count)
  BY DEF PlacesInv, CountsTyped, CacheHits, CountKey, CachedValue, IsCount
<1> HIDE DEF skip, count, doc, limit
<1>6. QueryPlaced'
  BY <1>1, <1>4, <1>5 DEF QueryPlaced, CursorStandsNow, Pending
<1>7. PagePlaced'
  BY <1>1 DEF PagePlaced
<1>8. Forward /\ BoundsInv'
  BY <1>1, StillForward DEF IInv, PlacesInv, BoundsInv
<1>9. KeepsValues(counts, counts') /\ KeepsValues(cursors, cursors')
  BY <1>1, GetKeepsValues DEF KeepsValues
<1> QED BY <1>6, <1>7, <1>8, <1>9, CachesKept DEF PlacesInv

\* What the data query brings, from the start or from the cursor in hand, is
\* the page that OFFSET and LIMIT give.
LEMMA FetchedPage ==
  ASSUME IInv, PlacesInv, req.kind = "query"
  PROVE  LET t == req.q.table
         IN  /\ req.cursor = None =>
                  PageStandsNow(OffsetPage(store[t], req.q, req.skip, req.limit), version[t],
                                req.offset, req.limit, req.q)
             /\ req.cursor # None =>
                  PageStandsNow(CursorPage(store[t], req.q, req.cursor, req.skip, req.limit),
                                req.cursor.asof, req.offset, req.limit, req.q)
<1> DEFINE q == req.q
           t == q.table
           docs == store[t]
           ids == Matching(docs, q.where)
           Records == [id : Ids, rank : Ranks]
           doc == req.cursor
           o == req.offset - req.skip
<1>1. q \in Queries /\ t \in Tables /\ version[t] \in Nat /\ q.order \in {"id", "rank"}
  BY QueriesAssumption DEF IInv, CacheInv, QueryInv, TypedState
<1>2. req.limit \in Nat /\ req.offset \in Nat /\ req.skip \in Nat /\ req.skip <= req.offset
  BY DEF IInv, CacheInv, QueryInv, PlacesInv, QueryPlaced
<1>3. ids \in SUBSET (DOMAIN docs)
  BY DEF Matching
<1>4. Ordered(docs, q, ids)
  BY <1>1, <1>3, StoreOrdered DEF IInv
<1>5. ASSUME NEW some \in SUBSET (DOMAIN docs)
      PROVE  Slice(Rows(docs, q, some), req.skip, req.limit) \in Seq(Records)
  <2>1. Ordered(docs, q, some) /\ {Row(docs, i) : i \in some} \subseteq Records
    BY <1>1, StoreOrdered DEF IInv
  <2> HIDE DEF docs, q
  <2>2. Slice(Rows(docs, q, some), req.skip, req.limit) \in Seq({Row(docs, i) : i \in some})
    BY <1>2, <2>1, PageRows
  <2> QED BY <2>1, <2>2, SeqMonotonic
<1>6. ASSUME req.cursor = None
      PROVE  PageStandsNow(OffsetPage(docs, q, req.skip, req.limit), version[t],
                           req.offset, req.limit, q)
  <2>1. req.skip = req.offset
    BY <1>6 DEF PlacesInv, QueryPlaced
  <2>2. OffsetPage(docs, q, req.skip, req.limit) \in Seq(Records)
    BY <1>3, <1>5 DEF OffsetPage
  <2> QED BY <1>1, <2>1, <2>2 DEF PageStandsNow, PageStandsAt
<1>7. ASSUME req.cursor # None
      PROVE  PageStandsNow(CursorPage(docs, q, doc, req.skip, req.limit), doc.asof,
                           req.offset, req.limit, q)
  <2>1. CursorStandsAt(doc, o, docs, q, version[t])
    BY <1>7 DEF PlacesInv, QueryPlaced, CursorStandsNow
  <2>2. doc.asof \in Nat /\ doc.asof <= version[t] /\ o \in Nat \ {0}
    BY <2>1 DEF CursorStandsAt, IsCursor
  <2>3. BeyondCursor(docs, q, ids, doc) \in SUBSET (DOMAIN docs)
    BY <1>3 DEF BeyondCursor
  <2>4. CursorPage(docs, q, doc, req.skip, req.limit) \in Seq(Records)
    BY <1>5, <2>3 DEF CursorPage
  <2>5. ASSUME doc.asof = version[t], TieFree(docs, q)
        PROVE  CursorPage(docs, q, doc, req.skip, req.limit)
                 = OffsetPage(docs, q, req.offset, req.limit)
    <3>1. o <= Len(AllRows(docs, q)) /\ AllRows(docs, q)[o] = [id |-> doc.id, rank |-> doc.rank]
      BY <2>1, <2>5 DEF CursorStandsAt
    <3>2. Len(AllRows(docs, q)) \in Nat
      BY <1>4, RowsType DEF AllRows
    <3>3. o \in 1..Len(Rows(docs, q, Matching(docs, q.where)))
      BY <2>2, <3>1, <3>2 DEF AllRows
    <3>4. o + req.skip = req.offset
      BY <1>2
    <3> HIDE DEF docs, q, o
    <3>5. CursorPage(docs, q, doc, req.skip, req.limit) = OffsetPage(docs, q, o + req.skip, req.limit)
      BY <1>2, <1>4, <2>5, <3>1, <3>3, CursorPageIsOffsetPage DEF AllRows
    <3> QED BY <3>4, <3>5
  <2> QED BY <2>2, <2>4, <2>5 DEF PageStandsNow, PageStandsAt
<1> QED BY <1>6, <1>7

LEMMA FetchDataKeeps ==
  ASSUME IInv, PlacesInv, FetchData
  PROVE  PlacesInv'
<1> DEFINE t == req.q.table
           rows == IF req.cursor = None
                     THEN OffsetPage(store[t], req.q, req.skip, req.limit)
                     ELSE CursorPage(store[t], req.q, req.cursor, req.skip, req.limit)
           asof == IF req.cursor = None THEN version[t] ELSE req.cursor.asof
           ok == [state |-> "ok", rows |-> rows, asof |-> asof]
<1>1. /\ req.kind = "query" /\ req.data = Pending
      /\ \E data \in {ok, Failed} : req' = [req EXCEPT !.data = data]
      /\ UNCHANGED <<store, counts, cursors, now, reply, version, acked, foreign>>
  BY DEF FetchData, history
<1>2. PageStandsNow(rows, asof, req.offset, req.limit, req.q)
  BY <1>1, FetchedPage
<1> HIDE DEF rows, asof
<1>3. PICK data \in {ok, Failed} : req' = [req EXCEPT !.data = data]
  BY <1>1
<1>4. data # Failed =>
        data.state = "ok" /\ PageStandsNow(data.rows, data.asof, req.offset, req.limit, req.q)
  BY <1>2, <1>3
<1> HIDE DEF ok
<1>5. DOMAIN req = QueryFields
  BY <1>1 DEF IInv, CacheInv, QueryInv
<1>6. /\ req'.data = data
      /\ req'.kind = req.kind /\ req'.q = req.q /\ req'.limit = req.limit /\ req'.count = req.count
      /\ req'.offset = req.offset /\ req'.skip = req.skip /\ req'.cursor = req.cursor
  BY <1>3, <1>5 DEF QueryFields
<1>7. QueryPlaced'
  BY <1>1, <1>4, <1>6 DEF PlacesInv, QueryPlaced, CursorStandsNow, PageStandsNow
<1>8. PagePlaced'
  BY <1>1 DEF PlacesInv, PagePlaced, PageStandsNow
<1>9. Forward /\ BoundsInv'
  BY <1>1, StillForward DEF IInv, PlacesInv, BoundsInv
<1> QED BY <1>1, <1>7, <1>8, <1>9, CachesKept DEF PlacesInv, KeepsValues

\* A COUNT is a number of documents.
LEMMA FetchCountKeeps ==
  ASSUME IInv, PlacesInv, FetchCount
  PROVE  PlacesInv'
<1> DEFINE t == req.q.table
           n == [n |-> CountOf(store[t], req.q.where), asof |-> version[t]]
<1>1. /\ req.kind = "query" /\ req.count = Pending
      /\ \E count \in {n, Failed, None} : req' = [req EXCEPT !.count = count]
      /\ UNCHANGED <<store, counts, cursors, now, reply, version, acked, foreign>>
  BY DEF FetchCount, history
<1>2. n \in CountValue
  <2>1. req.q \in Queries /\ version[t] \in Nat
    BY <1>1, QueriesAssumption DEF IInv, CacheInv, QueryInv, TypedState
  <2>2. Matching(store[t], req.q.where) \in SUBSET (DOMAIN store[t])
    BY DEF Matching
  <2>3. Matching(store[t], req.q.where) \in SUBSET Ids
    BY <2>1, <2>2, StoreOrdered DEF IInv
  <2>4. IsFiniteSet(Matching(store[t], req.q.where)) /\ Cardinality(Ids) \in Nat
        /\ CountOf(store[t], req.q.where) <= Cardinality(Ids)
    BY <2>3, FS_Subset, FS_CardinalityType, IdsAssumption DEF CountOf
  <2>5. CountOf(store[t], req.q.where) \in Nat
    BY <2>4, FS_CardinalityType DEF CountOf
  <2> QED BY <2>1, <2>4, <2>5 DEF CountValue
<1>3. PICK count \in {n, Failed, None} : req' = [req EXCEPT !.count = count]
  BY <1>1
<1>4. IsCount(count)
  BY <1>2, <1>3 DEF IsCount
<1> HIDE DEF n
<1>5. DOMAIN req = QueryFields
  BY <1>1 DEF IInv, CacheInv, QueryInv
<1>6. /\ req'.count = count
      /\ req'.kind = req.kind /\ req'.q = req.q /\ req'.limit = req.limit /\ req'.data = req.data
      /\ req'.offset = req.offset /\ req'.skip = req.skip /\ req'.cursor = req.cursor
  BY <1>3, <1>5 DEF QueryFields
<1>7. QueryPlaced'
  BY <1>1, <1>4, <1>6 DEF PlacesInv, QueryPlaced, CursorStandsNow, PageStandsNow
<1>8. PagePlaced'
  BY <1>1 DEF PlacesInv, PagePlaced, PageStandsNow
<1>9. Forward /\ BoundsInv'
  BY <1>1, StillForward DEF IInv, PlacesInv, BoundsInv
<1> QED BY <1>1, <1>7, <1>8, <1>9, CachesKept DEF PlacesInv, KeepsValues

LEMMA FailQueryKeeps ==
  ASSUME IInv, PlacesInv, FailQuery
  PROVE  PlacesInv'
<1>1. UNCHANGED <<store, counts, cursors, now, version>>
  BY DEF FailQuery, history
<1>2. Forward /\ BoundsInv'
  BY <1>1, StillForward DEF IInv, PlacesInv, BoundsInv
<1>3. req'.kind # "query" /\ reply'.kind # "page"
  BY DEF FailQuery, Answer, Error, Idle
<1> QED BY <1>1, <1>2, <1>3, CachesKept, NoQueryNoPage DEF PlacesInv, KeepsValues

\* The document closing a page stands at the end of it.
LEMMA LastRowStands ==
  ASSUME IInv, PlacesInv, req.kind = "query", req.data \notin {Pending, Failed},
         req.data.rows # << >>
  PROVE  LET last == LastRow(req.data.rows)
         IN  CursorStandsNow([id |-> last.id, rank |-> last.rank, asof |-> req.data.asof],
                             req.offset + Len(req.data.rows), req.q)
<1> DEFINE q == req.q
           t == q.table
           docs == store[t]
           rows == req.data.rows
           asof == req.data.asof
           last == LastRow(rows)
           next == req.offset + Len(rows)
           doc == [id |-> last.id, rank |-> last.rank, asof |-> asof]
<1>1. /\ q \in Queries /\ t \in Tables
      /\ req.limit \in Nat /\ req.offset \in Nat
  BY QueriesAssumption DEF IInv, CacheInv, QueryInv
<1>2. PageStandsAt(rows, asof, req.offset, req.limit, docs, q, version[t])
  BY DEF PlacesInv, QueryPlaced, PageStandsNow
<1>3. rows \in Seq([id : Ids, rank : Ranks]) /\ asof \in Nat /\ asof <= version[t]
  BY <1>2 DEF PageStandsAt
<1>4. Len(rows) \in Nat \ {0}
  BY <1>3, LenProperties, EmptySeq
<1>5. last \in [id : Ids, rank : Ranks]
  <2> DEFINE Records == [id : Ids, rank : Ranks]
  <2>1. rows \in Seq(Records) /\ Len(rows) \in 1..Len(rows)
    BY <1>3, <1>4
  <2> HIDE DEF Records, rows
  <2>2. rows[Len(rows)] \in Records
    BY <2>1, ElementOfSeq
  <2> QED BY <2>2 DEF LastRow, Records
<1>6. IsCursor(doc) /\ next \in Nat \ {0}
  <2> HIDE DEF last, rows, asof
  <2>1. IsCursor(doc)
    BY <1>3, <1>5 DEF IsCursor
  <2>2. next \in Nat \ {0}
    BY <1>1, <1>4
  <2> QED BY <2>1, <2>2
<1>7. ASSUME asof = version[t], TieFree(docs, q)
      PROVE  next <= Len(AllRows(docs, q)) /\ AllRows(docs, q)[next] = last
  <2>1. rows = OffsetPage(docs, q, req.offset, req.limit)
    BY <1>2, <1>7 DEF PageStandsAt
  <2>2. Matching(docs, q.where) \in SUBSET (DOMAIN docs)
    BY DEF Matching
  <2>3. Ordered(docs, q, Matching(docs, q.where))
    BY <1>1, <2>2, StoreOrdered DEF IInv
  <2> HIDE DEF docs, q
  <2>4. /\ next \in 1..Len(AllRows(docs, q))
        /\ rows[Len(rows)] = AllRows(docs, q)[next]
    BY <1>1, <2>1, <2>3, PageEnd DEF AllRows
  <2>5. Len(AllRows(docs, q)) \in Nat
    BY <2>3, RowsType DEF AllRows
  <2> QED BY <2>4, <2>5 DEF LastRow
<1>8. last = [id |-> last.id, rank |-> last.rank]
  BY <1>5
<1> HIDE DEF last, next, rows, asof
<1>9. doc.id = last.id /\ doc.rank = last.rank /\ doc.asof = asof
  OBVIOUS
<1> QED BY <1>3, <1>6, <1>7, <1>8, <1>9 DEF CursorStandsNow, CursorStandsAt, last, next, rows, asof

\* An entry with such a cursor added holds cursors that stand.
LEMMA RememberedStand ==
  ASSUME IInv, PlacesInv, NEW q \in Queries, NEW offset, NEW data,
         CursorStandsNow([id |-> LastRow(data.rows).id, rank |-> LastRow(data.rows).rank,
                          asof |-> data.asof], offset + Len(data.rows), q),
         RememberCursor(q, offset, data), UNCHANGED <<store, version>>
  PROVE  CursorsPlaced'
<1> DEFINE last == LastRow(data.rows)
           next == offset + Len(data.rows)
           known == KnownCursors(cursors, q)
           doc == [id |-> last.id, rank |-> last.rank, asof |-> data.asof]
           more == [o \in DOMAIN known \cup {next} |-> IF o = next THEN doc ELSE known[o]]
           looked == CacheAfterGet(cursors, QueryKey(q), now, CursorTtl)
<1>1. cursors' = CacheInsert(looked, QueryKey(q), more, now, CursorCapacity)
  BY DEF RememberCursor
<1>2. \A o \in DOMAIN known : CursorStandsNow(known[o], o, q)
  BY KnownStand
<1>3. CursorStandsNow(doc, next, q)
  OBVIOUS
<1> HIDE DEF known, doc, next
<1>4. \A o \in DOMAIN more : CursorStandsNow(more[o], o, q)
  BY <1>2, <1>3
<1> HIDE DEF more
<1>5. \A j \in CachedKeys(looked) :
        j \in CachedKeys(cursors) /\ CachedValue(looked, j) = CachedValue(cursors, j)
  BY GetKeepsValues
<1> HIDE DEF looked
<1>6. ASSUME NEW j \in CachedKeys(cursors'), NEW o \in DOMAIN CachedValue(cursors', j)
      PROVE  CursorStandsNow(CachedValue(cursors', j)[o], o, j)
  <2>1. \/ j = QueryKey(q) /\ CachedValue(cursors', j) = more
        \/ j \in CachedKeys(looked) /\ CachedValue(cursors', j) = CachedValue(looked, j)
    BY <1>1, <1>6, InsertKeepsValues
  <2>2. CASE j = QueryKey(q) /\ CachedValue(cursors', j) = more
    BY <1>4, <1>6, <2>2 DEF QueryKey
  <2>3. CASE j \in CachedKeys(looked) /\ CachedValue(cursors', j) = CachedValue(looked, j)
    BY <1>5, <1>6, <2>3 DEF PlacesInv, CursorsPlaced
  <2> QED BY <2>1, <2>2, <2>3
<1> QED BY <1>6 DEF CursorsPlaced, CursorStandsNow

LEMMA AnswerQueryKeeps ==
  ASSUME IInv, PlacesInv, AnswerQuery
  PROVE  PlacesInv'
<1> DEFINE data == req.data
           count == CountInHand(req.count, data)
           total == IF count = None THEN Len(data.rows) ELSE count.n
<1>1. /\ req.kind = "query" /\ data \notin {Pending, Failed} /\ req.count # Pending
      /\ IF data.rows = << >> THEN UNCHANGED cursors ELSE RememberCursor(req.q, req.offset, data)
      /\ counts' = IF count = None THEN counts
                   ELSE CacheInsert(counts, CountKey(req.q), count, now, CountCapacity)
      /\ reply' = [kind |-> "page", q |-> req.q, paging |-> req.paging,
                   limit |-> req.limit, offset |-> req.offset,
                   rows |-> data.rows, asof |-> data.asof, total |-> total]
      /\ req' = Idle
      /\ UNCHANGED <<store, now, version>>
  BY DEF AnswerQuery, BothBack, Answer, history
<1>2. req.q \in Queries
  BY <1>1 DEF IInv, CacheInv, QueryInv
<1>3. CursorsPlaced'
  <2>1. CASE data.rows = << >>
    BY <1>1, <2>1 DEF PlacesInv, CursorsPlaced, CursorStandsNow
  <2>2. CASE data.rows # << >>
    BY <1>1, <1>2, <2>2, LastRowStands, RememberedStand
  <2> QED BY <2>1, <2>2
<1>4. CountsTyped'
  <2>1. count = None \/ count \in CountValue
    BY <1>1 DEF PlacesInv, QueryPlaced, IsCount, CountInHand
  <2> HIDE DEF count
  <2>2. ASSUME NEW k \in CachedKeys(counts')
        PROVE  CachedValue(counts', k) \in CountValue
    <3>1. CASE count = None
      BY <1>1, <2>2, <3>1 DEF PlacesInv, CountsTyped
    <3>2. CASE count # None
      <4>1. \/ CachedValue(counts', k) = count
            \/ k \in CachedKeys(counts) /\ CachedValue(counts', k) = CachedValue(counts, k)
        BY <1>1, <2>2, <3>2, InsertKeepsValues
      <4> QED BY <2>1, <3>2, <4>1 DEF PlacesInv, CountsTyped
    <3> QED BY <3>1, <3>2
  <2> QED BY <2>2 DEF CountsTyped
<1>5. PagePlaced'
  <2>1. PageStandsNow(data.rows, data.asof, req.offset, req.limit, req.q)
    BY <1>1 DEF PlacesInv, QueryPlaced
  <2> HIDE DEF total
  <2> QED BY <1>1, <2>1 DEF PagePlaced, PageStandsNow
<1>6. QueryPlaced'
  BY <1>1 DEF QueryPlaced, Idle
<1>7. BoundsInv'
  BY <1>1 DEF PlacesInv, BoundsInv
<1> QED BY <1>3, <1>4, <1>5, <1>6, <1>7 DEF PlacesInv
-----------------------------------------------------------------------------
LEMMA InitPlaces == Init => PlacesInv
<1> SUFFICES ASSUME Init PROVE PlacesInv
  OBVIOUS
<1> USE DEF Init, InitState
<1>1. BoundsInv
  BY BoundsAssumption DEF BoundsInv
<1>2. CachedKeys(counts) = {} /\ CachedKeys(cursors) = {}
  BY DEF CachedKeys, EmptyCache
<1> QED BY <1>1, <1>2 DEF PlacesInv, CountsTyped, CursorsPlaced, QueryPlaced, PagePlaced, Idle

LEMMA NextPlaces == IInv /\ PlacesInv /\ [Next]_vars => PlacesInv'
<1> SUFFICES ASSUME IInv, PlacesInv, [Next]_vars
             PROVE  PlacesInv'
  OBVIOUS
<1>1. CASE \E q \in Queries, p \in Pagings : StartQuery(q, p)
  BY <1>1, StartQueryKeeps
<1>2. CASE QueryStep
  BY <1>2, FetchDataKeeps, FetchCountKeeps, FailQueryKeeps, AnswerQueryKeeps DEF QueryStep
<1>3. CASE WriteStep
  BY <1>3, SingleWriteKeeps, RenameKeeps DEF WriteStep
<1>4. CASE RejectQuery \/ RejectWrite \/ \E c \in Commands : StartWrite(c)
  BY <1>4, StartWriteKeeps
<1>5. CASE (\E t \in Tables : ForeignWrite(t)) \/ Tick \/ UNCHANGED vars
  BY <1>5, OthersKeep
<1> QED BY <1>1, <1>2, <1>3, <1>4, <1>5 DEF Next, QueryNext, CrudNext

\* Cursors and pages stand in every behaviour.
THEOREM PlacesInvariant == Spec => []PlacesInv
<1> QED BY InitPlaces, NextPlaces, Invariant, PTL DEF Spec

\* Shared state, request in hand and history keep their types: offsets of
\* cursors are positive, what is skipped is part of the offset, no count
\* exceeds the number of ids, and no acknowledged version is one not reached.
THEOREM TypeCorrect == Spec => []TypeOK
<1>1. IInv /\ PlacesInv => TypeOK
  <2> SUFFICES ASSUME IInv, PlacesInv PROVE TypeOK
    OBVIOUS
  <2>1. \A t \in Tables : version[t] \in Nat /\ acked[t] \in Nat /\ acked[t] <= version[t]
    BY DEF IInv, TypedState
  <2>2. /\ store \in [Tables -> Collections] /\ version \in [Tables -> Nat]
        /\ foreign \in [Tables -> BOOLEAN] /\ now \in 0..MaxTime
        /\ \A t \in Tables : version[t] <= MaxVersion[t] /\ acked[t] \in 0..version[t]
    BY <2>1 DEF IInv, TypedState, PlacesInv, BoundsInv
  <2>3. /\ \A k \in CachedKeys(counts) : counts.entries[k].value \in CountValue
        /\ \A k \in CachedKeys(cursors) :
             /\ k \in Queries
             /\ \A o \in DOMAIN cursors.entries[k].value :
                  o \in Nat \ {0} /\ IsCursor(cursors.entries[k].value[o])
    BY DEF IInv, CacheInv, CursorsInv, PlacesInv, CountsTyped, CursorsPlaced,
           CursorStandsNow, CursorStandsAt, CachedValue
  <2>4. req.kind = "query" =>
          /\ req.cursor = None \/ IsCursor(req.cursor)
          /\ IsCount(req.count) /\ IsData(req.data)
          /\ req.skip \in Nat /\ req.skip <= req.offset
    BY DEF IInv, CacheInv, QueryInv, PlacesInv, QueryPlaced, CursorStandsNow, CursorStandsAt,
           PageStandsNow, PageStandsAt, IsData
  <2> QED BY <2>2, <2>3, <2>4 DEF TypeOK
<1> QED BY <1>1, Invariant, PlacesInvariant, PTL

\* The cursor cached for an offset is the document at that place of the result,
\* unless somebody has written since or rows tie (query.rs:280-289).
THEOREM CursorsExactHolds == Spec => []CursorsExact
<1>1. PlacesInv => CursorsExact
  BY DEF PlacesInv, CursorsPlaced, CursorStandsNow, CursorStandsAt, AllRows,
         CursorsExact, CachedValue, CachedCursors
<1> QED BY <1>1, PlacesInvariant, PTL

\* Whichever cursor a page was reached from, it holds the rows that OFFSET and
\* LIMIT give, unless somebody has written since or rows tie
\* (query.rs:144-204, 280-289).
THEOREM PagesExactHolds == Spec => []PagesExact
<1>1. PlacesInv => PagesExact
  BY DEF PlacesInv, PagePlaced, PageStandsNow, PageStandsAt, PagesExact, PageOf, Unchanged
<1> QED BY <1>1, PlacesInvariant, PTL
-----------------------------------------------------------------------------
\* A request that ends in an error, a write given up among them, leaves both
\* caches as they were: a COUNT beside a data query that failed is not kept,
\* and what is known of a table outlives a write that may not have happened
\* (query.rs:275-278, crud.rs:12-319).
THEOREM ErrorsCacheNothingHolds == Spec => ErrorsCacheNothing
<1> DEFINE Quiet == reply' # None /\ reply'.kind \in {"error", "failed"} /\ req # Idle
                      => UNCHANGED <<counts, cursors>>
<1>1. ASSUME IInv, [Next]_vars, reply' # None, reply'.kind \in {"error", "failed"}, req # Idle
      PROVE  UNCHANGED <<counts, cursors>>
  <2> USE <1>1
  <2>1. reply = None
    BY DEF IInv, WriteInv, RequestInv
  <2>2. ASSUME NEW r, NEW out, Conclude(r, out)
        PROVE  UNCHANGED <<counts, cursors>>
    BY <2>2 DEF Conclude, Answer, Done
  <2>3. CASE InsertRecord \/ UpdateRecord \/ DeleteRecord \/ RenameDelete
    BY <2>2, <2>3 DEF InsertRecord, UpdateRecord, DeleteRecord, RenameDelete
  <2>4. CASE RenameGet \/ RenameCheck \/ RenameCreate
    BY <2>4 DEF RenameGet, RenameCheck, RenameCreate
  <2>5. CASE FetchData \/ FetchCount \/ FailQuery
    BY <2>5 DEF FetchData, FetchCount, FailQuery
  <2>6. ~AnswerQuery
    BY DEF AnswerQuery, Answer
  <2>7. ~(RejectQuery \/ RejectWrite) /\ \A q \in Queries, p \in Pagings : ~StartQuery(q, p)
    BY DEF RejectQuery, RejectWrite, StartQuery
  <2>8. \A c \in Commands : ~StartWrite(c)
    BY DEF StartWrite
  <2>9. CASE (\E t \in Tables : ForeignWrite(t)) \/ Tick \/ UNCHANGED vars
    BY <2>9 DEF ForeignWrite, Tick, vars
  <2> QED BY <2>3, <2>4, <2>5, <2>6, <2>7, <2>8, <2>9
          DEF Next, QueryNext, QueryStep, CrudNext, WriteStep
<1>2. IInv /\ [Next]_vars => [Quiet]_vars
  BY <1>1
<1> QED BY <1>2, Invariant, PTL DEF Spec, ErrorsCacheNothing
=============================================================================
