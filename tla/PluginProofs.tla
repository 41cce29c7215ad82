---------------------------- MODULE PluginProofs ----------------------------
(***************************************************************************)
(* Theorems about the plugin for every set of tables, ids, ranks, queries, *)
(* pagings and commands, every capacity and time to live, and every bound: *)
(* what the caches hold against the plugin's own writes and the database,  *)
(* and what its writes do to documents.                                    *)
(***************************************************************************)
EXTENDS Plugin, FiniteSetTheorems, SequenceTheorems, WellFoundedInduction, TLAPS

-----------------------------------------------------------------------------
(* Numbers.                                                                *)

\* A set of naturals that is not empty has a least element.
LEMMA LeastElement ==
  ASSUME NEW T \in SUBSET Nat, T # {}
  PROVE  \E x \in T : \A y \in T : x <= y
<1> DEFINE R == OpToRel(<, Nat)
<1>1. IsWellFoundedOn(R, Nat)
  BY NatLessThanWellFounded
<1>2. \A x, y \in Nat : <<x, y>> \in R <=> x < y
  BY DEF OpToRel
<1> HIDE DEF R
<1>3. PICK x \in T : \A y \in T : ~(<<y, x>> \in R)
  BY <1>1, WFMin
<1>4. ASSUME NEW y \in T
      PROVE  x <= y
  <2>1. x \in Nat /\ y \in Nat
    OBVIOUS
  <2>2. ~(y < x)
    BY <1>2, <1>3, <2>1
  <2> QED BY <2>1, <2>2
<1> QED BY <1>4

\* A set of naturals up to n that is not empty has a greatest element.
LEMMA GreatestElement ==
  ASSUME NEW n \in Nat, NEW T \in SUBSET (0..n), T # {}
  PROVE  \E x \in T : \A y \in T : y <= x
<1> DEFINE D == {n - x : x \in T}
<1>1. D \in SUBSET Nat
  <2>1. \A x \in T : x \in 0..n
    OBVIOUS
  <2>2. \A x \in 0..n : n - x \in Nat
    OBVIOUS
  <2> QED BY <2>1, <2>2
<1>2. D # {}
  OBVIOUS
<1>3. PICK d \in D : \A e \in D : d <= e
  BY <1>1, <1>2, LeastElement
<1>4. PICK x \in T : d = n - x
  OBVIOUS
<1>5. \A y \in T : n - x <= n - y
  BY <1>3, <1>4
<1>6. \A y \in T : y <= x
  BY <1>5
<1> QED BY <1>6
-----------------------------------------------------------------------------
(* The caches: what an operation leaves of the values.                     *)

CachedValue(c, k) == c.entries[k].value

\* A lookup adds and changes nothing.
LEMMA GetKeepsValues ==
  ASSUME NEW c, NEW k, NEW time, NEW ttl, NEW j \in CachedKeys(CacheAfterGet(c, k, time, ttl))
  PROVE  /\ j \in CachedKeys(c)
         /\ CachedValue(CacheAfterGet(c, k, time, ttl), j) = CachedValue(c, j)
BY DEF CacheAfterGet, CacheRemove, CachedKeys, CachedValue, Restrict

\* An insert stores its value and adds and changes nothing else.
LEMMA InsertKeepsValues ==
  ASSUME NEW c, NEW k, NEW value, NEW time, NEW capacity,
         NEW j \in CachedKeys(CacheInsert(c, k, value, time, capacity))
  PROVE  \/ /\ j = k
            /\ CachedValue(CacheInsert(c, k, value, time, capacity), j) = value
         \/ /\ j \in CachedKeys(c)
            /\ CachedValue(CacheInsert(c, k, value, time, capacity), j) = CachedValue(c, j)
<1> DEFINE kept == IF k \in CachedKeys(c) THEN c.entries ELSE EvictOldest(c, capacity).entries
<1>1. CacheInsert(c, k, value, time, capacity).entries = PutEntry(kept, k, value, time)
  BY DEF CacheInsert
<1>2. \A i \in DOMAIN kept : i \in CachedKeys(c) /\ kept[i] = c.entries[i]
  BY DEF EvictOldest, CachedKeys, Restrict
<1> HIDE DEF kept
<1> QED BY <1>1, <1>2 DEF PutEntry, CachedKeys, CachedValue

\* Removing a set of keys removes these and changes nothing else.
LEMMA RemoveAllKeepsValues ==
  ASSUME NEW c, NEW ks, NEW j \in CachedKeys(CacheRemoveAll(c, ks))
  PROVE  /\ j \in CachedKeys(c) /\ j \notin ks
         /\ CachedValue(CacheRemoveAll(c, ks), j) = CachedValue(c, j)
BY DEF CacheRemoveAll, CachedKeys, CachedValue, Restrict
-----------------------------------------------------------------------------
(* The database.                                                           *)

\* Writing a document, and deleting one, leaves a collection a collection.
LEMMA WithDocFacts ==
  ASSUME NEW docs \in Collections, NEW i \in Ids, NEW rank \in Ranks
  PROVE  /\ WithDoc(docs, i, rank) \in Collections
         /\ i \in DOMAIN WithDoc(docs, i, rank)
         /\ WithDoc(docs, i, rank)[i] = rank
         /\ \A j \in DOMAIN docs \ {i} : /\ j \in DOMAIN WithDoc(docs, i, rank)
                                         /\ WithDoc(docs, i, rank)[j] = docs[j]
<1> DEFINE w == WithDoc(docs, i, rank)
<1>1. PICK ids \in SUBSET Ids : docs \in [ids -> Ranks]
  BY DEF Collections
<1>2. w \in [ids \cup {i} -> Ranks]
  BY <1>1 DEF WithDoc
<1>3. ids \cup {i} \in SUBSET Ids
  BY <1>1
<1>4. w \in Collections
  BY <1>2, <1>3 DEF Collections
<1> QED BY <1>1, <1>4 DEF WithDoc

LEMMA WithoutDocFacts ==
  ASSUME NEW docs \in Collections, NEW i
  PROVE  /\ WithoutDoc(docs, i) \in Collections
         /\ i \notin DOMAIN WithoutDoc(docs, i)
         /\ \A j \in DOMAIN docs \ {i} : /\ j \in DOMAIN WithoutDoc(docs, i)
                                         /\ WithoutDoc(docs, i)[j] = docs[j]
<1> DEFINE w == WithoutDoc(docs, i)
<1>1. PICK ids \in SUBSET Ids : docs \in [ids -> Ranks]
  BY DEF Collections
<1>2. w \in [ids \ {i} -> Ranks]
  BY <1>1 DEF WithoutDoc, Restrict
<1>3. ids \ {i} \in SUBSET Ids
  BY <1>1
<1>4. w \in Collections
  BY <1>2, <1>3 DEF Collections
<1> QED BY <1>1, <1>4 DEF WithoutDoc, Restrict

\* A page has a length.
LEMMA SliceLength ==
  ASSUME NEW docs \in Collections, NEW q, NEW ids \in SUBSET (DOMAIN docs),
         NEW skip \in Nat, NEW limit \in Nat
  PROVE  Len(Slice(Rows(docs, q, ids), skip, limit)) \in Nat
<1> DEFINE s == Rows(docs, q, ids)
           last == IF skip + limit < Len(s) THEN skip + limit ELSE Len(s)
<1>1. IsFiniteSet(ids)
  <2>1. DOMAIN docs \in SUBSET Ids
    BY DEF Collections
  <2> QED BY <2>1, FS_Subset, IdsAssumption
<1>2. Cardinality(ids) \in Nat
  BY <1>1, FS_CardinalityType
<1>3. DOMAIN s = 1..Cardinality(ids) /\ s = [n \in 1..Cardinality(ids) |-> s[n]]
  BY DEF Rows
<1>4. s \in Seq({s[n] : n \in 1..Cardinality(ids)})
  <2> HIDE DEF s
  <2>1. s \in [1..Cardinality(ids) -> {s[n] : n \in 1..Cardinality(ids)}]
    BY <1>3
  <2> QED BY <1>2, <2>1
<1>5. Len(s) \in Nat
  BY <1>4, LenProperties
<1> HIDE DEF s
<1>6. last \in Int /\ skip + 1 \in Int
  BY <1>5
<1>7. \A i \in (skip + 1)..last : s[i] \in {s[j] : j \in (skip + 1)..last}
  OBVIOUS
<1> HIDE DEF last
<1>8. Len(SubSeq(s, skip + 1, last)) \in Nat
  BY <1>6, <1>7, SubSeqProperties
<1> QED BY <1>8 DEF s, last, Slice
-----------------------------------------------------------------------------
(* The inductive invariant.                                                *)

TypedState ==
  /\ store \in [Tables -> Collections]
  /\ version \in [Tables -> Nat] /\ acked \in [Tables -> Nat]
  /\ foreign \in [Tables -> BOOLEAN]
  /\ \A t \in Tables : acked[t] <= version[t]

\* Something read at a version, no older than a.
ReadSince(x, a) == x.asof \in Nat /\ a <= x.asof

\* A count no older than version a and no newer than v; if of v, then exact.
TrueCount(x, a, v, docs, where) ==
  /\ ReadSince(x, a) /\ x.asof <= v
  /\ x.asof = v => x.n = CountOf(docs, where)

TrueCountOf(x, t, where) == TrueCount(x, acked[t], version[t], store[t], where)

KnownSince(known, a) ==
  /\ DOMAIN known \subseteq Nat
  /\ \A o \in DOMAIN known : ReadSince(known[o], a)

CountsInv ==
  \A k \in CachedKeys(counts) :
    k[1] \in Tables /\ TrueCountOf(CachedValue(counts, k), k[1], k[2])

CursorsInv ==
  \A q \in CachedKeys(cursors) :
    q \in Queries /\ KnownSince(CachedValue(cursors, q), acked[q.table])

\* A query in hand: what it has read so far.
QueryFields == {"kind", "q", "paging", "limit", "offset", "cursor", "skip", "data", "count"}

QueryInv ==
  req.kind = "query" =>
    /\ DOMAIN req = QueryFields /\ req = [f \in QueryFields |-> req[f]]
    /\ req.q \in Queries
    /\ req.limit \in Nat /\ req.offset \in Nat /\ req.skip \in Nat
    /\ req.cursor # None => ReadSince(req.cursor, acked[req.q.table])
    /\ req.data \notin {Pending, Failed} =>
         ReadSince(req.data, acked[req.q.table]) /\ Len(req.data.rows) \in Nat
    /\ req.count \notin {Pending, Failed, None} =>
         TrueCountOf(req.count, req.q.table, req.q.where)

PageInv ==
  reply # None /\ reply.kind = "page" =>
    reply.q \in Queries /\ ReadSince(reply, acked[reply.q.table])

\* A write in hand.
Renames ==
  [kind : {"rename"}, table : Tables, id : Ids, new : Ids, rank : Ranks \cup {None},
   stage : {"get", "check", "create", "delete"}]
SingleWrites ==
  [kind : {"insert"}, table : Tables, id : Ids \cup {None}, rank : Ranks]
  \cup [kind : {"update"}, table : Tables, id : Ids, rank : Ranks]
  \cup [kind : {"delete"}, table : Tables, id : Ids]
WriteKinds == {"insert", "update", "delete", "rename"}

Holds(docs, i, rank) == i \in DOMAIN docs /\ docs[i] = rank

\* How far a rename has come, and where the content is.
RenameInv ==
  req.kind = "rename" =>
    /\ req \in Renames /\ req.new # req.id
    /\ req.stage = "get" <=> req.rank = None
    /\ ~foreign[req.table] =>
         /\ req.stage \in {"check", "create"} => Holds(store[req.table], req.id, req.rank)
         /\ req.stage = "delete" => Holds(store[req.table], req.new, req.rank)

RequestInv ==
  /\ req.kind \in {"idle", "query"} \cup WriteKinds
  /\ req.kind \in {"insert", "update", "delete"} => req \in SingleWrites
  /\ req.kind = "idle" <=> req = Idle
  /\ req # Idle => reply = None

\* An answered write.
AnsweredInv ==
  reply # None /\ reply.kind \in {"done", "failed"} =>
    /\ reply.of.table \in Tables
    /\ ~foreign[reply.of.table] =>
         /\ reply.kind = "done" => Stands(reply.of)
         /\ reply.of.kind = "rename" /\ reply.of.rank # None => Kept(reply.of)

CacheInv == CountsInv /\ CursorsInv /\ QueryInv /\ PageInv
WriteInv == RequestInv /\ RenameInv /\ AnsweredInv
IInv == TypedState /\ CacheInv /\ WriteInv
-----------------------------------------------------------------------------
\* It holds at the start: the caches are empty and nothing is in hand.
LEMMA InitInv == Init => IInv
<1> SUFFICES ASSUME Init PROVE IInv
  OBVIOUS
<1> USE DEF Init, InitState
<1>1. TypedState
  BY InitialDocsAssumption DEF TypedState, Undisturbed
<1>2. CachedKeys(counts) = {} /\ CachedKeys(cursors) = {}
  BY DEF CachedKeys, EmptyCache
<1>3. CacheInv
  BY <1>2 DEF CacheInv, CountsInv, CursorsInv, QueryInv, PageInv, Idle
<1>4. WriteInv
  BY DEF WriteInv, RequestInv, RenameInv, AnsweredInv, Idle
<1> QED BY <1>1, <1>3, <1>4 DEF IInv

\* With no request in hand there is nothing to say of it.
LEMMA NothingInHand ==
  ASSUME req' = Idle
  PROVE  QueryInv' /\ RenameInv' /\ RequestInv'
BY DEF QueryInv, RenameInv, RequestInv, Idle

\* Of an error, and of no answer, there is nothing to say.
LEMMA NoAnswer ==
  ASSUME reply' = None \/ reply' = Error
  PROVE  PageInv' /\ AnsweredInv'
BY DEF PageInv, AnsweredInv, Error

\* Nor of a request whose calls are all still to come.
LEMMA NoHistory ==
  ASSUME TypedState, UNCHANGED <<store, version, acked>>, foreign' = Undisturbed
  PROVE  TypedState'
BY DEF TypedState, Undisturbed
-----------------------------------------------------------------------------
(* Steps of a query.                                                       *)

LEMMA RejectStep ==
  ASSUME IInv, RejectQuery \/ RejectWrite
  PROVE  IInv'
<1> USE DEF RejectQuery, RejectWrite, Answer, history
<1>1. TypedState'
  BY DEF IInv, TypedState
<1>2. CountsInv' /\ CursorsInv'
  BY DEF IInv, CacheInv, CountsInv, CursorsInv, TrueCountOf
<1> QED BY <1>1, <1>2, NothingInHand, NoAnswer DEF IInv, CacheInv, WriteInv

\* The cursor a page starts from is one of those the entry knows.
LEMMA CursorForFacts ==
  ASSUME NEW known, DOMAIN known \subseteq Nat, NEW offset \in Nat,
         CursorFor(known, offset) # None
  PROVE  \E o \in DOMAIN known : /\ o <= offset
                                 /\ CursorFor(known, offset).at = o
                                 /\ CursorFor(known, offset).doc = known[o]
<1> DEFINE below == {o \in DOMAIN known : o <= offset}
<1>1. below # {}
  BY DEF CursorFor
<1>2. below \in SUBSET (0..offset)
  OBVIOUS
<1>3. \E o \in below : \A x \in below : x <= o
  BY <1>1, <1>2, GreatestElement
<1> DEFINE nearest == CHOOSE o \in below : \A x \in below : x <= o
<1>4. nearest \in below
  BY <1>3
<1>5. CursorFor(known, offset) = [at |-> nearest, doc |-> known[nearest]]
  BY <1>1 DEF CursorFor
<1> HIDE DEF nearest
<1> QED BY <1>4, <1>5

\* What an entry knows was read since the last acknowledged write.
LEMMA KnownCursorsFacts ==
  ASSUME CursorsInv, NEW q \in Queries
  PROVE  KnownSince(KnownCursors(cursors, q), acked[q.table])
BY DEF CursorsInv, KnownSince, KnownCursors, CacheHits, CachedValue, QueryKey

\* Limits and offsets are numbers.
LEMMA PagingFacts ==
  ASSUME NEW p \in Pagings
  PROVE  EffectiveLimit(p) \in Nat /\ EffectiveOffset(p) \in Nat
<1>1. /\ p.page \in Nat \cup {None} /\ p.size \in Nat \cup {None}
      /\ p.limit \in Nat \cup {None} /\ p.offset \in Nat \cup {None}
  BY PagingsAssumption
<1>2. EffectiveLimit(p) \in Nat
  BY <1>1 DEF EffectiveLimit
<1>3. \A m, n \in Nat : m > 1 => (m - 1) * n \in Nat
  OBVIOUS
<1>4. EffectiveOffset(p) \in Nat
  BY <1>1, <1>2, <1>3 DEF EffectiveOffset
<1> QED BY <1>2, <1>4

LEMMA StartQueryStep ==
  ASSUME IInv, NEW q \in Queries, NEW p \in Pagings, StartQuery(q, p)
  PROVE  IInv'
<1> DEFINE limit == EffectiveLimit(p)
           offset == EffectiveOffset(p)
           cursor == IF offset > 0 THEN CursorFor(KnownCursors(cursors, q), offset) ELSE None
           cached == CacheHits(counts, CountKey(q), now, CountTtl)
           skip == IF cursor = None THEN offset ELSE offset - cursor.at
           count == IF cached THEN counts.entries[CountKey(q)].value
                    ELSE IF offset = 0 THEN Pending ELSE None
<1>1. /\ req' = [kind |-> "query", q |-> q, paging |-> p, limit |-> limit, offset |-> offset,
                 cursor |-> IF cursor = None THEN None ELSE cursor.doc, skip |-> skip,
                 data |-> Pending, count |-> count]
      /\ reply' = None /\ UNCHANGED <<store, version, acked>> /\ foreign' = Undisturbed
      /\ counts' = CacheAfterGet(counts, CountKey(q), now, CountTtl)
      /\ cursors' \in {cursors, CacheAfterGet(cursors, QueryKey(q), now, CursorTtl)}
  BY DEF StartQuery
<1>2. limit \in Nat /\ offset \in Nat
  BY PagingFacts
<1>3. cursor # None => ReadSince(cursor.doc, acked[q.table]) /\ cursor.at \in Nat
                       /\ cursor.at <= offset
  <2>1. KnownSince(KnownCursors(cursors, q), acked[q.table])
    BY KnownCursorsFacts DEF IInv, CacheInv
  <2> HIDE DEF offset
  <2> QED BY <1>2, <2>1, CursorForFacts DEF KnownSince
<1> HIDE DEF cursor, limit, offset
<1>4. skip \in Nat
  BY <1>2, <1>3
<1>5. count \notin {Pending, Failed, None} => TrueCountOf(count, q.table, q.where)
  BY DEF IInv, CacheInv, CountsInv, CacheHits, CountKey, CachedValue
<1> HIDE DEF skip, count
<1>6. QueryInv'
  BY <1>1, <1>2, <1>3, <1>4, <1>5 DEF QueryInv, QueryFields, TrueCountOf, Pending
<1>7. CountsInv'
  BY <1>1, GetKeepsValues DEF IInv, CacheInv, CountsInv, TrueCountOf
<1>8. CursorsInv'
  BY <1>1, GetKeepsValues DEF IInv, CacheInv, CursorsInv
<1>9. RequestInv' /\ RenameInv'
  BY <1>1 DEF RequestInv, RenameInv, Idle
<1> QED BY <1>1, <1>6, <1>7, <1>8, <1>9, NoAnswer, NoHistory DEF IInv, CacheInv, WriteInv

\* What a page holds was read since the last acknowledged write, whether from
\* the start or from a cursor that was.
LEMMA FetchDataStep ==
  ASSUME IInv, FetchData
  PROVE  IInv'
<1> DEFINE t == req.q.table
           rows == IF req.cursor = None
                     THEN OffsetPage(store[t], req.q, req.skip, req.limit)
                     ELSE CursorPage(store[t], req.q, req.cursor, req.skip, req.limit)
           ok == [state |-> "ok", rows |-> rows,
                  asof |-> IF req.cursor = None THEN version[t] ELSE req.cursor.asof]
<1>1. /\ req.kind = "query" /\ req.data = Pending
      /\ \E data \in {ok, Failed} : req' = [req EXCEPT !.data = data]
      /\ UNCHANGED <<store, counts, cursors, now, reply, version, acked, foreign>>
  BY DEF FetchData, history
<1>2. /\ DOMAIN req = QueryFields /\ req = [f \in QueryFields |-> req[f]]
      /\ req.q \in Queries /\ t \in Tables
      /\ req.limit \in Nat /\ req.skip \in Nat
      /\ req.cursor # None => ReadSince(req.cursor, acked[t])
  BY <1>1, QueriesAssumption DEF IInv, CacheInv, QueryInv
<1>3. store[t] \in Collections /\ version[t] \in Nat /\ acked[t] <= version[t]
  BY <1>2 DEF IInv, TypedState
<1>4. ReadSince(ok, acked[t])
  BY <1>2, <1>3 DEF ReadSince
<1>5. Len(rows) \in Nat
  <2>1. Matching(store[t], req.q.where) \in SUBSET (DOMAIN store[t])
    BY DEF Matching
  <2>2. \A doc : BeyondCursor(store[t], req.q, Matching(store[t], req.q.where), doc)
                  \in SUBSET (DOMAIN store[t])
    BY <2>1 DEF BeyondCursor
  <2> QED BY <1>2, <1>3, <2>1, <2>2, SliceLength DEF OffsetPage, CursorPage
<1> HIDE DEF rows
<1>6. PICK data \in {ok, Failed} : req' = [req EXCEPT !.data = data]
  BY <1>1
<1>7. data # Failed => ReadSince(data, acked[t]) /\ Len(data.rows) \in Nat
  BY <1>4, <1>5, <1>6
<1> HIDE DEF ok
<1>8. /\ req'.data = data /\ DOMAIN req' = QueryFields
      /\ \A f \in QueryFields \ {"data"} : req'[f] = req[f]
      /\ req' = [f \in QueryFields |-> req'[f]]
  BY <1>2, <1>6 DEF QueryFields
<1>9. /\ req'.kind = req.kind /\ req'.q = req.q /\ req'.limit = req.limit /\ req'.count = req.count
      /\ req'.offset = req.offset /\ req'.skip = req.skip /\ req'.cursor = req.cursor
  BY <1>8 DEF QueryFields
<1>10. QueryInv'
  BY <1>1, <1>7, <1>8, <1>9 DEF QueryInv, TrueCountOf, IInv, CacheInv
<1>11. TypedState' /\ CountsInv' /\ CursorsInv' /\ PageInv'
  BY <1>1 DEF IInv, CacheInv, TypedState, CountsInv, CursorsInv, PageInv, TrueCountOf
<1>12. RequestInv' /\ RenameInv'
  BY <1>1, <1>9 DEF IInv, WriteInv, RequestInv, RenameInv, Idle
<1>13. AnsweredInv'
  BY <1>1 DEF IInv, WriteInv, AnsweredInv, Stands, Kept
<1> QED BY <1>10, <1>11, <1>12, <1>13 DEF IInv, CacheInv, WriteInv

\* A COUNT is exact when it is taken.
LEMMA FetchCountStep ==
  ASSUME IInv, FetchCount
  PROVE  IInv'
<1> DEFINE t == req.q.table
           n == [n |-> CountOf(store[t], req.q.where), asof |-> version[t]]
<1>1. /\ req.kind = "query" /\ req.count = Pending
      /\ \E count \in {n, Failed, None} : req' = [req EXCEPT !.count = count]
      /\ UNCHANGED <<store, counts, cursors, now, reply, version, acked, foreign>>
  BY DEF FetchCount, history
<1>2. /\ DOMAIN req = QueryFields /\ req = [f \in QueryFields |-> req[f]]
      /\ req.q \in Queries /\ t \in Tables
  BY <1>1, QueriesAssumption DEF IInv, CacheInv, QueryInv
<1>3. version[t] \in Nat /\ acked[t] <= version[t]
  BY <1>2 DEF IInv, TypedState
<1>4. TrueCountOf(n, t, req.q.where)
  BY <1>3 DEF TrueCountOf, TrueCount, ReadSince
<1>5. PICK count \in {n, Failed, None} : req' = [req EXCEPT !.count = count]
  BY <1>1
<1>6. count \notin {Failed, None} => TrueCountOf(count, t, req.q.where)
  BY <1>4, <1>5
<1> HIDE DEF n
<1>7. /\ req'.count = count /\ DOMAIN req' = QueryFields
      /\ \A f \in QueryFields \ {"count"} : req'[f] = req[f]
      /\ req' = [f \in QueryFields |-> req'[f]]
  BY <1>2, <1>5 DEF QueryFields
<1>8. /\ req'.kind = req.kind /\ req'.q = req.q /\ req'.limit = req.limit /\ req'.data = req.data
      /\ req'.offset = req.offset /\ req'.skip = req.skip /\ req'.cursor = req.cursor
  BY <1>7 DEF QueryFields
<1>9. QueryInv'
  BY <1>1, <1>6, <1>7, <1>8 DEF QueryInv, TrueCountOf, IInv, CacheInv
<1>10. TypedState' /\ CountsInv' /\ CursorsInv' /\ PageInv'
  BY <1>1 DEF IInv, CacheInv, TypedState, CountsInv, CursorsInv, PageInv, TrueCountOf
<1>11. RequestInv' /\ RenameInv'
  BY <1>1, <1>8 DEF IInv, WriteInv, RequestInv, RenameInv, Idle
<1>12. AnsweredInv'
  BY <1>1 DEF IInv, WriteInv, AnsweredInv, Stands, Kept
<1> QED BY <1>9, <1>10, <1>11, <1>12 DEF IInv, CacheInv, WriteInv

LEMMA FailQueryStep ==
  ASSUME IInv, FailQuery
  PROVE  IInv'
<1> USE DEF FailQuery, Answer, history
<1>1. TypedState' /\ CountsInv' /\ CursorsInv'
  BY DEF IInv, CacheInv, TypedState, CountsInv, CursorsInv, TrueCountOf
<1> QED BY <1>1, NothingInHand, NoAnswer DEF IInv, CacheInv, WriteInv

\* The entry with the page's end added knows nothing older than it should.
LEMMA RememberedCursors ==
  ASSUME CursorsInv, NEW q \in Queries, NEW offset \in Nat, NEW data,
         ReadSince(data, acked[q.table]), Len(data.rows) \in Nat,
         RememberCursor(q, offset, data), UNCHANGED acked
  PROVE  CursorsInv'
<1> DEFINE last == LastRow(data.rows)
           next == offset + Len(data.rows)
           known == KnownCursors(cursors, q)
           doc == [id |-> last.id, rank |-> last.rank, asof |-> data.asof]
           more == [o \in DOMAIN known \cup {next} |-> IF o = next THEN doc ELSE known[o]]
           looked == CacheAfterGet(cursors, QueryKey(q), now, CursorTtl)
<1>1. cursors' = CacheInsert(looked, QueryKey(q), more, now, CursorCapacity)
  BY DEF RememberCursor
<1>2. KnownSince(known, acked[q.table])
  BY KnownCursorsFacts
<1>3. ReadSince(doc, acked[q.table]) /\ next \in Nat
  BY DEF ReadSince
<1> HIDE DEF known, doc, next
<1>4. KnownSince(more, acked[q.table])
  BY <1>2, <1>3 DEF KnownSince
<1> HIDE DEF more
<1>5. \A j \in CachedKeys(looked) :
        j \in CachedKeys(cursors) /\ CachedValue(looked, j) = CachedValue(cursors, j)
  BY GetKeepsValues
<1> HIDE DEF looked
<1>6. ASSUME NEW j \in CachedKeys(cursors')
      PROVE  j \in Queries /\ KnownSince(CachedValue(cursors', j), acked[j.table])
  <2>1. \/ j = QueryKey(q) /\ CachedValue(cursors', j) = more
        \/ j \in CachedKeys(looked) /\ CachedValue(cursors', j) = CachedValue(looked, j)
    BY <1>1, <1>6, InsertKeepsValues
  <2> QED BY <1>4, <1>5, <2>1 DEF CursorsInv, QueryKey
<1> QED BY <1>6 DEF CursorsInv

LEMMA AnswerQueryStep ==
  ASSUME IInv, AnswerQuery
  PROVE  IInv'
<1> DEFINE t == req.q.table
           data == req.data
           count == CountInHand(req.count, data)
           total == IF count = None THEN Len(data.rows) ELSE count.n
<1>1. /\ req.kind = "query" /\ data # Pending /\ req.count # Pending /\ data # Failed
      /\ IF data.rows = << >> THEN UNCHANGED cursors ELSE RememberCursor(req.q, req.offset, data)
      /\ counts' = IF count = None THEN counts
                   ELSE CacheInsert(counts, CountKey(req.q), count, now, CountCapacity)
      /\ reply' = [kind |-> "page", q |-> req.q, paging |-> req.paging,
                   limit |-> req.limit, offset |-> req.offset,
                   rows |-> data.rows, asof |-> data.asof, total |-> total]
      /\ req' = Idle
      /\ UNCHANGED <<store, now, version, acked, foreign>>
  BY DEF AnswerQuery, BothBack, Answer, history
<1>2. /\ req.q \in Queries /\ req.offset \in Nat /\ t \in Tables
      /\ ReadSince(data, acked[t]) /\ Len(data.rows) \in Nat
      /\ req.count \notin {Failed, None} => TrueCountOf(req.count, t, req.q.where)
  BY <1>1, QueriesAssumption DEF IInv, CacheInv, QueryInv
<1>3. CursorsInv'
  <2>1. CASE data.rows = << >>
    BY <1>1, <2>1 DEF IInv, CacheInv, CursorsInv
  <2>2. CASE RememberCursor(req.q, req.offset, data)
    BY <1>1, <1>2, <2>2, RememberedCursors DEF IInv, CacheInv
  <2> QED BY <1>1, <2>1, <2>2
<1>4. CountsInv'
  <2>1. count # None => count = req.count /\ req.count \notin {Failed, None}
    BY DEF CountInHand
  <2> HIDE DEF count
  <2>2. CASE count = None
    BY <1>1, <2>2 DEF IInv, CacheInv, CountsInv, TrueCountOf
  <2>3. CASE count # None
    <3>1. TrueCountOf(count, t, req.q.where)
      BY <1>2, <2>1, <2>3
    <3>2. ASSUME NEW k \in CachedKeys(counts')
          PROVE  k[1] \in Tables /\ TrueCountOf(CachedValue(counts', k), k[1], k[2])
      <4>1. \/ k = CountKey(req.q) /\ CachedValue(counts', k) = count
            \/ k \in CachedKeys(counts) /\ CachedValue(counts', k) = CachedValue(counts, k)
        BY <1>1, <2>3, <3>2, InsertKeepsValues
      <4> QED BY <1>2, <3>1, <4>1 DEF CountKey, IInv, CacheInv, CountsInv
    <3> QED BY <1>1, <3>2 DEF CountsInv, TrueCountOf
  <2> QED BY <2>2, <2>3
<1>5. PageInv'
  BY <1>1, <1>2 DEF PageInv, ReadSince
<1>6. AnsweredInv'
  BY <1>1 DEF AnsweredInv
<1>7. TypedState'
  BY <1>1 DEF IInv, TypedState
<1> QED BY <1>1, <1>3, <1>4, <1>5, <1>6, <1>7, NothingInHand DEF IInv, CacheInv, WriteInv
-----------------------------------------------------------------------------
(* Writes: what a call does to the collections.                            *)

\* A step that touches at most table t: a version grows unless the collection
\* stays what it is.
Moves(t) ==
  /\ store' \in [Tables -> Collections] /\ version' \in [Tables -> Nat]
  /\ \A u \in Tables : version[u] <= version'[u]
  /\ \A u \in Tables : version'[u] = version[u] => store'[u] = store[u]
  /\ \A u \in Tables \ {t} : store'[u] = store[u]

LEMMA WriteMoves ==
  ASSUME TypedState, NEW t \in Tables, NEW docs \in Collections, Write(t, docs)
  PROVE  Moves(t) /\ store'[t] = docs
<1>1. store \in [Tables -> Collections] /\ version \in [Tables -> Nat]
  BY DEF TypedState
<1>2. /\ store' = [store EXCEPT ![t] = docs]
      /\ version' = [version EXCEPT ![t] = IF docs = store[t] THEN @ ELSE @ + 1]
  BY DEF Write
<1> QED BY <1>1, <1>2 DEF Moves

LEMMA CallMoves ==
  ASSUME TypedState, NEW t \in Tables, NEW docs \in Collections, NEW accepted, NEW out,
         Call(t, accepted, docs, out)
  PROVE  /\ Moves(t)
         /\ out # "failed" => accepted /\ store'[t] = docs
         /\ out = "failed" => store' = store
<1>1. CASE out = "failed"
  BY <1>1 DEF Call, Moves, TypedState
<1>2. CASE out # "failed"
  BY <1>2, WriteMoves DEF Call
<1> QED BY <1>1, <1>2

\* A call leaves the cached counts as true as they were.
LEMMA CountsMove ==
  ASSUME TypedState, CountsInv, NEW t \in Tables, Moves(t), UNCHANGED <<counts, acked>>
  PROVE  CountsInv'
<1> SUFFICES ASSUME NEW k \in CachedKeys(counts)
             PROVE  k[1] \in Tables /\ TrueCount(CachedValue(counts, k), acked[k[1]],
                                                 version'[k[1]], store'[k[1]], k[2])
  BY DEF CountsInv, TrueCountOf
<1> DEFINE x == CachedValue(counts, k)
           u == k[1]
<1>1. u \in Tables /\ TrueCount(x, acked[u], version[u], store[u], k[2])
  BY DEF CountsInv, TrueCountOf
<1>2. /\ version[u] \in Nat /\ version'[u] \in Nat /\ version[u] <= version'[u]
      /\ version'[u] = version[u] => store'[u] = store[u]
  BY <1>1 DEF TypedState, Moves
<1> HIDE DEF x
<1>3. TrueCount(x, acked[u], version'[u], store'[u], k[2])
  BY <1>1, <1>2 DEF TrueCount, ReadSince
<1> QED BY <1>1, <1>3 DEF x

\* A write in hand goes on: nothing but the collections, and the request
\* moves.
LEMMA GoesOn ==
  ASSUME IInv, NEW t \in Tables, Moves(t),
         UNCHANGED <<counts, cursors, reply, acked, foreign>>,
         reply = None, req'.kind = "rename", RenameInv'
  PROVE  IInv'
<1>1. TypedState'
  <2>1. \A u \in Tables : acked[u] <= version'[u]
    BY DEF IInv, TypedState, Moves
  <2> QED BY <2>1 DEF IInv, TypedState, Moves
<1>2. CountsInv' /\ CursorsInv'
  BY CountsMove DEF IInv, CacheInv, CursorsInv
<1>3. QueryInv' /\ PageInv'
  BY DEF QueryInv, PageInv
<1>4. RequestInv' /\ AnsweredInv'
  BY DEF RequestInv, AnsweredInv, Idle, WriteKinds
<1> QED BY <1>1, <1>2, <1>3, <1>4 DEF IInv, CacheInv, WriteInv
-----------------------------------------------------------------------------
(* Writes: how they end.                                                   *)

\* What a write leaves in a collection, and where a rename left the content.
StandsIn(docs, r) ==
  /\ r.kind \in {"insert", "update"} => Holds(docs, r.id, r.rank)
  /\ r.kind = "delete" => r.id \notin DOMAIN docs
  /\ r.kind = "rename" => r.new = r.id \/ (r.id \notin DOMAIN docs /\ Holds(docs, r.new, r.rank))
KeptIn(docs, r) == Holds(docs, r.id, r.rank) \/ Holds(docs, r.new, r.rank)

\* A write that ended as it should leaves an answer that is true.
LEMMA AnsweredWrite ==
  ASSUME NEW r, r.table \in Tables, r.kind \in WriteKinds,
         reply' = Done(r) \/ reply' = GaveUp(r),
         reply' = Done(r) /\ ~foreign'[r.table] => StandsIn(store'[r.table], r),
         r.kind = "rename" /\ r.rank # None /\ ~foreign'[r.table] => KeptIn(store'[r.table], r)
  PROVE  AnsweredInv'
<1>1. reply'.of = r /\ (reply'.kind = "done" => reply' = Done(r))
  BY DEF Done, GaveUp
<1>2. ASSUME ~foreign'[r.table], reply'.kind = "done"
      PROVE  Stands(reply.of)'
  <2>1. StandsIn(store'[r.table], r)
    BY <1>1, <1>2
  <2>2. CASE r.kind \in {"insert", "update"}
    BY <1>1, <2>1, <2>2 DEF StandsIn, Stands, Holds
  <2>3. CASE r.kind = "delete"
    BY <1>1, <2>1, <2>3 DEF StandsIn, Stands, Holds
  <2>4. CASE r.kind = "rename"
    BY <1>1, <2>1, <2>4 DEF StandsIn, Stands, Holds
  <2> QED BY <2>2, <2>3, <2>4 DEF WriteKinds
<1>3. ASSUME ~foreign'[r.table], r.kind = "rename", r.rank # None
      PROVE  Kept(reply.of)'
  BY <1>1, <1>3 DEF KeptIn, Kept, Holds
<1> QED BY <1>1, <1>2, <1>3 DEF AnsweredInv

\* Forgetting a table leaves nothing in the caches older than its last write.
LEMMA Invalidated ==
  ASSUME IInv, NEW t \in Tables, Moves(t), InvalidateTable(t),
         acked' = [acked EXCEPT ![t] = version'[t]]
  PROVE  CountsInv' /\ CursorsInv'
<1>1. /\ counts' = CacheRemoveAll(counts, {k \in CachedKeys(counts) : k[1] = t})
      /\ cursors' = CacheRemoveAll(cursors, {k \in CachedKeys(cursors) : k.table = t})
  BY DEF InvalidateTable
<1>2. \A u \in Tables \ {t} : acked'[u] = acked[u]
  BY DEF IInv, TypedState
<1>3. ASSUME NEW k \in CachedKeys(counts')
      PROVE  k[1] \in Tables /\ TrueCount(CachedValue(counts', k), acked'[k[1]],
                                          version'[k[1]], store'[k[1]], k[2])
  <2>1. /\ k \in CachedKeys(counts) /\ CachedValue(counts', k) = CachedValue(counts, k)
        /\ k[1] # t
    BY <1>1, <1>3, RemoveAllKeepsValues
  <2> DEFINE u == k[1]
             x == CachedValue(counts, k)
  <2>2. u \in Tables \ {t} /\ TrueCount(x, acked[u], version[u], store[u], k[2])
    BY <2>1 DEF IInv, CacheInv, CountsInv, TrueCountOf
  <2>3. /\ version[u] \in Nat /\ version'[u] \in Nat /\ version[u] <= version'[u]
        /\ store'[u] = store[u] /\ acked'[u] = acked[u]
    BY <1>2, <2>2 DEF IInv, TypedState, Moves
  <2> HIDE DEF x
  <2>4. TrueCount(x, acked'[u], version'[u], store'[u], k[2])
    BY <2>2, <2>3 DEF TrueCount, ReadSince
  <2> QED BY <2>1, <2>2, <2>4 DEF x
<1>4. ASSUME NEW q \in CachedKeys(cursors')
      PROVE  q \in Queries /\ KnownSince(CachedValue(cursors', q), acked'[q.table])
  <2>1. /\ q \in CachedKeys(cursors) /\ CachedValue(cursors', q) = CachedValue(cursors, q)
        /\ q.table # t
    BY <1>1, <1>4, RemoveAllKeepsValues
  <2>2. q \in Queries /\ q.table \in Tables
    BY <2>1, QueriesAssumption DEF IInv, CacheInv, CursorsInv
  <2> QED BY <1>2, <2>1, <2>2 DEF IInv, CacheInv, CursorsInv
<1> QED BY <1>3, <1>4 DEF CountsInv, CursorsInv, TrueCountOf

LEMMA ConcludeStep ==
  ASSUME IInv, NEW r, NEW out, r.table \in Tables, r.kind \in WriteKinds,
         Moves(r.table), Conclude(r, out), UNCHANGED foreign,
         out = "ok" /\ ~foreign[r.table] => StandsIn(store'[r.table], r),
         r.kind = "rename" /\ r.rank # None /\ ~foreign[r.table] => KeptIn(store'[r.table], r)
  PROVE  IInv'
<1> DEFINE t == r.table
<1>1. /\ out = "ok" => /\ InvalidateTable(t)
                       /\ acked' = [acked EXCEPT ![t] = version'[t]]
                       /\ reply' = Done(r)
      /\ out # "ok" => UNCHANGED <<counts, cursors, acked>> /\ reply' = GaveUp(r)
      /\ req' = Idle
  BY DEF Conclude, Answer
<1>2. TypedState'
  <2>1. acked' \in [Tables -> Nat] /\ \A u \in Tables : acked'[u] <= version'[u]
    BY <1>1 DEF IInv, TypedState, Moves
  <2> QED BY <2>1 DEF IInv, TypedState, Moves
<1>3. CountsInv' /\ CursorsInv'
  <2>1. CASE out = "ok"
    BY <1>1, <2>1, Invalidated
  <2>2. CASE out # "ok"
    BY <1>1, <2>2, CountsMove DEF IInv, CacheInv, CursorsInv
  <2> QED BY <2>1, <2>2
<1>4. PageInv'
  BY <1>1 DEF PageInv, Done, GaveUp
<1>5. AnsweredInv'
  <2>1. reply' = Done(r) => out = "ok"
    BY <1>1 DEF Done, GaveUp
  <2> QED BY <1>1, <2>1, AnsweredWrite
<1> QED BY <1>1, <1>2, <1>3, <1>4, <1>5, NothingInHand DEF IInv, CacheInv, WriteInv
-----------------------------------------------------------------------------
(* Steps of a write.                                                       *)

LEMMA StartWriteStep ==
  ASSUME IInv, NEW c \in Commands, StartWrite(c)
  PROVE  IInv'
<1>1. UNCHANGED <<store, counts, cursors, version, acked>> /\ foreign' = Undisturbed
  BY DEF StartWrite
<1>2. TypedState' /\ CountsInv' /\ CursorsInv'
  BY <1>1, NoHistory DEF IInv, CacheInv, CountsInv, CursorsInv, TrueCountOf
<1>3. c \in WriteCommands
  BY CommandsAssumption
<1>4. CASE c.kind = "rename" /\ c.new = c.id
  <2>1. req' = Idle /\ reply' = Done(c)
    BY <1>4 DEF StartWrite, Answer
  <2>2. c.table \in Tables /\ c.rank = None
    BY <1>3, <1>4 DEF WriteCommands
  <2>3. AnsweredInv'
    BY <1>4, <2>1, <2>2, AnsweredWrite DEF StandsIn, WriteKinds
  <2>4. PageInv'
    BY <2>1 DEF PageInv, Done
  <2> QED BY <1>2, <2>1, <2>3, <2>4, NothingInHand DEF IInv, CacheInv, WriteInv
<1>5. CASE c.kind = "rename" /\ c.new # c.id
  <2>1. req' = [c EXCEPT !.stage = "get"] /\ reply' = None
    BY <1>5 DEF StartWrite
  <2>2. c \in [kind : {"rename"}, table : Tables, id : Ids, new : Ids, rank : {None}, stage : {None}]
    BY <1>3, <1>5 DEF WriteCommands
  <2>3. /\ req' \in Renames /\ req'.kind = "rename" /\ req'.stage = "get" /\ req'.rank = None
        /\ req'.new # req'.id
    BY <1>5, <2>1, <2>2 DEF Renames
  <2>4. QueryInv' /\ RenameInv' /\ RequestInv'
    BY <2>1, <2>3 DEF QueryInv, RenameInv, RequestInv, Idle, WriteKinds
  <2> QED BY <1>2, <2>1, <2>4, NoAnswer DEF IInv, CacheInv, WriteInv
<1>6. CASE c.kind # "rename"
  <2>1. req' = c /\ reply' = None
    BY <1>6 DEF StartWrite
  <2>2. c \in SingleWrites /\ c.kind \in {"insert", "update", "delete"}
    BY <1>3, <1>6 DEF WriteCommands, SingleWrites
  <2>3. QueryInv' /\ RenameInv' /\ RequestInv'
    BY <2>1, <2>2 DEF QueryInv, RenameInv, RequestInv, Idle, WriteKinds
  <2> QED BY <1>2, <2>1, <2>3, NoAnswer DEF IInv, CacheInv, WriteInv
<1> QED BY <1>4, <1>5, <1>6

LEMMA InsertRecordStep ==
  ASSUME IInv, InsertRecord
  PROVE  IInv'
<1>1. req \in [kind : {"insert"}, table : Tables, id : Ids \cup {None}, rank : Ranks]
  BY DEF InsertRecord, IInv, WriteInv, RequestInv, SingleWrites
<1>2. PICK out \in Outcomes, i \in IF req.id = None THEN Ids ELSE {req.id} :
        /\ CallCreate(req.table, i, req.rank, out)
        /\ Conclude([req EXCEPT !.id = i], out)
  BY DEF InsertRecord
<1> DEFINE r == [req EXCEPT !.id = i]
           t == req.table
           docs == WithDoc(store[t], i, req.rank)
<1>3. i \in Ids /\ t \in Tables /\ req.rank \in Ranks /\ store[t] \in Collections
  BY <1>1, <1>2 DEF IInv, TypedState
<1>4. r.kind = "insert" /\ r.table = t /\ r.id = i /\ r.rank = req.rank
  BY <1>1
<1>5. docs \in Collections /\ Holds(docs, i, req.rank)
  BY <1>3, WithDocFacts DEF Holds
<1>6. Call(t, i \notin DOMAIN store[t], docs, out)
  BY <1>2 DEF CallCreate
<1> HIDE DEF docs, r
<1>7. Moves(t) /\ (out # "failed" => store'[t] = docs)
  BY <1>3, <1>5, <1>6, CallMoves DEF IInv
<1>8. out = "ok" => StandsIn(store'[t], r)
  BY <1>4, <1>5, <1>7 DEF StandsIn
<1>9. Conclude(r, out) /\ UNCHANGED foreign
  BY <1>2 DEF InsertRecord, r
<1> QED BY <1>3, <1>4, <1>7, <1>8, <1>9, ConcludeStep DEF WriteKinds

LEMMA UpdateRecordStep ==
  ASSUME IInv, UpdateRecord
  PROVE  IInv'
<1>1. req \in [kind : {"update"}, table : Tables, id : Ids, rank : Ranks]
  BY DEF UpdateRecord, IInv, WriteInv, RequestInv, SingleWrites
<1>2. PICK out \in Outcomes :
        CallUpdate(req.table, req.id, req.rank, out) /\ Conclude(req, out)
  BY DEF UpdateRecord
<1> DEFINE t == req.table
           docs == WithDoc(store[t], req.id, req.rank)
<1>3. /\ t \in Tables /\ store[t] \in Collections
      /\ req.kind = "update" /\ req.id \in Ids /\ req.rank \in Ranks
  BY <1>1 DEF IInv, TypedState
<1>4. docs \in Collections /\ Holds(docs, req.id, req.rank)
  BY <1>3, WithDocFacts DEF Holds
<1>5. Call(t, TRUE, docs, out)
  BY <1>2 DEF CallUpdate
<1> HIDE DEF docs
<1>6. Moves(t) /\ (out # "failed" => store'[t] = docs)
  BY <1>3, <1>4, <1>5, CallMoves DEF IInv
<1>7. out = "ok" => StandsIn(store'[t], req)
  BY <1>3, <1>4, <1>6 DEF StandsIn
<1>8. UNCHANGED foreign
  BY DEF UpdateRecord
<1> QED BY <1>2, <1>3, <1>6, <1>7, <1>8, ConcludeStep DEF WriteKinds

LEMMA DeleteRecordStep ==
  ASSUME IInv, DeleteRecord
  PROVE  IInv'
<1>1. req \in [kind : {"delete"}, table : Tables, id : Ids]
  BY DEF DeleteRecord, IInv, WriteInv, RequestInv, SingleWrites
<1>2. PICK out \in Outcomes : CallDelete(req.table, req.id, out) /\ Conclude(req, out)
  BY DEF DeleteRecord
<1> DEFINE t == req.table
           docs == WithoutDoc(store[t], req.id)
<1>3. t \in Tables /\ store[t] \in Collections /\ req.kind = "delete"
  BY <1>1 DEF IInv, TypedState
<1>4. docs \in Collections /\ req.id \notin DOMAIN docs
  BY <1>3, WithoutDocFacts
<1>5. Call(t, TRUE, docs, out)
  BY <1>2 DEF CallDelete
<1> HIDE DEF docs
<1>6. Moves(t) /\ (out # "failed" => store'[t] = docs)
  BY <1>3, <1>4, <1>5, CallMoves DEF IInv
<1>7. out = "ok" => StandsIn(store'[t], req)
  BY <1>3, <1>4, <1>6 DEF StandsIn
<1>8. UNCHANGED foreign
  BY DEF DeleteRecord
<1> QED BY <1>2, <1>3, <1>6, <1>7, <1>8, ConcludeStep DEF WriteKinds
-----------------------------------------------------------------------------
(* Steps of a rename.                                                      *)

LEMMA RenameFacts ==
  ASSUME IInv, req.kind = "rename"
  PROVE  /\ req \in Renames /\ req.new # req.id /\ reply = None
         /\ req.table \in Tables /\ store[req.table] \in Collections
         /\ req.id \in Ids /\ req.new \in Ids /\ req.rank \in Ranks \cup {None}
<1>1. req \in Renames /\ req.new # req.id /\ reply = None
  BY DEF IInv, WriteInv, RenameInv, RequestInv, Idle
<1>2. /\ req.table \in Tables /\ req.id \in Ids /\ req.new \in Ids
      /\ req.rank \in Ranks \cup {None}
  BY <1>1 DEF Renames
<1> QED BY <1>1, <1>2 DEF IInv, TypedState

\* A rename that goes on: only its stage and the content it carries change.
Onward(s, r, rank, stage) ==
  /\ s \in Renames /\ s.kind = "rename" /\ s.table = r.table /\ s.id = r.id /\ s.new = r.new
  /\ s.rank = rank /\ s.rank # None /\ s.stage = stage

LEMMA StageFacts ==
  ASSUME NEW r \in Renames, NEW rank \in Ranks, NEW stage \in {"check", "create", "delete"}
  PROVE  /\ Onward([r EXCEPT !.stage = stage, !.rank = rank], r, rank, stage)
         /\ r.rank = rank => Onward([r EXCEPT !.stage = stage], r, rank, stage)
<1>1. rank # None
  BY IdsAssumption, NoneAssumption
<1>2. Onward([r EXCEPT !.stage = stage, !.rank = rank], r, rank, stage)
  BY <1>1 DEF Renames, Onward
<1>3. r.rank = rank => Onward([r EXCEPT !.stage = stage], r, rank, stage)
  BY <1>1 DEF Renames, Onward
<1> QED BY <1>2, <1>3

\* A rename that stops without a call leaves everything as it is.
LEMMA StopStep ==
  ASSUME IInv, req.kind = "rename", Answer(GaveUp(req)),
         UNCHANGED <<store, counts, cursors, now, history>>,
         req.rank # None /\ ~foreign[req.table] => KeptIn(store[req.table], req)
  PROVE  IInv'
<1>1. Conclude(req, "failed")
  BY DEF Conclude, history
<1>2. Moves(req.table)
  BY DEF Moves, IInv, TypedState, history
<1> QED BY <1>1, <1>2, RenameFacts, ConcludeStep DEF WriteKinds, history

LEMMA RenameGetStep ==
  ASSUME IInv, RenameGet
  PROVE  IInv'
<1> DEFINE t == req.table
<1>1. /\ req.kind = "rename" /\ req.stage = "get"
      /\ UNCHANGED <<store, counts, cursors, now, version, acked, foreign>>
  BY DEF RenameGet, history
<1>2. CASE Answer(GaveUp(req))
  <2>1. req.rank = None
    BY <1>1 DEF IInv, WriteInv, RenameInv
  <2> QED BY <1>1, <1>2, <2>1, StopStep DEF history
<1>3. CASE /\ req.id \in DOMAIN store[t] /\ UNCHANGED reply
           /\ req' = [req EXCEPT !.stage = "check", !.rank = store[t][req.id]]
  <2>1. store[t][req.id] \in Ranks
    BY <1>1, <1>3, RenameFacts DEF Collections
  <2>2. Onward(req', req, store[t][req.id], "check")
    BY <1>1, <1>3, <2>1, RenameFacts, StageFacts
  <2>3. RenameInv'
    BY <1>1, <1>3, <2>2, RenameFacts DEF RenameInv, Holds, Onward
  <2>4. Moves(t)
    BY <1>1 DEF Moves, IInv, TypedState
  <2> QED BY <1>1, <1>3, <2>2, <2>3, <2>4, RenameFacts, GoesOn DEF Onward
<1> QED BY <1>2, <1>3 DEF RenameGet

\* While the check and the create are to come, the source holds the content.
LEMMA SourceHolds ==
  ASSUME IInv, req.kind = "rename", req.stage \in {"check", "create"}
  PROVE  /\ req.rank \in Ranks
         /\ ~foreign[req.table] => Holds(store[req.table], req.id, req.rank)
<1>1. req.rank # None
  BY DEF IInv, WriteInv, RenameInv
<1> QED BY <1>1, RenameFacts DEF IInv, WriteInv, RenameInv

LEMMA RenameCheckStep ==
  ASSUME IInv, RenameCheck
  PROVE  IInv'
<1> DEFINE t == req.table
<1>1. /\ req.kind = "rename" /\ req.stage = "check"
      /\ UNCHANGED <<store, counts, cursors, now, version, acked, foreign>>
  BY DEF RenameCheck, history
<1>2. CASE Answer(GaveUp(req))
  BY <1>1, <1>2, SourceHolds, StopStep DEF history, KeptIn
<1>3. CASE req' = [req EXCEPT !.stage = "create"] /\ UNCHANGED reply
  <2>1. Onward(req', req, req.rank, "create")
    BY <1>1, <1>3, SourceHolds, RenameFacts, StageFacts
  <2>2. RenameInv'
    BY <1>1, <1>3, <2>1, SourceHolds, RenameFacts DEF RenameInv, Onward
  <2>3. Moves(t)
    BY <1>1 DEF Moves, IInv, TypedState
  <2> QED BY <1>1, <1>3, <2>1, <2>2, <2>3, RenameFacts, GoesOn DEF Onward
<1> QED BY <1>2, <1>3 DEF RenameCheck

LEMMA RenameCreateStep ==
  ASSUME IInv, RenameCreate
  PROVE  IInv'
<1> DEFINE t == req.table
           docs == WithDoc(store[t], req.new, req.rank)
<1>1. /\ req.kind = "rename" /\ req.stage = "create"
      /\ UNCHANGED <<counts, cursors, now, acked, foreign>>
  BY DEF RenameCreate
<1>2. PICK out \in Outcomes :
        /\ CallCreate(t, req.new, req.rank, out)
        /\ IF out = "ok"
             THEN /\ req' = [req EXCEPT !.stage = "delete"]
                  /\ UNCHANGED reply
             ELSE Answer(GaveUp(req))
  BY DEF RenameCreate
<1>3. /\ t \in Tables /\ store[t] \in Collections /\ req.new \in Ids /\ req.id # req.new
      /\ req.rank \in Ranks /\ (~foreign[t] => Holds(store[t], req.id, req.rank))
  BY <1>1, RenameFacts, SourceHolds
<1>4. /\ docs \in Collections /\ Holds(docs, req.new, req.rank)
      /\ ~foreign[t] => Holds(docs, req.id, req.rank)
  BY <1>3, WithDocFacts DEF Holds
<1>5. Call(t, req.new \notin DOMAIN store[t], docs, out)
  BY <1>2 DEF CallCreate
<1> HIDE DEF docs
<1>6. /\ Moves(t) /\ (out # "failed" => store'[t] = docs)
      /\ out = "failed" => store' = store
  BY <1>3, <1>4, <1>5, CallMoves DEF IInv
<1>7. CASE out = "ok"
  <2>1. Onward(req', req, req.rank, "delete")
    BY <1>1, <1>2, <1>3, <1>7, RenameFacts, StageFacts
  <2>2. Holds(store'[t], req.new, req.rank)
    BY <1>4, <1>6, <1>7
  <2>3. RenameInv'
    BY <1>1, <1>3, <2>1, <2>2 DEF RenameInv, Onward
  <2> QED BY <1>1, <1>2, <1>3, <1>6, <1>7, <2>1, <2>3, RenameFacts, GoesOn DEF Onward
<1>8. CASE out # "ok"
  <2>1. Conclude(req, out)
    BY <1>1, <1>2, <1>8 DEF Conclude
  <2>2. ~foreign[t] => KeptIn(store'[t], req)
    BY <1>3, <1>4, <1>6 DEF KeptIn
  <2> QED BY <1>1, <1>3, <1>6, <1>8, <2>1, <2>2, ConcludeStep DEF WriteKinds
<1> QED BY <1>7, <1>8

LEMMA RenameDeleteStep ==
  ASSUME IInv, RenameDelete
  PROVE  IInv'
<1> DEFINE t == req.table
           docs == WithoutDoc(store[t], req.id)
<1>1. req.kind = "rename" /\ req.stage = "delete" /\ UNCHANGED foreign
  BY DEF RenameDelete
<1>2. PICK out \in Outcomes : CallDelete(t, req.id, out) /\ Conclude(req, out)
  BY DEF RenameDelete
<1>3. /\ t \in Tables /\ store[t] \in Collections /\ req.id # req.new
      /\ ~foreign[t] => Holds(store[t], req.new, req.rank)
  BY <1>1, RenameFacts DEF IInv, WriteInv, RenameInv
<1>4. /\ docs \in Collections /\ req.id \notin DOMAIN docs
      /\ ~foreign[t] => Holds(docs, req.new, req.rank)
  BY <1>3, WithoutDocFacts DEF Holds
<1>5. Call(t, TRUE, docs, out)
  BY <1>2 DEF CallDelete
<1> HIDE DEF docs
<1>6. /\ Moves(t) /\ (out # "failed" => store'[t] = docs)
      /\ out = "failed" => store' = store
  BY <1>3, <1>4, <1>5, CallMoves DEF IInv
<1>7. out = "ok" /\ ~foreign[t] => StandsIn(store'[t], req)
  BY <1>1, <1>4, <1>6 DEF StandsIn
<1>8. ~foreign[t] => KeptIn(store'[t], req)
  BY <1>3, <1>4, <1>6 DEF KeptIn
<1> QED BY <1>1, <1>2, <1>3, <1>6, <1>7, <1>8, ConcludeStep DEF WriteKinds
-----------------------------------------------------------------------------
(* Steps of the others, and of time.                                       *)

\* Another writer moves a collection and is noted.
LEMMA ForeignWriteStep ==
  ASSUME IInv, NEW t \in Tables, ForeignWrite(t)
  PROVE  IInv'
<1>1. /\ foreign' = [foreign EXCEPT ![t] = TRUE]
      /\ UNCHANGED <<counts, cursors, now, req, reply, acked>>
  BY DEF ForeignWrite
<1>2. Moves(t)
  <2>1. PICK i \in Ids : \/ \E r \in Ranks : Write(t, WithDoc(store[t], i, r))
                         \/ i \in DOMAIN store[t] /\ Write(t, WithoutDoc(store[t], i))
    BY DEF ForeignWrite
  <2>2. store[t] \in Collections
    BY DEF IInv, TypedState
  <2>3. ASSUME NEW r \in Ranks, Write(t, WithDoc(store[t], i, r))
        PROVE  Moves(t)
    BY <2>2, <2>3, WithDocFacts, WriteMoves DEF IInv
  <2>4. ASSUME Write(t, WithoutDoc(store[t], i))
        PROVE  Moves(t)
    BY <2>2, <2>4, WithoutDocFacts, WriteMoves DEF IInv
  <2> QED BY <2>1, <2>3, <2>4
<1>3. foreign \in [Tables -> BOOLEAN]
  BY DEF IInv, TypedState
<1>4. \A u \in Tables : ~foreign'[u] => u # t /\ ~foreign[u] /\ store'[u] = store[u]
  BY <1>1, <1>2, <1>3 DEF Moves
<1>5. TypedState'
  <2>1. \A u \in Tables : acked[u] <= version'[u]
    BY <1>2 DEF IInv, TypedState, Moves
  <2> QED BY <1>1, <1>2, <1>3, <2>1 DEF IInv, TypedState, Moves
<1>6. CountsInv' /\ CursorsInv' /\ PageInv'
  BY <1>1, <1>2, CountsMove DEF IInv, CacheInv, CursorsInv, PageInv
<1>7. QueryInv'
  <2> SUFFICES ASSUME req.kind = "query"
               PROVE  QueryInv'
    BY <1>1 DEF QueryInv
  <2> DEFINE u == req.q.table
             x == req.count
  <2>1. u \in Tables
    BY QueriesAssumption DEF IInv, CacheInv, QueryInv
  <2>2. /\ version[u] \in Nat /\ version'[u] \in Nat /\ version[u] <= version'[u]
        /\ version'[u] = version[u] => store'[u] = store[u]
    BY <1>2, <2>1 DEF IInv, TypedState, Moves
  <2>3. x \notin {Pending, Failed, None} =>
          TrueCount(x, acked[u], version[u], store[u], req.q.where)
    BY DEF IInv, CacheInv, QueryInv, TrueCountOf
  <2>4. x \notin {Pending, Failed, None} =>
          TrueCount(x, acked[u], version'[u], store'[u], req.q.where)
    BY <2>2, <2>3 DEF TrueCount, ReadSince
  <2> QED BY <1>1, <2>4 DEF IInv, CacheInv, QueryInv, TrueCountOf
<1>8. RequestInv'
  BY <1>1 DEF IInv, WriteInv, RequestInv
<1>9. RenameInv'
  <2>1. req.kind = "rename" => req.table \in Tables
    BY RenameFacts
  <2> QED BY <1>1, <1>4, <2>1 DEF IInv, WriteInv, RenameInv
<1>10. AnsweredInv'
  <2> SUFFICES ASSUME reply # None, reply.kind \in {"done", "failed"}
               PROVE  AnsweredInv'
    BY <1>1 DEF AnsweredInv
  <2> DEFINE u == reply.of.table
  <2>1. u \in Tables
    BY DEF IInv, WriteInv, AnsweredInv
  <2>2. CASE foreign'[u]
    BY <1>1, <2>1, <2>2 DEF AnsweredInv
  <2>3. CASE ~foreign'[u]
    <3>1. ~foreign[u] /\ store'[u] = store[u]
      BY <1>4, <2>1, <2>3
    <3>2. /\ reply.kind = "done" => Stands(reply.of)
          /\ reply.of.kind = "rename" /\ reply.of.rank # None => Kept(reply.of)
      BY <3>1 DEF IInv, WriteInv, AnsweredInv
    <3>3. reply.kind = "done" => Stands(reply.of)'
      BY <1>1, <3>1, <3>2 DEF Stands
    <3>4. reply.of.kind = "rename" /\ reply.of.rank # None => Kept(reply.of)'
      BY <1>1, <3>1, <3>2 DEF Kept
    <3> QED BY <1>1, <2>1, <3>3, <3>4 DEF AnsweredInv
  <2> QED BY <2>2, <2>3
<1> QED BY <1>5, <1>6, <1>7, <1>8, <1>9, <1>10 DEF IInv, CacheInv, WriteInv

\* Time passes, or nothing happens.
LEMMA QuietStep ==
  ASSUME IInv, UNCHANGED <<store, counts, cursors, req, reply, history>>
  PROVE  IInv'
<1> USE DEF history
<1>1. TypedState' /\ CacheInv'
  BY DEF IInv, TypedState, CacheInv, CountsInv, CursorsInv, QueryInv, PageInv, TrueCountOf
<1>2. RequestInv' /\ RenameInv'
  BY DEF IInv, WriteInv, RequestInv, RenameInv
<1>3. AnsweredInv'
  BY DEF IInv, WriteInv, AnsweredInv, Stands, Kept
<1> QED BY <1>1, <1>2, <1>3 DEF IInv, WriteInv
-----------------------------------------------------------------------------
LEMMA NextInv == IInv /\ [Next]_vars => IInv'
<1> SUFFICES ASSUME IInv, [Next]_vars
             PROVE  IInv'
  OBVIOUS
<1>1. CASE QueryNext
  BY <1>1, RejectStep, StartQueryStep, FetchDataStep, FetchCountStep, FailQueryStep, AnswerQueryStep
     DEF QueryNext, QueryStep
<1>2. CASE CrudNext
  BY <1>2, RejectStep, StartWriteStep, InsertRecordStep, UpdateRecordStep, DeleteRecordStep,
     RenameGetStep, RenameCheckStep, RenameCreateStep, RenameDeleteStep
     DEF CrudNext, WriteStep
<1>3. CASE \E t \in Tables : ForeignWrite(t)
  BY <1>3, ForeignWriteStep
<1>4. CASE Tick \/ UNCHANGED vars
  BY <1>4, QuietStep DEF Tick, vars, history
<1> QED BY <1>1, <1>2, <1>3, <1>4 DEF Next

\* The inductive invariant holds of every behaviour.
THEOREM Invariant == Spec => []IInv
<1> QED BY InitInv, NextInv, PTL DEF Spec

\* No count, no cursor and no answered page is older than the last write the
\* plugin reported done, whatever calls fail and whoever else writes
\* (state.rs:93-117).
THEOREM ReadYourWritesHolds == Spec => []ReadYourWrites
<1>1. IInv => ReadYourWrites
  <2> SUFFICES ASSUME IInv PROVE ReadYourWrites
    OBVIOUS
  <2>1. \A k \in CachedKeys(counts) : counts.entries[k].value.asof >= acked[k[1]]
    BY DEF IInv, TypedState, CacheInv, CountsInv, TrueCountOf, TrueCount, ReadSince, CachedValue
  <2>2. ASSUME NEW q \in CachedKeys(cursors), NEW o \in DOMAIN CachedCursors(q)
        PROVE  CachedCursors(q)[o].asof >= acked[q.table]
    <3>1. q \in Queries /\ ReadSince(CachedCursors(q)[o], acked[q.table])
      BY DEF IInv, CacheInv, CursorsInv, KnownSince, CachedValue, CachedCursors
    <3>2. acked[q.table] \in Nat
      BY <3>1, QueriesAssumption DEF IInv, TypedState
    <3> QED BY <3>1, <3>2 DEF ReadSince
  <2>3. reply # None /\ reply.kind = "page" => reply.asof >= acked[reply.q.table]
    <3> SUFFICES ASSUME reply # None, reply.kind = "page"
                 PROVE  reply.asof >= acked[reply.q.table]
      OBVIOUS
    <3>1. reply.q \in Queries /\ ReadSince(reply, acked[reply.q.table])
      BY DEF IInv, CacheInv, PageInv
    <3>2. acked[reply.q.table] \in Nat
      BY <3>1, QueriesAssumption DEF IInv, TypedState
    <3> QED BY <3>1, <3>2 DEF ReadSince
  <2> QED BY <2>1, <2>2, <2>3 DEF ReadYourWrites
<1> QED BY <1>1, Invariant, PTL

\* A cached count that nobody has outrun is the number of documents that match
\* the key it is cached under (query.rs:206-226, 281-307).
THEOREM CountsExactHolds == Spec => []CountsExact
<1>1. IInv => CountsExact
  BY DEF IInv, CacheInv, CountsInv, TrueCountOf, TrueCount, CountsExact, CachedValue
<1> QED BY <1>1, Invariant, PTL

\* A write reported done is there until somebody else writes (crud.rs:12-230).
THEOREM DoneWritesStandHolds == Spec => []DoneWritesStand
<1>1. IInv => DoneWritesStand
  BY DEF IInv, WriteInv, AnsweredInv, DoneWritesStand
<1> QED BY <1>1, Invariant, PTL

\* A rename may leave two copies and never none (crud.rs:232-319).
THEOREM RenameLosesNothingHolds == Spec => []RenameLosesNothing
<1>1. IInv => RenameLosesNothing
  <2> SUFFICES ASSUME IInv PROVE RenameLosesNothing
    OBVIOUS
  <2>1. ASSUME RenameInHand, ~foreign[req.table]
        PROVE  Kept(req)
    <3>1. req.stage \in {"check", "create", "delete"}
      BY <2>1 DEF RenameInHand, IInv, WriteInv, RenameInv, Renames
    <3>2. \/ Holds(store[req.table], req.id, req.rank)
          \/ Holds(store[req.table], req.new, req.rank)
      BY <2>1, <3>1 DEF RenameInHand, IInv, WriteInv, RenameInv
    <3> QED BY <3>2 DEF Holds, Kept
  <2>2. RenameAnswered /\ ~foreign[reply.of.table] => Kept(reply.of)
    BY DEF RenameAnswered, IInv, WriteInv, AnsweredInv
  <2> QED BY <2>1, <2>2 DEF RenameLosesNothing
<1> QED BY <1>1, Invariant, PTL
-----------------------------------------------------------------------------
\* While an insert or a rename has calls to come, and when it is answered, no
\* document that exists is given other content: create_doc refuses, and the
\* delete of a rename takes the source away (crud.rs:277-303).
THEOREM CreatesNeverOverwriteHolds == Spec => CreatesNeverOverwrite
<1> DEFINE Safe == req.kind \in {"insert", "rename"} /\ req' # req =>
                     \A t \in Tables : \A i \in DOMAIN store[t] \cap DOMAIN store'[t] :
                       store'[t][i] = store[t][i]
<1>1. ASSUME IInv, [Next]_vars, req.kind \in {"insert", "rename"}, req' # req
      PROVE  \/ UNCHANGED store
             \/ \E t \in Tables, i \in Ids, rank \in Ranks :
                  i \notin DOMAIN store[t] /\ Write(t, WithDoc(store[t], i, rank))
             \/ \E t \in Tables, i \in Ids : Write(t, WithoutDoc(store[t], i))
  <2> USE <1>1
  <2>1. CASE InsertRecord
    <3>1. req.table \in Tables /\ req.id \in Ids \cup {None} /\ req.rank \in Ranks
      BY <2>1 DEF InsertRecord, IInv, WriteInv, RequestInv, SingleWrites
    <3>2. PICK out \in Outcomes, i \in IF req.id = None THEN Ids ELSE {req.id} :
            CallCreate(req.table, i, req.rank, out)
      BY <2>1 DEF InsertRecord
    <3> QED BY <3>1, <3>2 DEF CallCreate, Call
  <2>2. CASE RenameCreate
    <3>1. PICK out \in Outcomes : CallCreate(req.table, req.new, req.rank, out)
      BY <2>2 DEF RenameCreate
    <3> QED BY <2>2, <3>1, RenameFacts, SourceHolds DEF CallCreate, Call, RenameCreate
  <2>3. CASE RenameDelete
    <3>1. PICK out \in Outcomes : CallDelete(req.table, req.id, out)
      BY <2>3 DEF RenameDelete
    <3> QED BY <2>3, <3>1, RenameFacts DEF CallDelete, Call, RenameDelete
  <2>4. CASE RenameGet \/ RenameCheck
    BY <2>4 DEF RenameGet, RenameCheck
  <2>5. CASE UpdateRecord \/ DeleteRecord \/ QueryStep
    BY <2>5 DEF UpdateRecord, DeleteRecord, QueryStep, FetchData, FetchCount, FailQuery,
                AnswerQuery, BothBack
  <2>6. CASE RejectQuery \/ RejectWrite \/ (\E q \in Queries, p \in Pagings : StartQuery(q, p))
             \/ (\E c \in Commands : StartWrite(c))
    BY <2>6 DEF RejectQuery, RejectWrite, StartQuery, StartWrite, Idle
  <2>7. CASE (\E t \in Tables : ForeignWrite(t)) \/ Tick \/ UNCHANGED vars
    BY <2>7 DEF ForeignWrite, Tick, vars
  <2> QED BY <2>1, <2>2, <2>3, <2>4, <2>5, <2>6, <2>7
          DEF Next, QueryNext, CrudNext, WriteStep
<1>2. IInv /\ [Next]_vars => [Safe]_vars
  <2> SUFFICES ASSUME IInv, [Next]_vars, req.kind \in {"insert", "rename"}, req' # req,
                      NEW u \in Tables, NEW j \in DOMAIN store[u] \cap DOMAIN store'[u]
               PROVE  store'[u][j] = store[u][j]
    OBVIOUS
  <2>1. store \in [Tables -> Collections]
    BY DEF IInv, TypedState
  <2>2. CASE UNCHANGED store
    BY <2>2
  <2>3. ASSUME NEW t \in Tables, NEW i \in Ids, NEW rank, i \notin DOMAIN store[t],
               Write(t, WithDoc(store[t], i, rank))
        PROVE  store'[u][j] = store[u][j]
    BY <2>1, <2>3 DEF Write, WithDoc
  <2>4. ASSUME NEW t \in Tables, NEW i \in Ids, Write(t, WithoutDoc(store[t], i))
        PROVE  store'[u][j] = store[u][j]
    BY <2>1, <2>4 DEF Write, WithoutDoc, Restrict
  <2> QED BY <1>1, <2>2, <2>3, <2>4
<1> QED BY <1>2, Invariant, PTL DEF Spec, CreatesNeverOverwrite
=============================================================================
