--------------------------- MODULE TtlLruCacheOps ---------------------------
(***************************************************************************)
(* The bounded cache with expiry of src/src/cache.rs, as operators on a    *)
(* cache value                                                             *)
(*                                                                         *)
(*   c = [entries |-> key :> [value, inserted_at], order |-> keys in the   *)
(*        order they came in, the front first]                             *)
(*                                                                         *)
(* Both caches of the plugin (COUNT_CACHE and CURSOR_CACHE) are such       *)
(* values, so the operators take the capacity and the time to live.  The   *)
(* clock is a natural number; an Instant is its reading.                   *)
(*                                                                         *)
(* Here as in the other modules a definition introduced as a "slip" is a   *)
(* way to get the one below it wrong; PROJECT.json pairs it with the       *)
(* property that notices.                                                  *)
(***************************************************************************)
EXTENDS Naturals, FiniteSets, Sequences, Functions

EmptyCache == [entries |-> [k \in {} |-> {}], order |-> <<>>]

CachedKeys(c) == DOMAIN c.entries

\* A key occurs at most once in the order (OrderEnumeratesEntries), so that
\* dropping its one occurrence is what `retain` does.
Forget(order, k) ==
  IF k \in Range(order)
    THEN LET i == CHOOSE i \in DOMAIN order : order[i] = k
         IN SubSeq(order, 1, i - 1) \o SubSeq(order, i + 1, Len(order))
    ELSE order

\* The slip leaves the place in the order.
CacheRemoveEntryOnly(c, k) ==
  [entries |-> Restrict(c.entries, CachedKeys(c) \ {k}), order |-> c.order]

\* remove, and the eviction in get: the entry and its place in the order.
CacheRemove(c, k) ==
  [entries |-> Restrict(c.entries, CachedKeys(c) \ {k}),
   order   |-> Forget(c.order, k)]

\* The slip measures a tick too long.
ExpiredLate(c, k, now, ttl) ==
  /\ k \in CachedKeys(c)
  /\ now - c.entries[k].inserted_at > ttl + 1

Expired(c, k, now, ttl) ==
  /\ k \in CachedKeys(c)
  /\ now - c.entries[k].inserted_at > ttl

\* What get leaves behind: it evicts the key it finds expired and no other,
\* and a hit changes nothing.
CacheAfterGet(c, k, now, ttl) ==
  IF Expired(c, k, now, ttl) THEN CacheRemove(c, k) ELSE c

\* Whether get answers with the value of the entry.
CacheHits(c, k, now, ttl) ==
  k \in CachedKeys(c) /\ ~Expired(c, k, now, ttl)

\* The keys popped from the front when n of them are.
FrontKeys(c, n) == {c.order[i] : i \in 1..n}

\* Slips: the loop that stops one entry too late, and one too early.
PoppedForTwo(c, capacity) ==
  LET AtCapacity(n) == Cardinality(CachedKeys(c) \ FrontKeys(c, n)) + 1 >= capacity
  IN CHOOSE n \in 0..Len(c.order) :
       /\ n = Len(c.order) \/ ~AtCapacity(n)
       /\ \A m \in 0..(n - 1) : AtCapacity(m)

PoppedWhenOver(c, capacity) ==
  LET OverCapacity(n) == Cardinality(CachedKeys(c) \ FrontKeys(c, n)) > capacity
  IN CHOOSE n \in 0..Len(c.order) :
       /\ n = Len(c.order) \/ ~OverCapacity(n)
       /\ \A m \in 0..(n - 1) : OverCapacity(m)

\* How many keys the eviction loop pops: it goes on while the entries are at
\* capacity and stops, too, when the order is empty.
Popped(c, capacity) ==
  LET AtCapacity(n) == Cardinality(CachedKeys(c) \ FrontKeys(c, n)) >= capacity
  IN CHOOSE n \in 0..Len(c.order) :
       /\ n = Len(c.order) \/ ~AtCapacity(n)
       /\ \A m \in 0..(n - 1) : AtCapacity(m)

EvictOldest(c, capacity) ==
  LET n == Popped(c, capacity)
  IN [entries |-> Restrict(c.entries, CachedKeys(c) \ FrontKeys(c, n)),
      order   |-> SubSeq(c.order, n + 1, Len(c.order))]

\* The slip stamps an entry with the tick before.
PutEntryBackdated(entries, k, value, now) ==
  [j \in DOMAIN entries \cup {k} |->
     IF j = k THEN [value |-> value, inserted_at |-> now - 1] ELSE entries[j]]

PutEntry(entries, k, value, now) ==
  [j \in DOMAIN entries \cup {k} |->
     IF j = k THEN [value |-> value, inserted_at |-> now] ELSE entries[j]]

\* insert: a key that is present is refreshed in place and keeps its place in
\* the order; a new one evicts the oldest while the cache is full, and goes to
\* the back.
CacheInsert(c, k, value, now, capacity) ==
  IF k \in CachedKeys(c)
    THEN [entries |-> PutEntry(c.entries, k, value, now), order |-> c.order]
    ELSE LET e == EvictOldest(c, capacity)
         IN [entries |-> PutEntry(e.entries, k, value, now),
             order   |-> Append(e.order, k)]

\* invalidate_table_caches removes every key of a table, one after the other;
\* removals of distinct keys commute, so the order is what is left of it.
CacheRemoveAll(c, ks) ==
  [entries |-> Restrict(c.entries, CachedKeys(c) \ ks),
   order   |-> SelectSeq(c.order, LAMBDA k : k \notin ks)]
=============================================================================
