---------------------------- MODULE TtlLruCache -----------------------------
(***************************************************************************)
(* One cache of src/src/cache.rs under every sequence of calls and the     *)
(* passage of time.  The plugin's handlers call it one at a time under a   *)
(* mutex, so each call is one action.  `written` and `newer` are history:  *)
(* what was put and not removed, and, for each key, the keys that entered  *)
(* the cache after it did.                                                 *)
(***************************************************************************)
EXTENDS TtlLruCacheOps

CONSTANTS
  Keys, Values,
  Capacity,   \* 200 counts, 100 cursors (state.rs)
  Ttl,        \* 30 s for counts, 300 s for cursors (state.rs)
  Miss,       \* the answer None
  MaxTime     \* bound on the clock

ASSUME CapacityAssumption == Capacity \in Nat \ {0}
ASSUME TtlAssumption == Ttl \in Nat
ASSUME MaxTimeAssumption == MaxTime \in Nat

VARIABLES
  cache,    \* the entries and their order
  now,      \* the clock
  reply,    \* the answer of the last get
  written,  \* history: the last value inserted under each key and when
  newer     \* history: the keys that entered after the key did

vars == <<cache, now, reply, written, newer>>

Absent == [present |-> FALSE]

Init ==
  /\ cache = EmptyCache
  /\ now = 0
  /\ reply = Miss
  /\ written = [k \in Keys |-> Absent]
  /\ newer = [k \in Keys |-> {}]

Get(k) ==
  /\ reply' = IF CacheHits(cache, k, now, Ttl)
                THEN [key |-> k, value |-> cache.entries[k].value]
                ELSE Miss
  /\ cache' = CacheAfterGet(cache, k, now, Ttl)
  /\ UNCHANGED <<now, written, newer>>

Insert(k, v) ==
  /\ cache' = CacheInsert(cache, k, v, now, Capacity)
  /\ written' = [written EXCEPT ![k] = [present |-> TRUE, value |-> v, at |-> now]]
  /\ newer' = IF k \in CachedKeys(cache)
                THEN newer
                ELSE [j \in Keys |-> IF j = k THEN {} ELSE newer[j] \cup {k}]
  /\ UNCHANGED <<now, reply>>

Remove(k) ==
  /\ cache' = CacheRemove(cache, k)
  /\ written' = [written EXCEPT ![k] = Absent]
  /\ UNCHANGED <<now, reply, newer>>

Tick ==
  /\ now < MaxTime
  /\ now' = now + 1
  /\ UNCHANGED <<cache, reply, written, newer>>

Next ==
  \/ \E k \in Keys : Get(k) \/ Remove(k) \/ \E v \in Values : Insert(k, v)
  \/ Tick

Spec == Init /\ [][Next]_vars
-----------------------------------------------------------------------------
Entry == [value : Values, inserted_at : Nat]
Written == {Absent} \cup [present : {TRUE}, value : Values, at : Nat]

\* The type of the cache of cache.rs:7-18, and of the history.
TypeOK ==
  /\ CachedKeys(cache) \subseteq Keys
  /\ cache.entries \in [CachedKeys(cache) -> Entry]
  /\ cache.order \in Seq(Keys)
  /\ now \in Nat
  /\ reply \in {Miss} \cup [key : Keys, value : Values]
  /\ written \in [Keys -> Written]
  /\ newer \in [Keys -> SUBSET Keys]

\* The order lists every cached key once and no other key: cache.rs keeps it
\* beside the entries by hand, in get, insert and remove.  A key left behind
\* would be popped for an entry that is gone; a key missing is never evicted.
OrderEnumeratesEntries ==
  /\ Range(cache.order) = CachedKeys(cache)
  /\ \A i, j \in DOMAIN cache.order : cache.order[i] = cache.order[j] => i = j

\* The cache never grows past its capacity, whatever the calls (cache.rs:56).
WithinCapacity == Cardinality(CachedKeys(cache)) <= Capacity

\* The entries are what was inserted last and not removed since, stamped with
\* the time of that insert.
EntriesAreLastWritten ==
  \A k \in CachedKeys(cache) :
    /\ written[k].present
    /\ cache.entries[k].value = written[k].value
    /\ cache.entries[k].inserted_at = written[k].at

\* An entry is lost before its time only to make room: a key that was not
\* removed and has not expired is cached, unless at least Capacity distinct
\* keys entered after it did (cache.rs:55-62 evicts the front, one at a time).
KeptUntilCapacityNewer ==
  \A k \in Keys :
    (written[k].present /\ now - written[k].at <= Ttl /\ k \notin CachedKeys(cache))
      => Cardinality(newer[k]) >= Capacity

\* What was written is what a map that loses nothing would hold; the entries and
\* their order are the implementation's own.
Promise == INSTANCE LossyTtlMap WITH written <- written, reply <- reply, now <- now

\* Every answer is one that a map which may forget, but never lies and never
\* answers past the time to live, could give.
ImplementsPromise == Promise!Spec
=============================================================================
