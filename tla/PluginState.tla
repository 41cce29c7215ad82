----------------------------- MODULE PluginState ----------------------------
(***************************************************************************)
(* The state the handlers of the plugin share (src/src/state.rs), the      *)
(* database behind it, and the request in hand: main.rs reads a line,      *)
(* answers it, and only then reads the next, so there is one at a time.    *)
(* Others write to the database at any moment.                             *)
(*                                                                         *)
(* History: `version` counts the changes a collection has seen, `acked` is *)
(* the version left by the last write request the plugin answered as done, *)
(* `foreign` tells whether another writer has changed a collection since   *)
(* the request in hand began, and what is cached carries the version it    *)
(* was read at.                                                            *)
(***************************************************************************)
EXTENDS Firestore, TtlLruCacheOps

CONSTANTS
  Tables, Ids, Ranks,
  Queries,          \* the parsed queries the host sends: [table, where, order]
  InitialDocs,      \* the collections the runs start from
  CountCapacity, CountTtl, CursorCapacity, CursorTtl,   \* state.rs:44-52
  MaxTime, MaxVersion,  \* bounds on the clock and on the changes to each table
  None

ASSUME CapacitiesAssumption ==
  CountCapacity \in Nat \ {0} /\ CursorCapacity \in Nat \ {0}
ASSUME TtlsAssumption == CountTtl \in Nat /\ CursorTtl \in Nat
ASSUME BoundsAssumption == MaxTime \in Nat /\ MaxVersion \in [Tables -> Nat]
ASSUME IdsAssumption == Ids \subseteq Nat /\ IsFiniteSet(Ids) /\ Ranks \subseteq Nat
ASSUME NoneAssumption ==
  None \notin Nat /\ None \notin [id : Ids, rank : Ranks, asof : Nat]

\* What a collection may hold.
Collections == UNION {[ids -> Ranks] : ids \in SUBSET Ids}

ASSUME QueriesAssumption ==
  Queries \subseteq [table : Tables, where : SUBSET Ranks, order : {"id", "rank"}]
ASSUME InitialDocsAssumption == InitialDocs \subseteq Collections

VARIABLES
  store,    \* the collections, each a function from ids to ranks
  counts,   \* COUNT_CACHE: (table, where) -> count
  cursors,  \* CURSOR_CACHE: query -> offset -> the document closing that page
  now,      \* the clock both caches read
  req,      \* the request in hand
  reply,    \* the last answer
  version, acked, foreign  \* history

history == <<version, acked, foreign>>
vars == <<store, counts, cursors, now, req, reply, history>>

Idle == [kind |-> "idle"]
Pending == [state |-> "pending"]
Failed == [state |-> "failed"]
Error == [kind |-> "error"]  \* an answer to a query, or to a request rejected at once

CountKey(q) == <<q.table, q.where>>
QueryKey(q) == q

\* invalidate_table_caches: both caches forget every key of the table.  The slip
\* leaves the cursors.
InvalidateCounts(t) ==
  /\ counts' = CacheRemoveAll(counts, {k \in CachedKeys(counts) : k[1] = t})
  /\ UNCHANGED cursors

InvalidateTable(t) ==
  /\ counts' = CacheRemoveAll(counts, {k \in CachedKeys(counts) : k[1] = t})
  /\ cursors' = CacheRemoveAll(cursors, {k \in CachedKeys(cursors) : k.table = t})

\* A write reaches the collection; one that changes nothing leaves its version.
Write(t, docs) ==
  /\ docs # store[t] => version[t] < MaxVersion[t]
  /\ store' = [store EXCEPT ![t] = docs]
  /\ version' = [version EXCEPT ![t] = IF docs = store[t] THEN @ ELSE @ + 1]

\* The answer to the request in hand.
Answer(r) ==
  /\ reply' = r
  /\ req' = Idle

Undisturbed == [t \in Tables |-> FALSE]

InitState ==
  /\ store \in [Tables -> InitialDocs]
  /\ counts = EmptyCache
  /\ cursors = EmptyCache
  /\ now = 0
  /\ req = Idle
  /\ reply = None
  /\ version = [t \in Tables |-> 0]
  /\ acked = [t \in Tables |-> 0]
  /\ foreign = Undisturbed

\* The console, another client, or an application changes a document.
ForeignWrite(t) ==
  /\ \E i \in Ids :
       \/ \E r \in Ranks : Write(t, WithDoc(store[t], i, r))
       \/ i \in DOMAIN store[t] /\ Write(t, WithoutDoc(store[t], i))
  /\ store' # store
  /\ foreign' = [foreign EXCEPT ![t] = TRUE]
  /\ UNCHANGED <<counts, cursors, now, req, reply, acked>>

Tick ==
  /\ now < MaxTime
  /\ now' = now + 1
  /\ UNCHANGED <<store, counts, cursors, req, reply, history>>
=============================================================================
