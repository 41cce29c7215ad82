------------------------------- MODULE Plugin -------------------------------
(***************************************************************************)
(* The plugin at work on its collections: one request after the other,     *)
(* queries (ExecuteQuery) and writes (Crud), over the two caches they      *)
(* share, while others write to the database and time passes.              *)
(***************************************************************************)
EXTENDS ExecuteQuery, Crud

Init == InitState

Next ==
  \/ QueryNext
  \/ CrudNext
  \/ \E t \in Tables : ForeignWrite(t)
  \/ Tick

\* Calls return and handlers go on: main.rs awaits each to its end, and tonic
\* ends every call, with an answer or an error.  Nothing makes the host, the
\* other writers or the clock go on.
Fairness == WF_vars(QueryStep) /\ WF_vars(WriteStep)

Spec == Init /\ [][Next]_vars /\ Fairness
-----------------------------------------------------------------------------
CountValue == [n : 0..Cardinality(Ids), asof : Nat]
IsCursor(doc) == doc \in [id : Ids, rank : Ranks, asof : Nat]

IsCount(c) == c \in {Pending, Failed, None} \cup CountValue
IsData(d) == d \in {Pending, Failed} \/ (d.state = "ok" /\ d.asof \in Nat)

\* The types of the shared state, of the request in hand and of the history.
TypeOK ==
  /\ store \in [Tables -> Collections]
  /\ \A k \in CachedKeys(counts) : counts.entries[k].value \in CountValue
  /\ \A k \in CachedKeys(cursors) :
       /\ k \in Queries
       /\ \A o \in DOMAIN cursors.entries[k].value :
            o \in Nat \ {0} /\ IsCursor(cursors.entries[k].value[o])
  /\ now \in 0..MaxTime
  /\ req.kind = "query" =>
       /\ req.cursor = None \/ IsCursor(req.cursor)
       /\ IsCount(req.count) /\ IsData(req.data)
       /\ req.skip \in Nat /\ req.skip <= req.offset
  /\ version \in [Tables -> Nat]
  /\ \A t \in Tables : /\ version[t] <= MaxVersion[t]
                       /\ acked[t] \in 0..version[t]
  /\ foreign \in [Tables -> BOOLEAN]
-----------------------------------------------------------------------------
(* What the caches hold, against what the database holds.                  *)

CachedCounts == {counts.entries[k].value : k \in CachedKeys(counts)}
CachedCursors(q) == cursors.entries[q].value

\* No count or cursor outlives a write the plugin reported done: whatever is
\* cached of a table, or on its way into the cache, was read after it
\* (state.rs:93-117 and its call at the end of every write handler).
ReadYourWrites ==
  /\ \A k \in CachedKeys(counts) : counts.entries[k].value.asof >= acked[k[1]]
  /\ \A q \in CachedKeys(cursors) : \A o \in DOMAIN CachedCursors(q) :
       CachedCursors(q)[o].asof >= acked[q.table]
  /\ reply # None /\ reply.kind = "page" => reply.asof >= acked[reply.q.table]

\* Unless somebody has written since, a cached count is the number of matching
\* documents: one collection's or one filter's count never answers for another.
CountsExact ==
  \A k \in CachedKeys(counts) :
    LET c == counts.entries[k].value
    IN c.asof = version[k[1]] => c.n = CountOf(store[k[1]], k[2])

\* Unless somebody has written since, the cursor cached for an offset is the
\* document at that place of the query's result, for a query without ties.
CursorsExact ==
  \A q \in CachedKeys(cursors) : \A o \in DOMAIN CachedCursors(q) :
    LET doc == CachedCursors(q)[o]
        rows == Rows(store[q.table], q, Matching(store[q.table], q.where))
    IN (doc.asof = version[q.table] /\ TieFree(store[q.table], q)) =>
         o <= Len(rows) /\ rows[o] = [id |-> doc.id, rank |-> doc.rank]

PageOf(r) == OffsetPage(store[r.q.table], r.q, r.offset, r.limit)
Unchanged(r) == r.asof = version[r.q.table]

\* Whichever way a page was reached (from the start, from the cursor of its
\* offset, from an earlier cursor with the rest skipped), it holds exactly the
\* rows that OFFSET and LIMIT would give, when nobody wrote since the chain of
\* cursors began and no two rows tie (query.rs:144-204, 280-289).
PagesExact ==
  (reply # None /\ reply.kind = "page" /\ Unchanged(reply) /\ TieFree(store[reply.q.table], reply.q))
    => reply.rows = PageOf(reply)

\* A request that ends in an error leaves no trace in the caches: the count
\* that a COUNT brought beside a data query that failed is not kept, nor does
\* a write that may not have happened cost the pages already known.
ErrorsCacheNothing ==
  [][reply' # None /\ reply'.kind \in {"error", "failed"} /\ req # Idle
       => UNCHANGED <<counts, cursors>>]_vars
-----------------------------------------------------------------------------
(* What writes do to documents.                                            *)

\* A write that was reported done is there, unless somebody else has changed
\* the collection meanwhile; a document that was renamed is no longer there
\* under its old id.
Stands(r) ==
  LET docs == store[r.table]
  IN CASE r.kind \in {"insert", "update"} -> r.id \in DOMAIN docs /\ docs[r.id] = r.rank
       [] r.kind = "delete" -> r.id \notin DOMAIN docs
       [] r.kind = "rename" ->
            \/ r.new = r.id
            \/ r.id \notin DOMAIN docs /\ r.new \in DOMAIN docs /\ docs[r.new] = r.rank

DoneWritesStand ==
  (reply # None /\ reply.kind = "done" /\ ~foreign[reply.of.table]) => Stands(reply.of)

\* However a rename ends, and at every step of it, the content read from the
\* source is in the collection under the old id or the new one, unless another
\* writer interferes (crud.rs:232-319).
RenameInHand == req.kind = "rename" /\ req.rank # None
RenameAnswered == reply # None /\ reply.kind \in {"done", "failed"} /\ reply.of.kind = "rename"
                    /\ reply.of.rank # None

Kept(r) == \E i \in {r.id, r.new} \cap DOMAIN store[r.table] : store[r.table][i] = r.rank

RenameLosesNothing ==
  /\ RenameInHand /\ ~foreign[req.table] => Kept(req)
  /\ RenameAnswered /\ ~foreign[reply.of.table] => Kept(reply.of)

\* Inserting and renaming never change a document that exists, whatever the
\* check for the new id answered and whoever wrote after it (crud.rs:277-303).
CreatesNeverOverwrite ==
  [][req.kind \in {"insert", "rename"} /\ req' # req =>
       \A t \in Tables : \A i \in DOMAIN store[t] \cap DOMAIN store'[t] :
         store'[t][i] = store[t][i]]_vars

\* Every request is answered: no order of calls and failures leaves a handler
\* waiting for what it has already been told.
EveryRequestAnswered == req # Idle ~> req = Idle
-----------------------------------------------------------------------------
(* What comments and the design notes say of the program, and the program  *)
(* does not do.  "Phase 2" is                                              *)
(* docs/superpowers/specs/2026-05-08-phase-2-firestore-query-layer-design. *)

PageReply == reply # None /\ reply.kind = "page"

\* query.rs:223-226, "For later pages the total hasn't changed since page 1";
\* Phase 2, lines 243-252: without a cached count every page counts.  A page
\* behind the first, when nobody writes, reports how many documents match.
TotalKeptOnLaterPages ==
  (PageReply /\ Unchanged(reply) /\ reply.offset > 0)
    => reply.total = CountOf(store[reply.q.table], reply.q.where)

\* Phase 2, lines 200-206, "expensive but correct" and "never worse": ties or
\* not, a page holds the rows that OFFSET and LIMIT give.
PagesExactWithTies ==
  (PageReply /\ Unchanged(reply)) => reply.rows = PageOf(reply)
=============================================================================
