---------------------------- MODULE ExecuteQuery ----------------------------
(***************************************************************************)
(* execute_query of src/src/handlers/query.rs: it looks both caches up and *)
(* plans the data query (StartQuery), runs it, beside a COUNT on page one  *)
(* when no count is cached (FetchData, FetchCount: tokio::join!), then     *)
(* remembers the page's last document and the count, and answers           *)
(* (AnswerQuery).  Others write, and time passes, between these steps.     *)
(***************************************************************************)
EXTENDS PluginState

CONSTANTS
  Pagings  \* what the host and the SQL ask for: [page, size, limit, offset]

ASSUME PagingsAssumption ==
  Pagings \subseteq [page : Nat \cup {None}, size : Nat \cup {None},
                    limit : Nat \cup {None}, offset : Nat \cup {None}]

\* query.rs:102-109: each of the four may be absent.  The host's page counts
\* from the second on; for page one the OFFSET of the SQL stands.
EffectiveLimit(p) ==
  IF p.size # None THEN p.size ELSE IF p.limit # None THEN p.limit ELSE 100

EffectiveOffset(p) ==
  IF p.page # None /\ p.page > 1 THEN (p.page - 1) * EffectiveLimit(p)
  ELSE IF p.offset # None THEN p.offset ELSE 0

\* Slips: the nearest cursor taken from the wrong side of the offset, and an
\* earlier cursor used as if it were the offset's own.
CursorForFromAbove(known, offset) ==
  LET above == {o \in DOMAIN known : o >= offset}
  IN IF above = {} THEN None
     ELSE LET o == CHOOSE o \in above : \A x \in above : x >= o
          IN [at |-> o, doc |-> known[o]]

CursorForWithoutRest(known, offset) ==
  LET below == {o \in DOMAIN known : o <= offset}
  IN IF below = {} THEN None
     ELSE LET o == CHOOSE o \in below : \A x \in below : x <= o
          IN [at |-> offset, doc |-> known[o]]

\* query.rs:144-167: the cursor of exactly this offset, else the largest one
\* below it, else none; the rest of the way is skipped.
CursorFor(known, offset) ==
  LET below == {o \in DOMAIN known : o <= offset}
  IN IF below = {} THEN None
     ELSE LET o == CHOOSE o \in below : \A x \in below : x <= o
          IN [at |-> o, doc |-> known[o]]

\* The cursors an entry holds when it is read, none when it is gone or expired.
KnownCursors(c, q) ==
  IF CacheHits(c, QueryKey(q), now, CursorTtl)
    THEN c.entries[QueryKey(q)].value
    ELSE [o \in {} |-> None]

\* query.rs:80-227.  A request that cannot be parsed or breaks a filter rule
\* is answered with an error before anything is read (RejectQuery).
RejectQuery ==
  /\ req = Idle
  /\ Answer(Error)
  /\ UNCHANGED <<store, counts, cursors, now, history>>

StartQuery(q, p) ==
  LET limit == EffectiveLimit(p)
      offset == EffectiveOffset(p)
      cursor == IF offset > 0 THEN CursorFor(KnownCursors(cursors, q), offset) ELSE None
      cached == CacheHits(counts, CountKey(q), now, CountTtl)
  IN /\ req = Idle
     /\ req' = [kind |-> "query", q |-> q, paging |-> p, limit |-> limit, offset |-> offset,
                cursor |-> IF cursor = None THEN None ELSE cursor.doc,
                skip |-> IF cursor = None THEN offset ELSE offset - cursor.at,
                data |-> Pending,
                count |-> IF cached THEN counts.entries[CountKey(q)].value
                          ELSE IF offset = 0 THEN Pending ELSE None]
     /\ cursors' = IF offset > 0 THEN CacheAfterGet(cursors, QueryKey(q), now, CursorTtl)
                                 ELSE cursors
     /\ counts' = CacheAfterGet(counts, CountKey(q), now, CountTtl)
     /\ reply' = None
     /\ foreign' = Undisturbed
     /\ UNCHANGED <<store, now, version, acked>>

\* The data query answers, or fails.  `asof` is the version the page is right
\* for: that of the cursor it started from, if any.
FetchData ==
  /\ req.kind = "query" /\ req.data = Pending
  /\ LET t == req.q.table
         ok == [state |-> "ok",
                rows |-> IF req.cursor = None
                           THEN OffsetPage(store[t], req.q, req.skip, req.limit)
                           ELSE CursorPage(store[t], req.q, req.cursor, req.skip, req.limit),
                asof |-> IF req.cursor = None THEN version[t] ELSE req.cursor.asof]
     IN \E data \in {ok, Failed} : req' = [req EXCEPT !.data = data]
  /\ UNCHANGED <<store, counts, cursors, now, reply, history>>

\* The COUNT answers, or fails, or answers without the field (None).
FetchCount ==
  /\ req.kind = "query" /\ req.count = Pending
  /\ LET t == req.q.table
         n == [n |-> CountOf(store[t], req.q.where), asof |-> version[t]]
     IN \E count \in {n, Failed, None} : req' = [req EXCEPT !.count = count]
  /\ UNCHANGED <<store, counts, cursors, now, reply, history>>

\* The row that closes a page; the slip takes the one that opens it.
FirstRow(rows) == rows[1]
LastRow(rows) == rows[Len(rows)]

\* query.rs:280-289: the page's last document becomes the cursor of the offset
\* behind it, beside those the entry held; the entry's time starts again.
RememberCursor(q, offset, data) ==
  LET last == LastRow(data.rows)
      next == offset + Len(data.rows)
      known == KnownCursors(cursors, q)
      doc == [id |-> last.id, rank |-> last.rank, asof |-> data.asof]
  IN cursors' = CacheInsert(CacheAfterGet(cursors, QueryKey(q), now, CursorTtl), QueryKey(q),
                            [o \in DOMAIN known \cup {next} |-> IF o = next THEN doc ELSE known[o]],
                            now, CursorCapacity)

\* The count to report and to cache: the one in hand, read now or taken from
\* the cache, and none when the COUNT failed or brought no number.  The slip
\* takes the number of rows for it.
CountFromRows(count, data) ==
  IF count \in {None, Failed} THEN [n |-> Len(data.rows), asof |-> data.asof]
                              ELSE count
CountInHand(count, data) == IF count = Failed THEN None ELSE count

BothBack == req.kind = "query" /\ req.data # Pending /\ req.count # Pending

\* query.rs:275-278: no data, no answer, whatever the COUNT said.  The slip
\* keeps the count all the same.
FailQueryKeepingCount ==
  /\ BothBack /\ req.data = Failed
  /\ Answer(Error)
  /\ counts' = IF req.count \in {None, Failed} THEN counts
               ELSE CacheInsert(counts, CountKey(req.q), req.count, now, CountCapacity)
  /\ UNCHANGED <<store, cursors, now, history>>

FailQuery ==
  /\ BothBack /\ req.data = Failed
  /\ Answer(Error)
  /\ UNCHANGED <<store, counts, cursors, now, history>>

\* query.rs:280-348: a count in hand is inserted (again); without one the total
\* is the number of rows.
AnswerQuery ==
  /\ BothBack /\ req.data # Failed
  /\ LET data == req.data
         count == CountInHand(req.count, data)
     IN /\ IF data.rows = << >> THEN UNCHANGED cursors
                                ELSE RememberCursor(req.q, req.offset, data)
        /\ counts' = IF count = None THEN counts
                     ELSE CacheInsert(counts, CountKey(req.q), count, now, CountCapacity)
        /\ Answer([kind |-> "page", q |-> req.q, paging |-> req.paging,
                   limit |-> req.limit, offset |-> req.offset,
                   rows |-> data.rows, asof |-> data.asof,
                   total |-> IF count = None THEN Len(data.rows) ELSE count.n])
  /\ UNCHANGED <<store, now, history>>

QueryStep == FetchData \/ FetchCount \/ FailQuery \/ AnswerQuery
QueryNext == RejectQuery \/ (\E q \in Queries, p \in Pagings : StartQuery(q, p)) \/ QueryStep
=============================================================================
