------------------------------ MODULE Firestore -----------------------------
(***************************************************************************)
(* The database the plugin talks to, as far as src/ relies on it: one      *)
(* collection is a function from document ids to the one field (the rank)  *)
(* that queries filter and order by.  Ids are naturals, in the order of    *)
(* __name__.  A query is [table, where, order]: the ranks its equality or  *)
(* IN filter admits, and "id" for no ORDER BY or "rank" for one.  Firestore*)
(* breaks ties of the ordered field by __name__.                           *)
(***************************************************************************)
EXTENDS Naturals, FiniteSets, Sequences, Functions

Matching(docs, where) == {i \in DOMAIN docs : docs[i] \in where}

\* What the COUNT aggregation returns.
CountOf(docs, where) == Cardinality(Matching(docs, where))

Precedes(docs, q, i, j) ==
  \/ q.order = "rank" /\ docs[i] < docs[j]
  \/ (q.order = "id" \/ docs[i] = docs[j]) /\ i < j

\* The documents with the given ids as rows, in the order of the query.
Rows(docs, q, ids) ==
  [n \in 1..Cardinality(ids) |->
     LET i == CHOOSE i \in ids : Cardinality({j \in ids : Precedes(docs, q, j, i)}) = n - 1
     IN [id |-> i, rank |-> docs[i]]]

\* start_after a cursor that gives the ordered field only (or, without ORDER
\* BY, the document reference): whatever equals the cursor is skipped too.
BeyondCursor(docs, q, ids, doc) ==
  {i \in ids : IF q.order = "rank" THEN docs[i] > doc.rank ELSE i > doc.id}

Slice(s, skip, limit) ==
  SubSeq(s, skip + 1, IF skip + limit < Len(s) THEN skip + limit ELSE Len(s))

\* The data query: all rows from the start, then OFFSET and LIMIT.
OffsetPage(docs, q, offset, limit) ==
  Slice(Rows(docs, q, Matching(docs, q.where)), offset, limit)

\* The data query from behind a cursor.
CursorPage(docs, q, doc, skip, limit) ==
  Slice(Rows(docs, q, BeyondCursor(docs, q, Matching(docs, q.where), doc)), skip, limit)

\* No two matching documents share the value the query orders by.
TieFree(docs, q) ==
  q.order = "rank" =>
    \A i, j \in Matching(docs, q.where) : docs[i] = docs[j] => i = j

\* create_doc fails on an id in use; update_doc, without a precondition,
\* creates what is missing; delete_by_id succeeds on what is not there.
WithDoc(docs, i, rank) == [j \in DOMAIN docs \cup {i} |-> IF j = i THEN rank ELSE docs[j]]
WithoutDoc(docs, i) == Restrict(docs, DOMAIN docs \ {i})
=============================================================================
