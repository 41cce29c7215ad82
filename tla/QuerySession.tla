---------------------------- MODULE QuerySession ----------------------------
(***************************************************************************)
(* The way of a text through execute_query of src/src/handlers/query.rs:   *)
(* it is parsed (Read), its filter rewritten and validated,                *)
(* page and size worked out, a count cached under the filter's canonical   *)
(* form is looked up, the documents are read, and rows and a total are     *)
(* answered; or explain_query has it explained.  Between two requests the  *)
(* user changes a character of the text or turns to another one.           *)
(*                                                                         *)
(* Documents stay as they are, and one count is remembered, the last used: *)
(* expiry, eviction and writes are the business of Plugin.                 *)
(***************************************************************************)
EXTENDS FilterRules

CONSTANTS
  Texts,        \* what the user starts from
  Typed,        \* the characters a change may put in
  Read(_),      \* what the parser makes of a text: a ParsedQuery, or Fail
  Means(_),     \* its meanings [query, documented]; in query may be a NOT
  Docs,         \* [table, id, values: path -> literal]
  Pagings,      \* [page, size] as the host may ask for, None for neither
  DefaultLimit, \* 100
  MaxU64,       \* the largest number of a limit, an offset, a page or its size
  MaxU32,       \* the largest limit and offset on their way to Firestore
  MaxChanges

\* A change of one character.
Slips(t) ==
  {RemoveAt(t, i) : i \in DOMAIN t}
  \cup {InsertAt(t, i, c) : i \in 1..(Len(t) + 1), c \in Typed}
  \cup {[t EXCEPT ![i] = c] : i \in DOMAIN t, c \in Typed}
  \cup {[t EXCEPT ![i] = t[i + 1], ![i + 1] = t[i]] : i \in 1..(Len(t) - 1)}

AllTexts == Texts \cup UNION {Slips(t) : t \in Texts}

ASSUME NoneAssumption == None \notin FilterExpr /\ None \notin Nat
ASSUME MaxChangesAssumption == MaxChanges \in Nat
ASSUME WindowAssumption ==
  /\ MaxU64 \in Nat /\ MaxU32 \in 1..MaxU64 /\ DefaultLimit \in 1..MaxU32
  /\ Pagings \subseteq [page : Nat \cup {None}, size : Nat \cup {None}]
\* A stored field id is not shown; no array hides behind the column of that name.
ASSUME DocsAssumption ==
  /\ IsFiniteSet(Docs)
  /\ \A doc \in Docs : DocId \in DOMAIN doc.values => doc.values[DocId].t # "array"
ASSUME ReadAssumption == \A t \in AllTexts : Read(t) \in ParsedQuery \cup {Fail}

VARIABLES text, cached, reply, changes
vars == <<text, cached, reply, changes>>

Smaller(m, n) == IF m < n THEN m ELSE n
-----------------------------------------------------------------------------
(* Firestore: which documents a filter matches, and what it refuses.       *)

Numeric(l) == l.t \in {"int", "float"}
Same(a, b) == IF Numeric(a) /\ Numeric(b) THEN a.n = b.n /\ a.v = b.v ELSE a = b
Less(a, b) ==
  IF Numeric(a) /\ Numeric(b) THEN a.n < b.n \/ (a.n = b.n /\ Before(a.v, b.v))
  ELSE /\ a.t = b.t /\ a.t \notin {"null", "array"}
       /\ IF a.t = "bool" THEN a.n < b.n ELSE Before(a.v, b.v)
Among(l, values) == \E i \in DOMAIN values : Same(l, values[i])

Stored(doc) == [field \in DOMAIN doc.values \cup {Name} |->
                  IF field = Name THEN Literal("ref", doc.id, 0) ELSE doc.values[field]]

Meets(doc, b) ==
  /\ b.path \in DOMAIN Stored(doc)
  /\ LET l == Stored(doc)[b.path]
         x == b.operand[1]
     IN CASE b.op = "EQUAL" -> Same(l, x)
          [] b.op = "NOT_EQUAL" -> l.t # "null" /\ ~Same(l, x)
          [] b.op = "LESS_THAN" -> Less(l, x)
          [] b.op = "LESS_THAN_OR_EQUAL" -> Less(l, x) \/ Same(l, x)
          [] b.op = "GREATER_THAN" -> Less(x, l)
          [] b.op = "GREATER_THAN_OR_EQUAL" -> Less(x, l) \/ Same(l, x)
          [] b.op = "IN" -> Among(l, b.operand)
          [] b.op = "NOT_IN" -> l.t # "null" /\ ~Among(l, b.operand)
          [] b.op = "ARRAY_CONTAINS" -> l.t = "array" /\ Among(x, l.v)
          [] b.op = "ARRAY_CONTAINS_ANY" ->
               l.t = "array" /\ \E i \in DOMAIN b.operand : Among(b.operand[i], l.v)

\* The documents that match what a filter is built into.
Matched[f \in FilterExpr] ==
  LET parts == {Matched[f.kids[i]] : i \in DOMAIN f.kids}
  IN CASE Operator(f.kind) = "AND" -> {doc \in Docs : \A part \in parts : doc \in part}
       [] Operator(f.kind) = "OR" -> UNION parts
       [] OTHER -> {doc \in Docs : Meets(doc, Built(f))}

\* Names of documents are compared with references only.
Refused(f) ==
  \E p \in Placed[f] :
    LET b == Built(p.leaf) IN b.path = Name /\ \E i \in DOMAIN b.operand : b.operand[i].t # "ref"

In(table) == {doc \in Docs : doc.table = table}

\* A document without a field has no place in an order by that field.
Ordered(docs, order) == {doc \in docs : \A i \in DOMAIN order : order[i].field \in DOMAIN doc.values}
-----------------------------------------------------------------------------
Prepared(q) == IF q.where = None THEN None ELSE Rewrite[q.where]
Accepted(where) == IF where = None THEN TRUE ELSE Valid(where)
CountKey(table, where) == <<table, IF where = None THEN << >> ELSE Canonical[where]>>

\* The window of a query: the host's size counts before the text's LIMIT, its
\* page, but for page one, before OFFSET.  Products wrap behind MaxU64.
Limit(q, p) == IF p.size # None THEN p.size ELSE IF q.limit # None THEN q.limit ELSE DefaultLimit
Offset(q, p) ==
  IF p.page # None /\ p.page > 1 THEN ((p.page - 1) * Limit(q, p)) % (MaxU64 + 1)
  ELSE IF q.offset # None THEN q.offset ELSE 0

\* What is left of it behind `as u32` and `min(u32::MAX)`.
SentLimit(q, p) == Limit(q, p) % (MaxU32 + 1)
SentOffset(q, p) == Smaller(Offset(q, p), MaxU32)

\* The rows of n that Firestore gives behind an offset, up to a limit.
Page(n, offset, limit) == Smaller(limit, IF n > offset THEN n - offset ELSE 0)

Matching(table, where) == IF where = None THEN In(table) ELSE In(table) \cap Matched[where]

Error == [kind |-> "error"]

Reject(q) ==
  /\ IF q = Fail THEN TRUE ELSE ~Accepted(Prepared(q))
  /\ reply' = Error
  /\ UNCHANGED cached

\* The COUNT runs when no count is cached and the page is the first; a later
\* page without one takes its rows for the total.
Answer(q) ==
  /\ q # Fail /\ Accepted(Prepared(q))
  /\ LET where == Prepared(q)
         key == CountKey(q.table, where)
         hit == cached # None /\ cached.key = key
         matching == Matching(q.table, where)
         found == Cardinality(Ordered(matching, q.order))
     IN IF where # None /\ Refused(where)
          THEN reply' = Error /\ UNCHANGED cached
          ELSE \E p \in Pagings :
                 LET first == Offset(q, p) = 0
                     rows == Page(found, SentOffset(q, p), SentLimit(q, p))
                     total == CASE hit -> cached.count
                                [] ~hit /\ first -> Cardinality(matching)
                                [] OTHER -> rows
                 IN /\ reply' = [kind |-> "page", asked |-> p, rows |-> rows, total |-> total]
                    /\ cached' = IF hit \/ first THEN [key |-> key, count |-> total] ELSE cached

\* The same text may be run again: its count is then the cached one.
ExecuteQuery ==
  /\ \E q \in {Read(text)} : Reject(q) \/ Answer(q)
  /\ UNCHANGED <<text, changes>>

\* explain_query: the LIMIT of the text alone counts, neither OFFSET nor what the
\* host asks for; rows are reported when the query is really run (analyze).
Explain(q) ==
  /\ q # Fail /\ Accepted(Prepared(q))
  /\ LET where == Prepared(q)
         found == Cardinality(Ordered(Matching(q.table, where), q.order))
         rows == IF q.limit = None THEN found ELSE Page(found, 0, q.limit % (MaxU32 + 1))
     IN reply' \in IF where # None /\ Refused(where) THEN {Error}
                  ELSE {[kind |-> "plan", rows |-> r] : r \in {None, rows}}
  /\ UNCHANGED cached

ExplainQuery ==
  /\ \E q \in {Read(text)} : Reject(q) \/ Explain(q)
  /\ UNCHANGED <<text, changes>>

\* The user's hand.  A slip is made in one of the texts, so that every changed
\* text is one character away from a text.
Type(t) ==
  /\ reply # None /\ changes < MaxChanges
  /\ text' = t /\ changes' = changes + 1 /\ reply' = None
  /\ UNCHANGED cached

Slip == text \in Texts /\ \E t \in Slips(text) : Type(t)
Retype == \E t \in Texts : Type(t)

Init == text \in Texts /\ cached = None /\ reply = None /\ changes = 0
Next == ExecuteQuery \/ ExplainQuery \/ Slip \/ Retype
Spec == Init /\ [][Next]_vars
-----------------------------------------------------------------------------
\* What a text means and a ParsedQuery can say: a FilterExpr has no NOT.
Sayable(t) == {m.query : m \in {m \in Means(t) : m.query \in ParsedQuery}}
Parses(t) == IF Read(t) = Fail THEN {} ELSE {Read(t)}

\* The parser of query_parser.rs takes each text for what it means, by which a
\* text has one meaning: OR binds weaker than AND, parentheses bind most, a list
\* is never empty, and nothing is left over behind the statement.  A text that
\* negates a filter is refused, never misread: that it should be understood is
\* left to ReadsDocumentedGrammar.  So are clauses in another order or twice,
\* which are read with the last of each kind counting.
ReadsItsGrammar == reply = None => Sayable(text) = Parses(text)

\* query_parser.rs:3-8, "Grammar (current)", with the clauses in their order and
\* "WHERE supports AND/OR/NOT"; README.md:57, "WHERE / AND / OR / NOT / IN"; the
\* Phase 2 notes, line 101, "NOT > AND > OR".  A text is read if and only if this
\* grammar gives it a meaning, and as what it means.
ReadsDocumentedGrammar ==
  reply = None => {m.query : m \in {m \in Means(text) : m.documented}} = Parses(text)

\* A row of the grid shows the document's id as a string in the column id.
Row(doc) == [field \in DOMAIN doc.values \cup {DocId} |->
               IF field = DocId THEN Literal("str", doc.id, 0) ELSE doc.values[field]]

Holds(row, c) ==
  LET l == row[c.field]
      Some(P(_)) == \E i \in DOMAIN c.values : P(c.values[i])
      Never(P(_)) == l.t # "null" /\ ~Some(P)
  IN /\ c.field \in DOMAIN row
     /\ CASE c.kind \in {"Eq", "in"} -> Some(LAMBDA x : Same(l, x))
          [] c.kind \in {"Ne", "not_in"} -> Never(LAMBDA x : Same(l, x))
          [] c.kind = "Lt" -> Some(LAMBDA x : Less(l, x))
          [] c.kind = "Gt" -> Some(LAMBDA x : Less(x, l))
          [] c.kind = "Le" -> Some(LAMBDA x : Less(l, x) \/ Same(l, x))
          [] c.kind = "Ge" -> Some(LAMBDA x : Less(x, l) \/ Same(l, x))
          [] c.kind \in {"ac", "aca"} -> Some(LAMBDA x : l.t = "array" /\ Among(x, l.v))

\* The documents for whose rows a filter holds.
Shown[f \in FilterExpr] ==
  LET parts == {Shown[f.kids[i]] : i \in DOMAIN f.kids}
  IN CASE f.kind = "and" -> {doc \in Docs : \A part \in parts : doc \in part}
       [] f.kind = "or" -> UNION parts
       [] OTHER -> {doc \in Docs : Holds(Row(doc), f)}

\* The restrictions of the design notes' table, ids that are not strings, and
\* the name of documents, which is no column.
Legal(f) ==
  LET Two(P(_, _)) == \E p, q \in Placed[f] : p.at # q.at /\ P(p.leaf, q.leaf)
  IN /\ ~Two(LAMBDA c, d : {c.kind, d.kind} \subseteq Inequalities /\ c.field # d.field)
     /\ \A p \in Placed[f] : p.leaf.kind \in Listing => Len(p.leaf.values) <= MaxValues
     /\ ~Two(LAMBDA c, d : c.kind = "ac" /\ d.kind = "aca")
     /\ ~Two(LAMBDA c, d : c.kind = "ac" /\ d.kind = "ac" /\ c.field = d.field)
     /\ \A p \in Placed[f] :
          /\ p.leaf.field # Name
          /\ p.leaf.field = DocId /\ p.leaf.kind \notin {"ac", "aca"}
               => \A i \in DOMAIN p.leaf.values : p.leaf.values[i].t = "str"

Selected(q) == IF q.where = None THEN In(q.table) ELSE In(q.table) \cap Shown[q.where]

\* Where the window begins by the Phase 2 notes (lines 160-168), counted without
\* end: the host's page, else the text's OFFSET, else 0; "if both are present,
\* the host values win".
AskedOffset(q, p) ==
  CASE p.page # None /\ p.page > 1 -> (p.page - 1) * Limit(q, p)
    [] p.page = None /\ q.offset # None -> q.offset
    [] OTHER -> 0
Found(q) == Cardinality(Ordered(Selected(q), q.order))
RowsAsked(q, p) == Page(Found(q), AskedOffset(q, p), Limit(q, p))

\* A query is explained as it is run when the host asks for nothing.
Unasked == [page |-> None, size |-> None]

OrdersByFields(q) == \A i \in DOMAIN q.order : q.order[i].field # DocId
Representable(q, p) == Limit(q, p) <= MaxU32 /\ AskedOffset(q, p) <= MaxU32

\* Where the code and the notes part: the host's page one of a text with an
\* OFFSET begins at that OFFSET (query.rs:106-109); explain_query takes no OFFSET,
\* and for a text without LIMIT no limit, though there are more rows than the
\* default one lets through (query.rs:537-539).
PageOneAtText(q, p) == p.page # None /\ p.page <= 1 /\ q.offset \notin {None, 0}
ExplainedApart(q) == q.offset \notin {None, 0} \/ (q.limit = None /\ Found(q) > DefaultLimit)

\* Whatever was asked before, the answer is that of the text by its meaning and
\* the grid's rows: an error for what has no meaning that can be said, or that a
\* restriction rules out, else the rows of the window that the notes give and,
\* for one that begins at 0, the number of all; an explanation of a query that
\* was run tells of the rows that running it gives.  Left to WindowAsDesigned:
\* what PageOneAtText and ExplainedApart name; to IdOrderKeepsRows: an order by
\* id.  Nothing is said of a window beyond the bits that limit and offset have on
\* their way.
AnswersItsText ==
  reply # None =>
    LET qs == Sayable(text)
    IN /\ reply = Error <=> \A q \in qs : q.where # None /\ ~Legal(q.where)
       /\ reply.kind = "plan" /\ reply.rows # None =>
            \E q \in qs :
              Representable(q, Unasked) /\ ~ExplainedApart(q) /\ OrdersByFields(q)
                => reply.rows = RowsAsked(q, Unasked)
       /\ reply.kind = "page" =>
            \E q \in qs :
              Representable(q, reply.asked) /\ ~PageOneAtText(q, reply.asked) =>
                /\ AskedOffset(q, reply.asked) = 0 => reply.total = Cardinality(Selected(q))
                /\ OrdersByFields(q) => reply.rows = RowsAsked(q, reply.asked)

\* The Phase 2 notes, lines 160-168: "If both are present, the host values win
\* ... the SQL is a template", and query.rs:101, "params.page/page_size override
\* SQL"; line 303: explain_query shall "build the same Firestore query as
\* execute_query would".  The rows answered, or told of by an explanation, are
\* those of the window the notes give.
WindowAsDesigned ==
  reply # None /\ reply.kind \in {"page", "plan"} /\ reply.rows # None =>
    LET p == IF reply.kind = "page" THEN reply.asked ELSE Unasked
    IN \E q \in Sayable(text) :
         Representable(q, p) /\ OrdersByFields(q) => reply.rows = RowsAsked(q, p)

\* Filters that differ in the order of their terms, or of a list's values, at
\* any depth, share one cached count and one set of cursors (canonical_filter).
OrderDoesNotMatter ==
  reply = None =>
    LET q == Read(text)
        key == Canonical[Rewrite[q.where]]
    IN q # Fail /\ q.where # None => \A f \in Reordered[q.where] : Canonical[Rewrite[f]] = key

\* The grid's columns can be sorted, as the design notes say, and the first
\* column is the id: sorted by it the grid shows the rows it has.
IdOrderKeepsRows ==
  reply # None /\ reply.kind = "page" =>
    LET q == Read(text)
    IN (\E d \in BOOLEAN : q.order = <<[field |-> DocId, desc |-> d]>>) =>
         reply.rows = Page(Cardinality(Selected(q)), Offset(q, reply.asked), Limit(q, reply.asked))
=============================================================================
