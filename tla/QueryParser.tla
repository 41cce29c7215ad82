---------------------------- MODULE QueryParser -----------------------------
(***************************************************************************)
(* The recursive-descent parser of src/src/query_parser.rs, over tokens.   *)
(*                                                                         *)
(* A word is a keyword or a name by its place alone (see Tokenizer).       *)
(*                                                                         *)
(* A parse from position i answers [value, at], what was read and where it *)
(* stopped, or Fail; the wording of errors is left out.                    *)
(***************************************************************************)
EXTENDS Tokenizer

CONSTANT Rfc3339   \* the strings that are timestamps

End == Token("end", << >>, 0)
At(ts, i) == IF i \in DOMAIN ts THEN ts[i] ELSE End
Is(ts, i, k) == At(ts, i).k = k
IsWord(ts, i, w) == Is(ts, i, "word") /\ At(ts, i).v = <<w>>
-----------------------------------------------------------------------------
(* Literals and lists of them.                                             *)

\* `n as i64`: the upper half of the numbers becomes negative.
Signed(n) == IF n < 2^(Width - 1) THEN n ELSE n - 2^Width

ParseLiteral(ts, i) ==
  LET t == At(ts, i)
  IN CASE t.k = "string" -> Parsed(Literal("str", t.v, 0), i + 1)
       [] t.k = "number" -> Parsed(Literal("int", << >>, Signed(t.n)), i + 1)
       [] t.k = "float" -> Parsed(Literal("float", t.v, t.n), i + 1)
       [] IsWord(ts, i, "TRUE") -> Parsed(Literal("bool", << >>, 1), i + 1)
       [] IsWord(ts, i, "FALSE") -> Parsed(Literal("bool", << >>, 0), i + 1)
       [] IsWord(ts, i, "NULL") -> Parsed(Literal("null", << >>, 0), i + 1)
       [] IsWord(ts, i, "TIMESTAMP") /\ Is(ts, i + 1, "string") /\ At(ts, i + 1).v \in Rfc3339 ->
            Parsed(Literal("timestamp", At(ts, i + 1).v, 0), i + 2)
       [] OTHER -> Fail

\* A comma may come before the closing parenthesis.
RECURSIVE MoreValues(_, _, _)
MoreValues(ts, i, values) ==
  IF Is(ts, i, ")")
    THEN IF values = << >> THEN Fail ELSE Parsed(values, i + 1)
    ELSE Then(ParseLiteral(ts, i), LAMBDA r :
           LET all == Append(values, r.value)
           IN CASE Is(ts, r.at, ",") -> MoreValues(ts, r.at + 1, all)
                [] Is(ts, r.at, ")") -> Parsed(all, r.at + 1)
                [] OTHER -> Fail)

ParseValueList(ts, i) == IF Is(ts, i, "(") THEN MoreValues(ts, i + 1, << >>) ELSE Fail
-----------------------------------------------------------------------------
(* Filters: OR over AND over conditions and parentheses.                   *)

\* A condition's field and kind are known, its literal or list is to be read.
WithLiteral(kind, field, ts, i) ==
  Then(ParseLiteral(ts, i), LAMBDA r : Parsed(Condition(kind, field, <<r.value>>), r.at))
WithList(kind, field, ts, i) ==
  Then(ParseValueList(ts, i), LAMBDA r : Parsed(Condition(kind, field, r.value), r.at))

Closed(ts, r) == Then(r, LAMBDA x : IF Is(ts, x.at, ")") THEN Parsed(x.value, x.at + 1) ELSE Fail)

\* ARRAY_CONTAINS(field, literal), ARRAY_CONTAINS_ANY(field, list).
ParseCall(ts, i, any) ==
  IF Is(ts, i, "(") /\ Is(ts, i + 1, "word") /\ Is(ts, i + 2, ",")
    THEN Closed(ts, IF any THEN WithList("aca", At(ts, i + 1).v, ts, i + 3)
                           ELSE WithLiteral("ac", At(ts, i + 1).v, ts, i + 3))
    ELSE Fail

\* Any word may be the field, also one that is a keyword elsewhere.
ParseCondition(ts, i) ==
  LET field == At(ts, i).v
  IN CASE ~Is(ts, i, "word") -> Fail
       [] IsWord(ts, i + 1, "NOT") ->
            IF IsWord(ts, i + 2, "IN") THEN WithList("not_in", field, ts, i + 3) ELSE Fail
       [] IsWord(ts, i + 1, "IN") -> WithList("in", field, ts, i + 2)
       [] IsWord(ts, i + 1, "ARRAY_CONTAINS") -> WithLiteral("ac", field, ts, i + 2)
       [] IsWord(ts, i + 1, "ARRAY_CONTAINS_ANY") -> WithList("aca", field, ts, i + 2)
       [] Is(ts, i + 1, "op") -> WithLiteral(At(ts, i + 1).v[1], field, ts, i + 2)
       [] OTHER -> Fail

RECURSIVE ParseOr(_, _)

ParseAtom(ts, i) ==
  CASE Is(ts, i, "(") -> Closed(ts, ParseOr(ts, i + 1))
    [] IsWord(ts, i, "ARRAY_CONTAINS") -> ParseCall(ts, i + 1, FALSE)
    [] IsWord(ts, i, "ARRAY_CONTAINS_ANY") -> ParseCall(ts, i + 1, TRUE)
    [] OTHER -> ParseCondition(ts, i)

\* NOT stands for itself in NOT IN only, where it is taken for the field.
ParseNot(ts, i) ==
  IF IsWord(ts, i, "NOT") /\ ~IsWord(ts, i + 1, "IN") THEN Fail ELSE ParseAtom(ts, i)

One(kind, terms) == IF Len(terms) = 1 THEN terms[1] ELSE Node(kind, terms)

RECURSIVE MoreAnd(_, _, _), MoreOr(_, _, _)
MoreAnd(ts, i, terms) ==
  Then(ParseNot(ts, i), LAMBDA r :
    LET all == Append(terms, r.value)
    IN IF IsWord(ts, r.at, "AND") THEN MoreAnd(ts, r.at + 1, all) ELSE Parsed(One("and", all), r.at))

\* The slip reads OR like AND, term by term.
MoreOrFlat(ts, i, terms) ==
  Then(ParseNot(ts, i), LAMBDA r :
    LET all == Append(terms, r.value)
    IN IF IsWord(ts, r.at, "OR") \/ IsWord(ts, r.at, "AND")
         THEN MoreOr(ts, r.at + 1, all) ELSE Parsed(One("or", all), r.at))

MoreOr(ts, i, terms) ==
  Then(MoreAnd(ts, i, << >>), LAMBDA r :
    LET all == Append(terms, r.value)
    IN IF IsWord(ts, r.at, "OR") THEN MoreOr(ts, r.at + 1, all) ELSE Parsed(One("or", all), r.at))

ParseOr(ts, i) == MoreOr(ts, i, << >>)
-----------------------------------------------------------------------------
(* Statements.                                                             *)

RECURSIVE MoreColumns(_, _, _), MoreOrderItems(_, _, _)
MoreColumns(ts, i, columns) ==
  LET all == Append(columns, At(ts, i).v)
  IN CASE ~Is(ts, i, "word") -> Fail
       [] Is(ts, i + 1, ",") -> MoreColumns(ts, i + 2, all)
       [] OTHER -> Parsed(all, i + 1)

ParseColumns(ts, i) == IF Is(ts, i, "*") THEN Parsed(None, i + 1) ELSE MoreColumns(ts, i, << >>)

MoreOrderItems(ts, i, items) ==
  LET directed == IsWord(ts, i + 1, "ASC") \/ IsWord(ts, i + 1, "DESC")
      next == IF directed THEN i + 2 ELSE i + 1
      all == Append(items, [field |-> At(ts, i).v, desc |-> IsWord(ts, i + 1, "DESC")])
  IN CASE ~Is(ts, i, "word") -> Fail
       [] Is(ts, next, ",") -> MoreOrderItems(ts, next + 1, all)
       [] OTHER -> Parsed(all, next)

\* Clauses come in any order and the last of a kind counts.  Those behind a
\* subquery (outer) have no WHERE and go on to the end of the text.
RECURSIVE Clauses(_, _, _, _)
Clauses(ts, i, q, outer) ==
  CASE IsWord(ts, i, "WHERE") /\ ~outer ->
         Then(ParseOr(ts, i + 1), LAMBDA r : Clauses(ts, r.at, [q EXCEPT !.where = r.value], outer))
    [] IsWord(ts, i, "ORDER") /\ IsWord(ts, i + 1, "BY") ->
         Then(MoreOrderItems(ts, i + 2, << >>),
              LAMBDA r : Clauses(ts, r.at, [q EXCEPT !.order = r.value], outer))
    [] IsWord(ts, i, "LIMIT") /\ Is(ts, i + 1, "number") ->
         Clauses(ts, i + 2, [q EXCEPT !.limit = At(ts, i + 1).n], outer)
    [] IsWord(ts, i, "OFFSET") /\ Is(ts, i + 1, "number") ->
         Clauses(ts, i + 2, [q EXCEPT !.offset = At(ts, i + 1).n], outer)
    [] Is(ts, i, "end") \/ (Is(ts, i, ")") /\ ~outer) -> Parsed(q, i)
    [] OTHER -> Fail

\* AS and a name, or nothing.
ParseAlias(ts, i) ==
  CASE ~IsWord(ts, i, "AS") -> Parsed(None, i)
    [] Is(ts, i + 1, "word") -> Parsed(None, i + 2)
    [] OTHER -> Fail

\* From a subquery, the outer clauses and columns override the inner ones.
RECURSIVE ParseSelect(_, _)
ParseFrom(ts, i, columns) ==
  CASE Is(ts, i, "(") ->
         Then(Closed(ts, ParseSelect(ts, i + 1)), LAMBDA inner :
           Then(ParseAlias(ts, inner.at), LAMBDA a :
             Clauses(ts, a.at, IF columns = None THEN inner.value
                               ELSE [inner.value EXCEPT !.columns = columns], TRUE)))
    [] Is(ts, i, "word") ->
         Clauses(ts, i + 1, [table |-> At(ts, i).v, columns |-> columns, where |-> None,
                             order |-> << >>, limit |-> None, offset |-> None], FALSE)
    [] OTHER -> Fail

ParseSelect(ts, i) ==
  IF IsWord(ts, i, "SELECT")
    THEN Then(ParseColumns(ts, i + 1), LAMBDA c :
           IF IsWord(ts, c.at, "FROM") THEN ParseFrom(ts, c.at + 1, c.value) ELSE Fail)
    ELSE Fail

ParseTokens(ts) ==
  Then(ParseSelect(ts, 1), LAMBDA r : IF r.at = Len(ts) + 1 THEN r.value ELSE Fail)

Parse(text) == Then(Tokenize(text), LAMBDA r : ParseTokens(r.value))
=============================================================================
