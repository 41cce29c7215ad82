---------------------------- MODULE QueryGrammar ----------------------------
(***************************************************************************)
(* What a text means, said by cutting it into parts instead of by reading  *)
(* it from the left: its meanings are those of its parts, for every way to *)
(* cut it.                                                                 *)
(*                                                                         *)
(* The grammar is the one the documents give: the head of query_parser.rs, *)
(* README.md:57 and the Phase 2 notes' "Standard SQL: NOT > AND > OR".     *)
(* NOT is in it, though the parser reads it in NOT IN only; clauses in     *)
(* another order than the head gives, or twice, are not, though the parser *)
(* reads them, and are marked: not documented.                             *)
(***************************************************************************)
EXTENDS QueryParser

(* Tokens.                                                                 *)

Made(s, chars) == \A i \in DOMAIN s : s[i] \in chars

\* What stands between the quotes of a string: every quote in it has one before
\* it that stands for nothing, or a backslash, and the last character is no
\* backslash.
StringTokens(body) ==
  LET backed == {i \in DOMAIN body : Char(body, i) = "\\" /\ Char(body, i + 1) = "'"}
      quotes == {i \in DOMAIN body : body[i] = "'"}
      Silent(e) == \A i \in e : i + 1 \in quotes \ e
      silent == {e \in SUBSET (backed \cup quotes) :
                   Silent(e) /\ backed \subseteq e /\ quotes \subseteq e \cup {i + 1 : i \in e}}
      spoken(e) == [i \in DOMAIN body |-> IF i \in e THEN << >>
                                         ELSE IF body[i] \in DOMAIN Wide THEN Wide[body[i]]
                                         ELSE <<body[i]>>]
  IN IF Char(body, Len(body)) = "\\" THEN {}
     ELSE {Token("string", FlattenSeq(spoken(e)), 0) : e \in silent}

Dots(s) == {i \in DOMAIN s : s[i] = "."}

\* The tokens, at most one, that characters spell.
Spelt(s) ==
  LET first == s[1]
      last == s[Len(s)]
      inner == SubSeq(s, 2, Len(s) - 1)
  IN CASE Len(s) = 1 /\ first \in Signs -> {Token(first, << >>, 0)}
       [] Len(s) \in {1, 2} /\ first \in {"=", "<", ">", "!"} ->
            {Token("op", <<p[Len(p)]>>, 0) :
               p \in {p \in Comparisons \cup PairedComparisons : Front(p) = s}}
       [] first \in {"\"", "backtick"} /\ Len(s) > 1 /\ last = first /\ ~Contains(inner, first) ->
            {Token("word", inner, 0)}
       [] first = "'" /\ Len(s) > 1 /\ last = "'" -> StringTokens(inner)
       [] Made(s, Digits) -> {Token("number", << >>, Number(s))}
       [] first \in Digits /\ Made(s, Digits \cup {"."}) /\ Cardinality(Dots(s)) = 1 ->
            LET d == CHOOSE d \in Dots(s) : TRUE
            IN {Token("float", Fraction(SubSeq(s, d + 1, Len(s))), Number(SubSeq(s, 1, d - 1)))}
       [] first \in Letters /\ Made(s, Letters \cup Digits \cup {"."}) -> {Token("word", s, 0)}
       [] OTHER -> {}

Ends(s) ==
  CASE s[1] \in {"'", "\"", "backtick"} -> {j \in 2..Len(s) : s[j] = s[1]}
    [] OTHER -> 1..Min({j \in DOMAIN s : s[j] = " "} \cup {Len(s) + 1}) - 1

\* A text read as tokens, each as long as it can be, blanks between them left
\* out.  A number too large for its bits spoils the text.
RECURSIVE Readings(_)
Readings(s) ==
  IF s = << >> THEN {<< >>}
  ELSE IF s[1] = " " THEN Readings(Tail(s))
  ELSE LET ends == {j \in Ends(s) : Spelt(SubSeq(s, 1, j)) # {}}
       IN IF ends = {} THEN {}
          ELSE {<<t>> \o rest :
                  t \in {t \in Spelt(SubSeq(s, 1, Max(ends))) : t.k = "number" => t.n < 2^Width},
                  rest \in Readings(SubSeq(s, Max(ends) + 1, Len(s)))}
-----------------------------------------------------------------------------
(* Cutting a text of tokens.                                               *)

WordsAt(ts, ws) == {i \in DOMAIN ts : \E w \in ws : IsWord(ts, i, w)}
Piece(ts, i, j) == SubSeq(ts, i, j)
From(ts, i) == SubSeq(ts, i, Len(ts))

\* The parts of ts between the positions in cuts, which belong to none.
Parts(ts, cuts) ==
  LET s == <<0>> \o SetToSortSeq(cuts, <) \o <<Len(ts) + 1>>
  IN [i \in 1..(Len(s) - 1) |-> SubSeq(ts, s[i] + 1, s[i + 1] - 1)]

Enclosed(ts) == Len(ts) >= 2 /\ Is(ts, 1, "(") /\ Is(ts, Len(ts), ")")
Inside(ts) == SubSeq(ts, 2, Len(ts) - 1)
-----------------------------------------------------------------------------
Literals(ts) ==
  CASE Len(ts) = 1 /\ ts[1].k = "string" -> {Literal("str", ts[1].v, 0)}
    [] Len(ts) = 1 /\ ts[1].k = "number" -> {Literal("int", << >>, Signed(ts[1].n))}
    [] Len(ts) = 1 /\ ts[1].k = "float" -> {Literal("float", ts[1].v, ts[1].n)}
    [] ts = <<Word("TRUE")>> -> {Literal("bool", << >>, 1)}
    [] ts = <<Word("FALSE")>> -> {Literal("bool", << >>, 0)}
    [] ts = <<Word("NULL")>> -> {Literal("null", << >>, 0)}
    [] Len(ts) = 2 /\ IsWord(ts, 1, "TIMESTAMP") /\ ts[2].k = "string" /\ ts[2].v \in Rfc3339 ->
         {Literal("timestamp", ts[2].v, 0)}
    [] OTHER -> {}

\* One literal or more between commas, and possibly a last comma.
ValueLists(ts) ==
  IF ~Enclosed(ts) THEN {}
  ELSE LET p == Parts(Inside(ts), {i \in DOMAIN Inside(ts) : Is(Inside(ts), i, ",")})
           items == IF Len(p) > 1 /\ p[Len(p)] = << >> THEN Front(p) ELSE p
       IN OneOfEach([i \in DOMAIN items |-> Literals(items[i])])

Singles(ts) == {<<l>> : l \in Literals(ts)}

\* A call's arguments: a field, a comma, the rest.
Arguments(ts) ==
  IF Enclosed(ts) /\ Is(ts, 2, "word") /\ Is(ts, 3, ",")
    THEN {[field |-> ts[2].v, rest |-> SubSeq(ts, 4, Len(ts) - 1)]} ELSE {}

\* NOT IN is one operator; every other NOT negates what follows it.
Negates(ts) == IsWord(ts, 1, "NOT") /\ ~IsWord(ts, 2, "IN")

\* Any other word may be a column: tokens do not tell whether it was quoted.
StartsNone(ts) ==
  IsWord(ts, 1, "ARRAY_CONTAINS") \/ IsWord(ts, 1, "ARRAY_CONTAINS_ANY") \/ Negates(ts)

Tests(ts) ==
  CASE Is(ts, 2, "op") -> {<<ts[2].v[1], x>> : x \in Singles(From(ts, 3))}
    [] IsWord(ts, 2, "ARRAY_CONTAINS") -> {<<"ac", x>> : x \in Singles(From(ts, 3))}
    [] IsWord(ts, 2, "ARRAY_CONTAINS_ANY") -> {<<"aca", x>> : x \in ValueLists(From(ts, 3))}
    [] IsWord(ts, 2, "IN") -> {<<"in", x>> : x \in ValueLists(From(ts, 3))}
    [] IsWord(ts, 2, "NOT") /\ IsWord(ts, 3, "IN") -> {<<"not_in", x>> : x \in ValueLists(From(ts, 4))}
    [] OTHER -> {}

Conditions(ts) ==
  {Condition(x[1], ts[1].v, x[2]) :
     x \in IF Is(ts, 1, "word") /\ ~StartsNone(ts) THEN Tests(ts) ELSE {}}
  \cup UNION {{Condition("ac", a.field, x) : x \in Singles(a.rest)} :
                a \in IF IsWord(ts, 1, "ARRAY_CONTAINS") THEN Arguments(Tail(ts)) ELSE {}}
  \cup UNION {{Condition("aca", a.field, x) : x \in ValueLists(a.rest)} :
                a \in IF IsWord(ts, 1, "ARRAY_CONTAINS_ANY") THEN Arguments(Tail(ts)) ELSE {}}

\* NOT binds closer than AND, and AND closer than OR.
RECURSIVE Filters(_), Factors(_)
Factors(ts) ==
  Conditions(ts)
  \cup IF Enclosed(ts) THEN Filters(Inside(ts)) ELSE {}
  \cup {Node("not", <<f>>) : f \in IF Negates(ts) THEN Factors(Tail(ts)) ELSE {}}

Terms(ts) ==
  UNION {LET p == Parts(ts, cuts)
         IN {One("and", x) : x \in OneOfEach([i \in DOMAIN p |-> Factors(p[i])])} :
           cuts \in SUBSET WordsAt(ts, {"AND"})}

Filters(ts) ==
  UNION {LET p == Parts(ts, cuts)
         IN {One("or", x) : x \in OneOfEach([i \in DOMAIN p |-> Terms(p[i])])} :
           cuts \in SUBSET WordsAt(ts, {"OR"})}
-----------------------------------------------------------------------------
ColumnLists(ts) ==
  IF Len(ts) = 1 /\ Is(ts, 1, "*") THEN {None}
  ELSE LET p == Parts(ts, {i \in DOMAIN ts : Is(ts, i, ",")})
       IN IF \A i \in DOMAIN p : Len(p[i]) = 1 /\ Is(p[i], 1, "word")
            THEN {[i \in DOMAIN p |-> p[i][1].v]} ELSE {}

\* A field, and possibly a direction.
OrderItems(ts) ==
  IF Is(ts, 1, "word") /\ (Len(ts) = 1 \/ ts \in {<<ts[1], Word("ASC")>>, <<ts[1], Word("DESC")>>})
    THEN {[field |-> ts[1].v, desc |-> IsWord(ts, 2, "DESC")]} ELSE {}

OrderLists(ts) ==
  LET p == Parts(ts, {i \in DOMAIN ts : Is(ts, i, ",")})
  IN OneOfEach([i \in DOMAIN p |-> OrderItems(p[i])])

Numbers(ts) == IF Len(ts) = 1 /\ Is(ts, 1, "number") THEN {ts[1].n} ELSE {}

\* A clause: what it sets, and to what.
ClausesOf(ts) ==
  CASE IsWord(ts, 1, "WHERE") -> {<<"where", x>> : x \in Filters(From(ts, 2))}
    [] IsWord(ts, 1, "ORDER") /\ IsWord(ts, 2, "BY") -> {<<"order", x>> : x \in OrderLists(From(ts, 3))}
    [] IsWord(ts, 1, "LIMIT") -> {<<"limit", x>> : x \in Numbers(From(ts, 2))}
    [] IsWord(ts, 1, "OFFSET") -> {<<"offset", x>> : x \in Numbers(From(ts, 2))}
    [] OTHER -> {}

\* A text cut in front of the given positions, the first of them its start.
Sections(ts, starts) ==
  LET s == SetToSortSeq(starts, <) \o <<Len(ts) + 1>>
  IN [i \in 1..(Len(s) - 1) |-> SubSeq(ts, s[i], s[i + 1] - 1)]

Opening == {"WHERE", "ORDER", "LIMIT", "OFFSET"}
ClauseLists(ts) ==
  IF ts = << >> THEN {<< >>}
  ELSE UNION {LET p == Sections(ts, starts) IN OneOfEach([i \in DOMAIN p |-> ClausesOf(p[i])]) :
                starts \in {s \in SUBSET WordsAt(ts, Opening) : 1 \in s}}

\* The last clause that sets a part of the query counts.
Setting(list, name, default) ==
  LET which == {i \in DOMAIN list : list[i][1] = name}
  IN IF which = {} THEN default ELSE list[CHOOSE i \in which : \A j \in which : j <= i][2]

\* The clauses as the head of query_parser.rs has them, each once at most: WHERE,
\* ORDER BY, LIMIT and OFFSET, the last two "in either order" (its tests, 788-792).
Placing == [where |-> 1, order |-> 2, limit |-> 3, offset |-> 3]
InPlace(list) ==
  \A i, j \in DOMAIN list :
    i < j => list[i][1] # list[j][1] /\ Placing[list[i][1]] <= Placing[list[j][1]]

\* A meaning: the query, and whether the documents give it to the text.
With(m, list) ==
  [documented |-> m.documented /\ InPlace(list),
   query |-> [m.query EXCEPT !.where = Setting(list, "where", @), !.order = Setting(list, "order", @),
                             !.limit = Setting(list, "limit", @), !.offset = Setting(list, "offset", @)]]

Bare(table, columns) ==
  [documented |-> TRUE,
   query |-> [table |-> table, columns |-> columns, where |-> None, order |-> << >>,
              limit |-> None, offset |-> None]]

Plain(columns, ts) ==
  {With(Bare(ts[1].v, columns), list) :
     list \in IF Is(ts, 1, "word") THEN ClauseLists(From(ts, 2)) ELSE {}}

\* What follows FROM, with the columns before it.
Headed(ts) ==
  UNION {{[columns |-> c, rest |-> From(ts, i + 1)] : c \in ColumnLists(SubSeq(ts, 2, i - 1))} :
           i \in IF IsWord(ts, 1, "SELECT") THEN WordsAt(ts, {"FROM"}) ELSE {}}

PlainStatements(ts) == UNION {Plain(h.columns, h.rest) : h \in Headed(ts)}

Unnamed(ts) == IF IsWord(ts, 1, "AS") /\ Is(ts, 2, "word") THEN From(ts, 3) ELSE ts

\* Around a plain statement: other columns, order, limit and offset, no filter.
Wrapping(columns, ts) ==
  UNION {{With(IF columns = None THEN m ELSE [m EXCEPT !.query.columns = columns], list) :
            m \in PlainStatements(SubSeq(ts, 2, j - 1)),
            list \in {l \in ClauseLists(Unnamed(From(ts, j + 1))) :
                        \A i \in DOMAIN l : l[i][1] # "where"}} :
           j \in {j \in DOMAIN ts : Is(ts, 1, "(") /\ Is(ts, j, ")")}}

Statements(ts) ==
  PlainStatements(ts) \cup UNION {Wrapping(h.columns, h.rest) : h \in Headed(ts)}
=============================================================================
