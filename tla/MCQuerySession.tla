--------------------------- MODULE MCQuerySession ---------------------------
\* TLC instance of QueryReading: texts that between them use every production
\* and every way to write a token, every change of one character of them, and
\* turning from one to another.  No letters that may get beside each other
\* spell a keyword.
EXTENDS QueryReading, TLC

Where(s) == <<"SELECT", "*", "FROM", " ", "t", " ", "WHERE">> \o s

MCTexts ==
  { Where(<<" ", "n", "=", "1", " ", "OR", " ", "n", ">", "=", "2", " ", "AND", " ", "s", "=", "'", "a", "'">>),
    Where(<<"(", "n", "<", ">", "1", " ", "OR", " ", "s", "=", "'", "b", "'", ")", "AND", " ", "n", "<", "3">>),
    Where(<<" ", "id", " ", "IN", "(", "'", "a", "'", ",", "'", "b", "'", ")">>),
    Where(<<" ", "id", " ", "NOT", " ", "IN", "(", "'", "a", "'", ",", "'", "c", "'", ")">>),
    Where(<<" ", "__name__", ">", "'", "a", "'">>),
    Where(<<" ", "ARRAY_CONTAINS", "(", "tags", ",", "'", "a", "'", ")", "AND", " ", "tags", " ",
            "ARRAY_CONTAINS", "'", "b", "'">>),
    Where(<<" ", "ARRAY_CONTAINS_ANY", "(", "tags", ",", "(", "'", "a", "'", ",", "'", "b", "'", ")", ")">>),
    Where(<<" ", "m", ".", "n", ">", "9", " ", "OR", " ", "s", "=", "TIMESTAMP", "'", "d", "'">>),
    Where(<<"\"", "s", "\"", "=", "=", "'", "a", "'", "'", "b", "'", "OR", " ", "n", "<", "=", "1", ".", "5", "0">>),
    Where(<<"backtick", "o", " ", "\"", "e9", "backtick", "=", "'", "a", "\\", "'", "b", "e9", "'">>),
    <<"SELECT", " ", "s", ",", "n", " ", "FROM", "(", "SELECT", "*", "FROM", " ", "t", " ", "LIMIT", " ", "2", ")",
      "AS", " ", "x", " ", "ORDER", " ", "BY", " ", "n", " ", "DESC", " ", "LIMIT", " ", "1">>,
    <<"SELECT", "*", "FROM", " ", "t", " ", "ORDER", " ", "BY", " ", "id">>,
    <<"SELECT", "*", "FROM", " ", "t", " ", "OFFSET", " ", "1", " ", "ORDER", " ", "BY", " ", "id", " ",
      "LIMIT", " ", "2", " ", "WHERE", " ", "s", "!", "=", "NULL">> }

\* For what the documents say: a condition that the user may negate, and an
\* OFFSET that the host's page one meets.
MCCondition == {Where(<<" ", " ", "n", "=", "1">>)}
MCWindow == {<<"SELECT", "*", "FROM", " ", "t", " ", "LIMIT", " ", "2", " ", "OFFSET", " ", "4">>}

MCTyped == {"AND", "OR", "NOT", "IN", "n", "id", "(", ")", ",", "=", "'", "\"", "\\", ".", " ", "1", "b", "LIMIT"}

MCLetters ==
  {"AND", "ARRAY_CONTAINS", "ARRAY_CONTAINS_ANY", "AS", "BY", "DESC", "FALSE", "FROM", "IN", "LIMIT", "NOT", "NULL",
   "OFFSET", "OR", "ORDER", "SELECT", "TIMESTAMP", "WHERE", "a", "b", "c", "d", "id", "m", "n", "o", "s", "t", "tags", "x",
   "__name__"}
\* The letter e with an acute accent is the two bytes C3 A9 of UTF-8.
MCWide == "e9" :> <<"xC3", "xA9">>

S(s) == Literal("str", s, 0)
I(n) == Literal("int", << >>, n)
Doc(id, values) == [table |-> <<"t">>, id |-> id, values |-> values]
A == <<"a">>
B == <<"b">>
Day == <<"d">>

MCDocs ==
  { Doc(A, (<<"n">> :> I(1)) @@ (<<"s">> :> S(A)) @@ (<<"tags">> :> Literal("array", <<S(A), S(B)>>, 0))),
    Doc(B, (<<"n">> :> I(2)) @@ (<<"s">> :> S(B)) @@ (<<"m", ".", "n">> :> I(-1))),
    Doc(<<"c">>, (<<"n">> :> Literal("float", <<"5">>, 1)) @@ (<<"s">> :> Literal("null", << >>, 0))
                 @@ (<<"tags">> :> Literal("array", <<S(B)>>, 0))),
    Doc(<<"x">>, (<<"n">> :> Literal("bool", << >>, 0)) @@ (<<"s">> :> S(<<"a", "'", "b">>)) @@ (DocId :> S(B))
                 @@ (<<"o", " ", "\"", "e9">> :> S(<<"a", "'", "b", "xC3", "xA9">>))),
    Doc(Day, (<<"s">> :> Literal("timestamp", Day, 0)) @@ (<<"n">> :> I(3))) }

MCWholes == -8..15
MCDecimal(n) == ToString(n)

MCRfc3339 == {Day}

Ask(page, size) == [page |-> page, size |-> size]
MCPagings == {Ask(None, None), Ask(1, 2), Ask(2, 1), Ask(3, 8)}

MCAlphabet ==
  <<" ", "!", "\"", "'", "(", ")", "*", ",", "-1", "-2", "-3", "-4", "-5", "-6", "-7", "-8", ".", "0", "1", "10", "11",
    "12", "13", "14", "15", "2", "3", "4", "5", "6", "7", "8", "9", "<", "=", ">", "AND", "ARRAY_CONTAINS", "ARRAY_CONTAINS_ANY", "AS", "BY", "DESC",
    "Eq", "FALSE", "FROM", "Ge", "Gt", "IN", "LIMIT", "Le", "Lt", "NOT", "NULL", "Ne", "OFFSET", "OR", "ORDER",
    "SELECT", "TIMESTAMP", "WHERE", "[", "\\", "]", "__name__", "backtick", "a", "ac", "aca", "and", "b", "c", "cmp", "d",
    "false", "id", "in", "m", "n", "not_in", "null", "o", "or", "ref:", "s", "t", "tags", "true", "ts:", "x",
    "xA9", "xC3", "e9">>
=============================================================================
