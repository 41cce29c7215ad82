----------------------------- MODULE Tokenizer ------------------------------
(***************************************************************************)
(* tokenize of src/src/query_parser.rs: from the characters of a text to   *)
(* its tokens.                                                             *)
(*                                                                         *)
(* A text is a sequence of characters.  Letters that stay together may be  *)
(* one character here, a keyword above all, if no neighbours spell         *)
(* another word; upper case is taken for granted.  A character of several  *)
(* bytes is listed in Wide with what each byte is taken for, alone.        *)
(*                                                                         *)
(* A token is [k, v, n]: its kind, its characters, its number (a float has *)
(* the digits behind its dot in v).  Quotes around a name are gone: the    *)
(* parser cannot tell it from a keyword.                                   *)
(***************************************************************************)
EXTENDS QuerySyntax

CONSTANTS
  Letters,  \* "_" and what else a word begins with
  Wide,     \* character of several bytes -> the characters they are taken for
  Width     \* bits of a number (64)

ASSUME WidthAssumption == Width \in Nat \ {0}

Token(k, v, n) == [k |-> k, v |-> v, n |-> n]
Word(w) == Token("word", <<w>>, 0)

Parsed(value, at) == [value |-> value, at |-> at]

\* What `?` does: go on with what was read, unless nothing was.
Then(r, Next(_)) == IF r = Fail THEN Fail ELSE Next(r)
-----------------------------------------------------------------------------
DigitSigns == <<"0", "1", "2", "3", "4", "5", "6", "7", "8", "9">>
Number(ds) ==
  FoldLeft(LAMBDA n, d : 10 * n + (CHOOSE i \in DOMAIN DigitSigns : DigitSigns[i] = d) - 1, 0, ds)

\* Zeros at the end of a fraction do not count.
Fraction(ds) == SubSeq(ds, 1, Max({0} \cup {j \in DOMAIN ds : ds[j] # "0"}))

Signs == {"*", ",", "(", ")"}
Comparisons ==
  {<<"=", "Eq">>, <<"<", "Lt">>, <<">", "Gt">>}
PairedComparisons ==
  {<<"=", "=", "Eq">>, <<"<", "=", "Le">>, <<"<", ">", "Ne">>, <<">", "=", "Ge">>, <<"!", "=", "Ne">>}

Char(s, i) == IF i \in DOMAIN s THEN s[i] ELSE "end"

\* The first place from i on that has none of these characters.
Behind(s, i, chars) ==
  CHOOSE j \in i..(Len(s) + 1) : Char(s, j) \notin chars /\ \A k \in i..(j - 1) : s[k] \in chars
-----------------------------------------------------------------------------
\* Each reads one token from i and answers where it stopped.
ReadComparison(s, i) ==
  LET paired == {p \in PairedComparisons : p[1] = s[i] /\ p[2] = Char(s, i + 1)}
      single == {c \in Comparisons : c[1] = s[i]}
  IN CASE paired # {} -> Parsed(Token("op", <<(CHOOSE p \in paired : TRUE)[3]>>, 0), i + 2)
       [] paired = {} /\ single # {} ->
            Parsed(Token("op", <<(CHOOSE c \in single : TRUE)[2]>>, 0), i + 1)
       [] OTHER -> Fail

\* A name ends at the next quote of its kind, whatever is before it.
ReadQuotedName(s, i) ==
  LET ends == {j \in (i + 1)..Len(s) : s[j] = s[i]}
  IN IF ends = {} THEN Fail
     ELSE LET j == Min(ends) IN Parsed(Token("word", SubSeq(s, i + 1, j - 1), 0), j + 1)

\* The slip ends a string at its first quote that has no backslash before it.
RECURSIVE ReadPlainString(_, _, _)
ReadPlainString(s, i, v) ==
  CASE i > Len(s) -> Fail
    [] Char(s, i) = "\\" /\ Char(s, i + 1) = "'" -> ReadPlainString(s, i + 2, Append(v, "'"))
    [] Char(s, i) = "'" -> Parsed(Token("string", v, 0), i + 1)
    [] OTHER -> ReadPlainString(s, i + 1, Append(v, s[i]))

\* A string from behind its first quote: '' and \' are quotes within it, and
\* characters are taken byte by byte.
RECURSIVE ReadString(_, _, _)
ReadString(s, i, v) ==
  CASE i > Len(s) -> Fail
    [] Char(s, i) \in {"\\", "'"} /\ Char(s, i + 1) = "'" -> ReadString(s, i + 2, Append(v, "'"))
    [] Char(s, i) = "'" /\ Char(s, i + 1) # "'" -> Parsed(Token("string", v, 0), i + 1)
    [] OTHER -> ReadString(s, i + 1, v \o (IF s[i] \in DOMAIN Wide THEN Wide[s[i]] ELSE <<s[i]>>))

\* A number must fit its bits, unless a dot follows.
ReadNumber(s, i) ==
  LET j == Behind(s, i, Digits)
      k == Behind(s, j + 1, Digits)
      n == Number(SubSeq(s, i, j - 1))
  IN CASE Char(s, j) = "." -> Parsed(Token("float", Fraction(SubSeq(s, j + 1, k - 1)), n), k)
       [] Char(s, j) # "." /\ n < 2^Width -> Parsed(Token("number", << >>, n), j)
       [] OTHER -> Fail

ReadWord(s, i) ==
  LET j == Behind(s, i, Letters \cup Digits \cup {"."})
  IN Parsed(Token("word", SubSeq(s, i, j - 1), 0), j)

ReadToken(s, i) ==
  CASE s[i] \in Signs -> Parsed(Token(s[i], << >>, 0), i + 1)
    [] s[i] \in {"=", "<", ">", "!"} -> ReadComparison(s, i)
    [] s[i] \in {"\"", "backtick"} -> ReadQuotedName(s, i)
    [] s[i] = "'" -> ReadString(s, i + 1, << >>)
    [] s[i] \in Digits -> ReadNumber(s, i)
    [] s[i] \in Letters -> ReadWord(s, i)
    [] OTHER -> Fail

RECURSIVE MoreTokens(_, _, _)
MoreTokens(s, i, tokens) ==
  CASE i > Len(s) -> Parsed(tokens, i)
    [] Char(s, i) = " " -> MoreTokens(s, i + 1, tokens)
    [] OTHER -> Then(ReadToken(s, i), LAMBDA r : MoreTokens(s, r.at, Append(tokens, r.value)))

Tokenize(s) == MoreTokens(s, 1, << >>)
=============================================================================
