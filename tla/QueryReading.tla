---------------------------- MODULE QueryReading ----------------------------
(***************************************************************************)
(* A session whose texts are read by the parser of query_parser.rs, and    *)
(* have the meanings that the grammar gives them.                          *)
(***************************************************************************)
EXTENDS QuerySession, QueryGrammar

ASSUME SameWidth == MaxU64 = 2^Width - 1

Meanings(t) == LET r == Tokenize(t) IN IF r = Fail THEN {} ELSE Statements(r.value)

\* The tokenizer cuts each text where its spelling says: a string may hold
\* quotes, a name anything but its own quote, and what belongs together stays
\* together (query_parser.rs:122-290).
ReadsItsSpelling ==
  reply = None =>
    LET r == Tokenize(text) IN Readings(text) = IF r = Fail THEN {} ELSE {r.value}
=============================================================================
