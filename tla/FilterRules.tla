----------------------------- MODULE FilterRules ----------------------------
(***************************************************************************)
(* From a parsed filter to what is sent to Firestore, and to the key its   *)
(* count and cursors are cached under: prepare_filter and canonical_filter *)
(* of src/src/handlers/query.rs, and src/src/firestore_filter.rs.          *)
(***************************************************************************)
EXTENDS QuerySyntax

CONSTANTS
  MaxValues,  \* values a list may hold (30)
  Decimal(_)  \* how a number is written in a key

ASSUME MaxValuesAssumption == MaxValues \in Nat
-----------------------------------------------------------------------------
(* validate.                                                               *)

Inequalities == {"Lt", "Le", "Gt", "Ge", "Ne"}

Of(f, kinds) == {p \in Placed[f] : p.leaf.kind \in kinds}

\* The fields with an inequality are a set, those of ARRAY_CONTAINS are counted.
Valid(f) ==
  LET unequal == {p.leaf.field : p \in Of(f, Inequalities)}
      contains(field) == {p \in Of(f, {"ac"}) : p.leaf.field = field}
  IN /\ Cardinality(unequal) <= 1
     /\ \A p \in Of(f, Listing) : Len(p.leaf.values) <= MaxValues
     /\ ~(Of(f, {"ac"}) # {} /\ Of(f, {"aca"}) # {})
     /\ \A p \in Of(f, {"ac"}) : Cardinality(contains(p.leaf.field)) <= 1
-----------------------------------------------------------------------------
(* rewrite_doc_id.                                                         *)

DocId == <<"id">>
Name == <<"__name__">>
ASSUME NameAssumption == Name \in Characters

\* A document's path is its id behind a prefix that depends on the table only.
Promoted(l) == IF l.t = "str" THEN Literal("ref", l.v, 0) ELSE l

PromotedAll(values) == [i \in DOMAIN values |-> Promoted(values[i])]

RewriteLeaf(c) ==
  IF c.field = DocId /\ c.kind \notin {"ac", "aca"}
    THEN Condition(c.kind, Name, PromotedAll(c.values)) ELSE c

Rewrite[f \in FilterExpr] ==
  IF Conditional(f) THEN RewriteLeaf(f)
  ELSE Node(f.kind, [i \in DOMAIN f.kids |-> Rewrite[f.kids[i]]])
-----------------------------------------------------------------------------
(* build_filter: Firestore's own operators, a list as one array value.     *)

Operator(kind) ==
  CASE kind = "Eq" -> "EQUAL"
    [] kind = "Ne" -> "NOT_EQUAL"
    [] kind = "Lt" -> "LESS_THAN"
    [] kind = "Le" -> "LESS_THAN_OR_EQUAL"
    [] kind = "Gt" -> "GREATER_THAN"
    [] kind = "Ge" -> "GREATER_THAN_OR_EQUAL"
    [] kind = "in" -> "IN"
    [] kind = "not_in" -> "NOT_IN"
    [] kind = "ac" -> "ARRAY_CONTAINS"
    [] kind = "aca" -> "ARRAY_CONTAINS_ANY"
    [] kind = "and" -> "AND"
    [] kind = "or" -> "OR"

\* A condition as it is sent; a composite filter holds its parts as they are built.
Built(c) == [op |-> Operator(c.kind), path |-> c.field, operand |-> c.values]
-----------------------------------------------------------------------------
(* canonical_filter: a key is a sequence of pieces of text.                *)

\* What keys are made of besides names, strings and digits.
Marks ==
  Comparing \cup Listing \cup {"(", ")", "[", "]", "'", ",", " ", ".", "cmp", "ac", "and", "or",
                               "true", "false", "null", "ts:", "ref:"}
Numerals == {Decimal(n) : n \in Wholes}

ASSUME AlphabetAssumption ==
  /\ Alphabet \in Seq(Pieces) /\ IsInjective(Alphabet)
  /\ Marks \cup Numerals \cup Digits \subseteq Pieces
ASSUME DecimalAssumption ==
  /\ Numerals \cap Marks = {}
  /\ \A m, n \in Wholes : Decimal(m) = Decimal(n) => m = n

Rank(piece) == CHOOSE i \in DOMAIN Alphabet : Alphabet[i] = piece

\* The order of the texts, piece by piece.
Before(a, b) ==
  \E n \in 0..Len(a) :
    /\ n <= Len(b) /\ SubSeq(a, 1, n) = SubSeq(b, 1, n)
    /\ \/ n = Len(a) /\ n < Len(b)
       \/ n < Len(a) /\ n < Len(b) /\ Rank(a[n + 1]) < Rank(b[n + 1])

Sorted(texts) ==
  CHOOSE s \in Shuffled(texts) : \A i, j \in DOMAIN s : i < j => ~Before(s[j], s[i])

Joined(texts, separator) ==
  FlattenSeq([i \in DOMAIN texts |-> IF i = 1 THEN texts[i] ELSE <<separator>> \o texts[i]])

\* Only strings have quotes around them; a quote inside stands as it is.
CanonicalLiteral(l) ==
  CASE l.t = "str" -> <<"'">> \o l.v \o <<"'">>
    [] l.t = "int" -> <<Decimal(l.n)>>
    [] l.t = "float" -> <<Decimal(l.n), ".">> \o (IF l.v = << >> THEN <<"0">> ELSE l.v)
    [] l.t = "bool" -> <<IF l.n = 1 THEN "true" ELSE "false">>
    [] l.t = "null" -> <<"null">>
    [] l.t = "timestamp" -> <<"ts:">> \o l.v
    [] l.t = "ref" -> <<"ref:">> \o l.v

ListText(values) ==
  <<"[">> \o Joined(Sorted([i \in DOMAIN values |-> CanonicalLiteral(values[i])]), ",") \o <<"]">>

\* The slips: the kids as they stand, and the same word for IN and NOT IN.
CanonicalKidsAsWritten(texts) == Joined(texts, " ")
CanonicalKids(texts) == Joined(Sorted(texts), " ")

KindTextUnsigned(kind) == IF kind = "not_in" THEN "in" ELSE kind
KindText(kind) == kind

Clause(word, subject, object) == <<"(", word, " ">> \o subject \o <<" ">> \o object \o <<")">>

CanonicalLeaf(c) ==
  CASE c.kind \in Listing -> Clause(KindText(c.kind), c.field, ListText(c.values))
    [] c.kind = "ac" -> Clause("ac", c.field, CanonicalLiteral(c.values[1]))
    [] OTHER -> Clause("cmp", c.field \o <<" ", c.kind>>, CanonicalLiteral(c.values[1]))

Canonical[f \in FilterExpr] ==
  IF Conditional(f) THEN CanonicalLeaf(f)
  ELSE <<"(", KindText(f.kind), " ">>
         \o CanonicalKids([i \in DOMAIN f.kids |-> Canonical[f.kids[i]]]) \o <<")">>
=============================================================================
