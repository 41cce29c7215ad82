---------------------------- MODULE QuerySyntax -----------------------------
(***************************************************************************)
(* What the parser of src/src/query_parser.rs hands on: ParsedQuery, and   *)
(* in it a FilterExpr, a condition on a field or AND or OR of others.      *)
(*                                                                         *)
(* A filter is [kind, field, values, kids].  A field is its characters,    *)
(* the dots of its path among them, and a list's values are several.       *)
(***************************************************************************)
EXTENDS Integers, Sequences, SequencesExt, FiniteSets

CONSTANTS
  None,
  MaxDepth, \* how deep AND and OR stand in one another
  Wholes,   \* the whole numbers of a text, and those before the dot of a float
  Alphabet  \* what names, strings and keys are made of, in the order of its bytes

ASSUME MaxDepthAssumption == MaxDepth \in Nat
ASSUME WholesAssumption == Wholes \subseteq Int

Fail == [failed |-> TRUE]

Literal(t, v, n) == [t |-> t, v |-> v, n |-> n]
Condition(kind, field, values) ==
  [kind |-> kind, field |-> field, values |-> values, kids |-> << >>]
Node(kind, kids) == [kind |-> kind, field |-> << >>, values |-> << >>, kids |-> kids]

Conditional(f) == f.kind \notin {"and", "or"}
-----------------------------------------------------------------------------
Pieces == {Alphabet[i] : i \in DOMAIN Alphabet}
Characters == Seq(Pieces)

\* Literal: a number is n, and behind the dot of a float come the digits v.
Digits == {"0", "1", "2", "3", "4", "5", "6", "7", "8", "9"}
Fractions == {v \in Seq(Digits) : v # << >> => v[Len(v)] # "0"}

Operands ==
  [t : {"str", "timestamp", "ref"}, v : Characters, n : {0}]
  \cup [t : {"int"}, v : {<< >>}, n : Wholes] \cup [t : {"float"}, v : Fractions, n : Wholes]
  \cup [t : {"bool"}, v : {<< >>}, n : {0, 1}] \cup [t : {"null"}, v : {<< >>}, n : {0}]

Comparing == {"Eq", "Ne", "Lt", "Le", "Gt", "Ge"}
Listing == {"in", "not_in", "aca"}

Leaves ==
  {c \in [kind : Comparing \cup Listing \cup {"ac"}, field : Characters,
          values : Seq(Operands), kids : {<< >>}] : c.kind \in Listing \/ Len(c.values) = 1}

Branches(filters) == [kind : {"and", "or"}, field : {<< >>}, values : {<< >>}, kids : Seq(filters)]

FilterExprTo[n \in 0..MaxDepth] ==
  IF n = 0 THEN Leaves ELSE LET lower == FilterExprTo[n - 1] IN lower \cup Branches(lower)

FilterExpr == FilterExprTo[MaxDepth]

\* The conditions of a filter, each at its place.
Placed[f \in FilterExpr] ==
  IF Conditional(f) THEN {[at |-> << >>, leaf |-> f]}
  ELSE UNION {{[at |-> <<i, p.at>>, leaf |-> p.leaf] : p \in Placed[f.kids[i]]} : i \in DOMAIN f.kids}

\* What can be typed: a list has a value, and no literal is a document's path.
Typeable(f) ==
  \A p \in Placed[f] :
    p.leaf.values # << >> /\ \A i \in DOMAIN p.leaf.values : p.leaf.values[i].t # "ref"

ParsedQuery ==
  [table : Characters, columns : Seq(Characters) \cup {None},
   where : {f \in FilterExpr : Typeable(f)} \cup {None},
   order : Seq([field : Characters, desc : BOOLEAN]),
   limit : Nat \cup {None}, offset : Nat \cup {None}]
-----------------------------------------------------------------------------
(* The parts of a filter in another order.                                 *)

Shuffled(s) == {[i \in DOMAIN s |-> s[p[i]]] : p \in Bijection(DOMAIN s, DOMAIN s)}

\* One of each of the sets.
OneOfEach(sets) ==
  {f \in [DOMAIN sets -> UNION {sets[i] : i \in DOMAIN sets}] : \A i \in DOMAIN sets : f[i] \in sets[i]}

Reordered[f \in FilterExpr] ==
  IF Conditional(f) THEN {Condition(f.kind, f.field, v) : v \in Shuffled(f.values)}
  ELSE {Node(f.kind, k) :
          k \in UNION {Shuffled(kids) : kids \in OneOfEach([i \in DOMAIN f.kids |-> Reordered[f.kids[i]]])}}
=============================================================================
