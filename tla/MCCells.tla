------------------------------- MODULE MCCells ------------------------------
\* TLC instance of Cells: field a takes a value of every kind, nested ones and
\* strings that spell something else among them; field b is a plain word.
EXTENDS Cells, TLC

Word == <<"string", <<"word", "w">>>>
Path == <<"path", "t/d1">>
Geo == <<"geopoint", [lat |-> "1.5", lng |-> "2.5"]>>
Instant == <<"timestamp", "noon">>
Ints == <<"array", <<<<"integer", "1">>>>>>
JInts == <<"array", <<<<"int", "1">>>>>>
OneKey(v) == <<"map", [k |-> v]>>

Scalars ==
  {<<"null", "">>, <<"integer", "1">>, <<"double", "NaN">>, Word, <<"bytes", "b">>, Instant, <<"reference", Path>>, Geo}
Nested ==
  {Ints, <<"array", <<Geo, Instant>>>>, OneKey(Ints),
   <<"array", <<OneKey(Ints)>>>>}
Spelt ==
  {<<"string", t>> : t \in
     {<<"utc", "noon">>, <<"offset", "noon">>, <<"base64", "b">>, Path, <<"json", JInts>>,
      <<"json", <<"object", [k |-> JInts]>>>>, <<"json", <<"int", "1">>>>,
      <<"json", JsonText(JInts)>>, <<"json", JsonText(JsonText(JInts))>>, <<"spaced", JInts>>, <<"json", <<"array", <<JInts>>>>>>}}

MCStored == Scalars \cup Nested \cup Spelt

Doc(v) == [a |-> v, b |-> Word]
MCInitialStores ==
  {[d1 |-> Doc(v)] : v \in MCStored}
  \cup {[d1 |-> Doc(v), d2 |-> [a |-> Instant]] : v \in {Ints, <<"string", <<"offset", "noon">>>>}}

Silent == [required |-> None, type |-> None, hidden |-> None]
Says(type) ==
  "t" :> [fields |-> "a" :> [Silent EXCEPT !.type = type], extra |-> [f \in {} |-> None]]
MCFiles == {None, Says("array")}

MCOthers == [f \in Fields |-> IF f = "a" THEN {Instant, <<"bytes", "b">>} ELSE {<<"string", <<"word", "x">>>>}]
MCTyped ==
  [f \in Fields |->
     IF f = "a" THEN {<<"big", "2^63">>, JsonText(JInts), JString(<<"offset", "noon">>),
                      JString(<<"base64", "b">>)}
                ELSE {}]

\* All that cells come to hold, and all that is inside: what they hold at first,
\* what is written or typed into them, and what saves make of it.
Inside(x) ==
  CASE x[1] \in {"array", "map", "object"} -> {x[2][k] : k \in DOMAIN x[2]}
    [] x[1] = "string" /\ ReadsAsJson(x[2]) -> {x[2][2]}
    [] OTHER -> {}
SavedAs(j) == {v \in {JsonToProto(j, hint) : hint \in Hints} : Storable(v)}
Texts(values) == {JString(v[2]) : v \in {v \in values : v[1] = "string"}}

RECURSIVE Closure(_, _)
Closure(values, jsons) ==
  LET moreValues == values \cup UNION {Inside(v) : v \in values \ Texts(values)}
                           \cup UNION {SavedAs(j) : j \in jsons}
      moreJsons == jsons \cup UNION {Inside(j) : j \in jsons \cup Texts(values)}
                         \cup {SerializeValue(v) : v \in values}
  IN IF moreValues = values /\ moreJsons = jsons
       THEN [values |-> values, jsons |-> jsons]
       ELSE Closure(moreValues, moreJsons)

Everything ==
  Closure(MCStored \cup UNION {MCOthers[f] : f \in Fields},
          {JNull} \cup UNION {MCTyped[f] : f \in Fields})
MCValues == Everything.values
MCJsons == Everything.jsons

\* What is inside is treated as the whole: with these for the parameters, the
\* operators of CellValues call themselves.
RECURSIVE MCSerializeInner(_)
MCSerializeInner(v) == LET shown == SerializeValue(v) IN shown
RECURSIVE MCUnhintedInner(_)
MCUnhintedInner(j) == LET value == Unhinted(j) IN value
RECURSIVE MCStorableInner(_)
MCStorableInner(v) == LET taken == Storable(v) IN taken
=============================================================================
