----------------------------- MODULE CellValues -----------------------------
(***************************************************************************)
(* What a Firestore value becomes in a cell of the grid (serialize_value   *)
(* of src/src/handlers/query.rs), and what the JSON of a cell becomes when *)
(* it is saved (src/src/coercion.rs).                                      *)
(*                                                                         *)
(* Values, JSON and texts are pairs of a kind and a content.  Firestore's  *)
(* kinds are the types of SchemaInfer.  JSON has "null", "bool", "int" (64 *)
(* bits), "big" (a whole number beyond them), "float", "string", "array"   *)
(* and "object".  A text is told from others by what it spells:            *)
(*                                                                         *)
(*   <<"utc", t>>, <<"offset", t>>    an instant in RFC 3339, the way the  *)
(*                                    plugin writes it or another way      *)
(*   <<"base64", b>>                  bytes                                *)
(*   <<"path", p>>                    the name of a document               *)
(*   <<"json", j>>, <<"spaced", j>>   JSON, the way the plugin writes it   *)
(*                                    or another way                       *)
(*   <<"word", w>>                    none of these                        *)
(*                                                                         *)
(* and a string field may hold any of them.                                *)
(*                                                                         *)
(* serialize_value, json_to_proto and what Firestore refuses call          *)
(* themselves on what is inside an array or a map.  Here what they say of  *)
(* it is a parameter, which Cells assumes to be what they say of a value,  *)
(* and which the instances for TLC make just that.                         *)
(***************************************************************************)
EXTENDS Sequences

CONSTANTS
  Values,  \* the values of Firestore, those inside others included
  Jsons,   \* the JSON of cells, and what is inside it
  SerializeInner(_), UnhintedInner(_), StorableInner(_)

Types == {"null", "boolean", "integer", "double", "string", "bytes", "timestamp", "reference",
          "geopoint", "array", "map"}
JsonKinds == {"null", "bool", "int", "big", "float", "string", "array", "object"}

JNull == <<"null", "">>
JString(text) == <<"string", text>>
JsonText(j) == JString(<<"json", j>>)

ReadsAsInstant(text) == text[1] \in {"utc", "offset"}
ReadsAsBytes(text) == text[1] = "base64"
ReadsAsJson(text) == text[1] \in {"json", "spaced"}

\* What the pairs look like; JSON has no NaN, and no JSON string spells itself.
IsPair(x) == x = <<x[1], x[2]>>
IsFunction(f) == f = [k \in DOMAIN f |-> f[k]]
IsText(text) ==
  /\ IsPair(text)
  /\ text[1] \in {"utc", "offset", "base64", "path", "json", "spaced", "word"}
  /\ ReadsAsJson(text) => text[2] \in Jsons
IsJson(j) ==
  /\ IsPair(j) /\ j[1] \in JsonKinds
  /\ j[1] = "null" => j[2] = ""
  /\ j[1] = "float" => j[2] # "NaN"
  /\ j[1] = "string" => IsText(j[2]) /\ (ReadsAsJson(j[2]) => j[2][2] # j)
  /\ j[1] \in {"array", "object"} => IsFunction(j[2]) /\ \A k \in DOMAIN j[2] : j[2][k] \in Jsons
IsValue(v) ==
  /\ IsPair(v) /\ v[1] \in Types
  /\ v[1] = "null" => v[2] = ""
  /\ v[1] \in {"string", "reference"} => IsText(v[2])
  /\ v[1] \in {"array", "map"} => IsFunction(v[2]) /\ \A k \in DOMAIN v[2] : v[2][k] \in Values

\* serialize_value: arrays and maps become text, and so do those inside them; a
\* geopoint becomes an object; JSON has no NaN.
SerializeValue(v) ==
  LET each == [k \in DOMAIN v[2] |-> SerializeInner(v[2][k])]
  IN CASE v[1] = "null" \/ v = <<"double", "NaN">> -> JNull
       [] v[1] = "boolean" -> <<"bool", v[2]>>
       [] v[1] = "integer" -> <<"int", v[2]>>
       [] v[1] = "double" /\ v[2] # "NaN" -> <<"float", v[2]>>
       [] v[1] \in {"string", "reference"} -> JString(v[2])
       [] v[1] = "bytes" -> JString(<<"base64", v[2]>>)
       [] v[1] = "timestamp" -> JString(<<"utc", v[2]>>)
       [] v[1] = "geopoint" -> <<"object", [k \in {"lat", "lng"} |-> <<"float", v[2][k]>>]>>
       [] v[1] = "array" -> JsonText(<<"array", each>>)
       [] v[1] = "map" -> JsonText(<<"object", each>>)

\* The slip takes whole numbers for doubles and doubles for whole numbers.
UnhintedSwapped(j) ==
  LET each == [k \in DOMAIN j[2] |-> UnhintedInner(j[2][k])]
  IN CASE j[1] = "null" -> <<"null", "">>
       [] j[1] = "bool" -> <<"boolean", j[2]>>
       [] j[1] = "float" -> <<"integer", j[2]>>
       [] j[1] \in {"big", "int"} -> <<"double", j[2]>>
       [] j[1] = "string" -> <<"string", j[2]>>
       [] j[1] = "array" -> <<"array", each>>
       [] j[1] = "object" -> <<"map", each>>

\* json_to_proto without a hint, which is how everything inside JSON is read.
Unhinted(j) ==
  LET each == [k \in DOMAIN j[2] |-> UnhintedInner(j[2][k])]
  IN CASE j[1] = "null" -> <<"null", "">>
       [] j[1] = "bool" -> <<"boolean", j[2]>>
       [] j[1] = "int" -> <<"integer", j[2]>>
       [] j[1] \in {"big", "float"} -> <<"double", j[2]>>
       [] j[1] = "string" -> <<"string", j[2]>>
       [] j[1] = "array" -> <<"array", each>>
       [] j[1] = "object" -> <<"map", each>>

\* The slip has forgotten references.
CoerceStringWithoutReferences(text, hint) ==
  CASE hint = "timestamp" /\ ReadsAsInstant(text) -> <<"timestamp", text[2]>>
    [] hint = "binary" /\ ReadsAsBytes(text) -> <<"bytes", text[2]>>
    [] hint \in {"array", "map"} /\ ReadsAsJson(text) -> Unhinted(text[2])
    [] OTHER -> <<"string", text>>
\* The slip leaves nothing of a text that is no instant in a column of them.
CoerceStringOrNull(text, hint) ==
  CASE hint = "timestamp" ->
         IF ReadsAsInstant(text) THEN <<"timestamp", text[2]>> ELSE <<"null", "">>
    [] hint = "reference" -> <<"reference", text>>
    [] hint = "binary" /\ ReadsAsBytes(text) -> <<"bytes", text[2]>>
    [] hint \in {"array", "map"} /\ ReadsAsJson(text) -> Unhinted(text[2])
    [] OTHER -> <<"string", text>>
\* coerce_string: the hint is the type of the column, or anything else; a text
\* that does not read as the type says stays a string.
CoerceString(text, hint) ==
  CASE hint = "timestamp" /\ ReadsAsInstant(text) -> <<"timestamp", text[2]>>
    [] hint = "reference" -> <<"reference", text>>
    [] hint = "binary" /\ ReadsAsBytes(text) -> <<"bytes", text[2]>>
    [] hint \in {"array", "map"} /\ ReadsAsJson(text) -> Unhinted(text[2])
    [] OTHER -> <<"string", text>>

JsonToProto(j, hint) == IF j[1] = "string" THEN CoerceString(j[2], hint) ELSE Unhinted(j)

\* What Firestore takes: names of documents as references, and no array that
\* has an array as an element.
Storable(v) ==
  /\ v[1] = "reference" => v[2][1] = "path"
  /\ v[1] \in {"array", "map"} => \A k \in DOMAIN v[2] : StorableInner(v[2][k])
  /\ v[1] = "array" => \A k \in DOMAIN v[2] : v[2][k][1] # "array"
=============================================================================
