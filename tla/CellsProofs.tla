---------------------------- MODULE CellsProofs -----------------------------
(***************************************************************************)
(* The properties of Cells, proved for every value of its constants:       *)
(* values nested to any depth, strings that spell anything.                *)
(***************************************************************************)
EXTENDS Cells, SchemaInferProofs, TLAPS

-----------------------------------------------------------------------------
(* What a save of a cell makes of the value that the cell shows.           *)

\* The value that the JSON shown of this one is saved as, in a column taken to
\* be of this type.
Again(v, hint) == JsonToProto(SerializeValue(v), hint)

\* What the field holds after the save: the old value if Firestore refuses.
Saved(v, hint) == IF Storable(Again(v, hint)) THEN Again(v, hint) ELSE v
Stands(v, hint) == Saved(v, hint) = v

\* What a value shows is JSON, and is shown of it inside others as well.
LEMMA ShownIsJson ==
  ASSUME NEW v \in Values
  PROVE  SerializeValue(v) \in Jsons /\ IsJson(SerializeValue(v))
         /\ SerializeInner(v) = SerializeValue(v)
BY ValuesAssumption, JsonsAssumption

\* What is made of JSON, if Firestore takes it, is a value, and is made of it
\* inside other JSON as well.
LEMMA SavedIsValue ==
  ASSUME NEW j \in Jsons, NEW hint \in Hints, Storable(JsonToProto(j, hint))
  PROVE  JsonToProto(j, hint) \in Values /\ IsValue(JsonToProto(j, hint))
BY ValuesAssumption, JsonsAssumption

LEMMA InsideIsRead ==
  ASSUME NEW j \in Jsons
  PROVE  UnhintedInner(j) = Unhinted(j) /\ IsJson(j)
BY JsonsAssumption

\* Where the text cannot be told from what the plugin writes, the value it
\* spells is a pair of the same content.
LEMMA TextIsPair ==
  ASSUME NEW text, IsText(text)
  PROVE  text = <<text[1], text[2]>>
BY DEF IsText, IsPair

LEMMA ValueIsPair ==
  ASSUME NEW v \in Values
  PROVE  IsValue(v) /\ v = <<v[1], v[2]>> /\ v[1] \in Types
BY ValuesAssumption DEF IsValue, IsPair

\* What a cell shows of each kind of value.
LEMMA ShownOfNumber ==
  ASSUME NEW v \in Values
  PROVE  /\ v[1] = "null" => SerializeValue(v) = JNull
         /\ v[1] = "double" /\ v[2] = "NaN" => SerializeValue(v) = JNull
         /\ v[1] = "boolean" => SerializeValue(v) = <<"bool", v[2]>>
         /\ v[1] = "integer" => SerializeValue(v) = <<"int", v[2]>>
         /\ v[1] = "double" /\ v[2] # "NaN" => SerializeValue(v) = <<"float", v[2]>>
BY ValueIsPair DEF SerializeValue

LEMMA ShownOfString ==
  ASSUME NEW v \in Values
  PROVE  /\ v[1] \in {"string", "reference"} => SerializeValue(v) = JString(v[2])
         /\ v[1] = "bytes" => SerializeValue(v) = JString(<<"base64", v[2]>>)
         /\ v[1] = "timestamp" => SerializeValue(v) = JString(<<"utc", v[2]>>)
BY ValueIsPair DEF SerializeValue

ShownInside(v) == [k \in DOMAIN v[2] |-> SerializeInner(v[2][k])]
LEMMA ShownOfNested ==
  ASSUME NEW v \in Values
  PROVE  /\ v[1] = "array" => SerializeValue(v) = JsonText(<<"array", ShownInside(v)>>)
         /\ v[1] = "map" => SerializeValue(v) = JsonText(<<"object", ShownInside(v)>>)
         /\ v[1] = "geopoint" =>
              SerializeValue(v) = <<"object", [k \in {"lat", "lng"} |-> <<"float", v[2][k]>>]>>
BY ValueIsPair DEF SerializeValue, ShownInside

\* What is read of each kind of JSON.
ReadInside(j) == [k \in DOMAIN j[2] |-> UnhintedInner(j[2][k])]
LEMMA JNullKind == JNull[1] = "null" /\ Unhinted(JNull)[1] = "null"
BY DEF JNull, Unhinted
LEMMA ReadNull == Unhinted(JNull) = <<"null", "">>
BY DEF Unhinted, JNull
LEMMA ReadBool == ASSUME NEW x PROVE Unhinted(<<"bool", x>>) = <<"boolean", x>>
BY DEF Unhinted
LEMMA ReadInt == ASSUME NEW x PROVE Unhinted(<<"int", x>>) = <<"integer", x>>
BY DEF Unhinted
LEMMA ReadFloat == ASSUME NEW x PROVE Unhinted(<<"float", x>>) = <<"double", x>>
BY DEF Unhinted
LEMMA ReadString == ASSUME NEW x PROVE Unhinted(JString(x)) = <<"string", x>>
BY DEF Unhinted, JString
LEMMA ReadArray ==
  ASSUME NEW x PROVE Unhinted(<<"array", x>>) = <<"array", ReadInside(<<"array", x>>)>>
BY DEF Unhinted, ReadInside
LEMMA ReadObject ==
  ASSUME NEW x PROVE Unhinted(<<"object", x>>) = <<"map", ReadInside(<<"object", x>>)>>
BY DEF Unhinted, ReadInside

LEMMA ReadKind ==
  ASSUME NEW j \in Jsons
  PROVE  Unhinted(j)[1] \in {"null", "boolean", "integer", "double", "string", "array", "map"}
BY InsideIsRead DEF IsJson, JsonKinds, Unhinted

\* A save keeps values of these kinds inside an array or a map.
Plain(w) ==
  w[1] \in {"null", "boolean", "integer", "double", "string"} /\ ~(w[1] = "double" /\ w[2] = "NaN")

\* What is inside, once it has been shown and saved.
ReadBack(w) == Unhinted(SerializeValue(w))

LEMMA PlainStays ==
  ASSUME NEW w \in Values, Plain(w)
  PROVE  /\ ReadBack(w) = w
         /\ SerializeValue(w)[1] \in {"null", "bool", "int", "float", "string"}
<1>1. w = <<w[1], w[2]>> /\ (w[1] = "null" => w[2] = "")
  BY ValueIsPair DEF IsValue
<1>2. CASE w[1] = "null"
  BY <1>1, <1>2, ShownOfNumber, ReadNull DEF ReadBack, JNull
<1>3. CASE w[1] = "boolean"
  BY <1>1, <1>3, ShownOfNumber, ReadBool DEF ReadBack
<1>4. CASE w[1] = "integer"
  BY <1>1, <1>4, ShownOfNumber, ReadInt DEF ReadBack
<1>5. CASE w[1] = "double"
  <2>1. w[2] # "NaN"
    BY <1>1, <1>5 DEF Plain
  <2> QED
    BY <1>1, <1>5, <2>1, ShownOfNumber, ReadFloat DEF ReadBack
<1>6. CASE w[1] = "string"
  BY <1>1, <1>6, ShownOfString, ReadString DEF ReadBack, JString
<1> QED
  BY <1>2, <1>3, <1>4, <1>5, <1>6 DEF Plain

\* What is shown as text is a string once it is saved.
LEMMA TextIsString ==
  ASSUME NEW w \in Values, w[1] \in {"bytes", "timestamp", "reference", "array", "map"}
  PROVE  ReadBack(w)[1] = "string"
<1>1. \E text : SerializeValue(w) = JString(text)
  BY ShownOfString, ShownOfNested DEF JsonText
<1> QED
  BY <1>1, ReadString DEF ReadBack

LEMMA GeopointIsMap ==
  ASSUME NEW w \in Values, w[1] = "geopoint"
  PROVE  ReadBack(w)[1] = "map"
<1>1. \E x : SerializeValue(w) = <<"object", x>>
  BY ShownOfNested
<1> QED
  BY <1>1, ReadObject DEF ReadBack

LEMMA NaNIsNull ==
  ASSUME NEW w \in Values, w[1] = "double" /\ w[2] = "NaN"
  PROVE  ReadBack(w)[1] = "null"
BY ShownOfNumber, JNullKind DEF ReadBack

LEMMA NotPlain ==
  ASSUME NEW w \in Values, ~Plain(w)
  PROVE  \/ w[1] = "double" /\ w[2] = "NaN"
         \/ w[1] \in {"bytes", "timestamp", "reference", "array", "map"}
         \/ w[1] = "geopoint"
BY ValueIsPair DEF Plain, Types

LEMMA NotPlainChanges ==
  ASSUME NEW w \in Values, ~Plain(w)
  PROVE  ReadBack(w) # w
BY NotPlain, NaNIsNull, TextIsString, GeopointIsMap

\* Whatever is inside is plain after one save, but for a geopoint, which is a
\* map first.
LEMMA ReadBackKind ==
  ASSUME NEW w \in Values
  PROVE  Plain(ReadBack(w)) \/ ReadBack(w)[1] = "map"
<1>1. CASE Plain(w)
  BY <1>1, PlainStays
<1>2. CASE w[1] = "double" /\ w[2] = "NaN"
  BY <1>2, NaNIsNull DEF Plain
<1>3. CASE w[1] \in {"bytes", "timestamp", "reference", "array", "map"}
  BY <1>3, TextIsString DEF Plain
<1>4. CASE w[1] = "geopoint"
  BY <1>4, GeopointIsMap
<1> QED
  BY <1>1, <1>2, <1>3, <1>4, NotPlain

\* An array or a map that is inside is text after one save.
LEMMA NestedIsText ==
  ASSUME NEW w \in Values, w[1] \in {"array", "map"}
  PROVE  Plain(ReadBack(w))
BY TextIsString DEF Plain

\* An array or a map, in a column of arrays or maps.
LEMMA AgainNested ==
  ASSUME NEW v \in Values, v[1] \in {"array", "map"}, NEW hint \in {"array", "map"}
  PROVE  Again(v, hint) = <<v[1], [k \in DOMAIN v[2] |-> ReadBack(v[2][k])]>>
<1> DEFINE kind == IF v[1] = "array" THEN "array" ELSE "object"
           j == <<kind, ShownInside(v)>>
<1>1. SerializeValue(v) = JsonText(j)
  BY ShownOfNested
<1>2. Again(v, hint) = Unhinted(j)
  BY <1>1 DEF Again, JsonToProto, JsonText, JString, CoerceString, ReadsAsJson
<1>3. Unhinted(j) = <<v[1], ReadInside(j)>>
  BY DEF Unhinted, ReadInside
<1>4. ASSUME NEW k \in DOMAIN v[2]
      PROVE  UnhintedInner(ShownInside(v)[k]) = ReadBack(v[2][k])
  <2>1. v[2][k] \in Values
    BY ValueIsPair DEF IsValue
  <2>2. ShownInside(v)[k] = SerializeValue(v[2][k]) /\ SerializeValue(v[2][k]) \in Jsons
    BY <2>1, ShownIsJson DEF ShownInside
  <2> QED
    BY <2>2, InsideIsRead DEF ReadBack
<1>5. ReadInside(j) = [k \in DOMAIN v[2] |-> ReadBack(v[2][k])]
  BY <1>4 DEF ReadInside, ShownInside
<1> QED
  BY <1>2, <1>3, <1>5

\* What is not shown as text is saved without a hint.
LEMMA AgainUnhinted ==
  ASSUME NEW v \in Values, SerializeValue(v)[1] # "string", NEW hint
  PROVE  Again(v, hint) = ReadBack(v)
BY DEF Again, ReadBack, JsonToProto

LEMMA AgainText ==
  ASSUME NEW v \in Values, NEW text, SerializeValue(v) = JString(text), NEW hint
  PROVE  Again(v, hint) = CoerceString(text, hint)
BY DEF Again, JsonToProto, JString

LEMMA NumberRoundTrip ==
  ASSUME NEW v \in Values, v[1] \in {"null", "boolean", "integer", "double"}, NEW hint
  PROVE  Again(v, hint) = v <=> Survives(v, hint)
<1>1. SerializeValue(v)[1] # "string"
  <2>1. CASE v[1] = "null"
    BY <2>1, ShownOfNumber, JNullKind
  <2>2. CASE v[1] = "boolean"
    BY <2>2, ShownOfNumber
  <2>3. CASE v[1] = "integer"
    BY <2>3, ShownOfNumber
  <2>4. CASE v[1] = "double" /\ v[2] = "NaN"
    BY <2>4, ShownOfNumber, JNullKind
  <2>5. CASE v[1] = "double" /\ v[2] # "NaN"
    BY <2>5, ShownOfNumber
  <2> QED
    BY <2>1, <2>2, <2>3, <2>4, <2>5
<1>2. Again(v, hint) = ReadBack(v)
  BY <1>1, AgainUnhinted
<1>3. Plain(v) <=> ~(v[1] = "double" /\ v[2] = "NaN")
  BY ValueIsPair DEF Plain
<1>4. Survives(v, hint) <=> ~(v[1] = "double" /\ v[2] = "NaN")
  BY DEF Survives
<1> QED
  BY <1>2, <1>3, <1>4, PlainStays, NotPlainChanges

LEMMA GeopointRoundTrip ==
  ASSUME NEW v \in Values, v[1] = "geopoint", NEW hint
  PROVE  Again(v, hint)[1] = "map" /\ ~Survives(v, hint)
<1>1. \E x : SerializeValue(v) = <<"object", x>>
  BY ShownOfNested
<1>2. Again(v, hint) = ReadBack(v)
  BY <1>1, AgainUnhinted
<1>3. ~Survives(v, hint)
  BY DEF Survives
<1> QED
  BY <1>2, <1>3, GeopointIsMap

LEMMA StampRoundTrip ==
  ASSUME NEW v \in Values, v[1] \in {"timestamp", "bytes", "reference"}, Storable(v), NEW hint
  PROVE  Again(v, hint) = v <=> Survives(v, hint)
<1>1. v = <<v[1], v[2]>>
  BY ValueIsPair
<1>2. CASE v[1] = "timestamp"
  <2>1. Again(v, hint) = CoerceString(<<"utc", v[2]>>, hint)
    BY <1>2, ShownOfString, AgainText
  <2>2. CoerceString(<<"utc", v[2]>>, hint) =
          IF hint = "timestamp" THEN <<"timestamp", v[2]>>
          ELSE IF hint = "reference" THEN <<"reference", <<"utc", v[2]>>>>
          ELSE <<"string", <<"utc", v[2]>>>>
    BY DEF CoerceString, ReadsAsInstant, ReadsAsBytes, ReadsAsJson
  <2>3. Survives(v, hint) <=> hint = "timestamp"
    BY <1>2 DEF Survives
  <2>4. hint # "timestamp" => Again(v, hint)[1] \in {"reference", "string"}
    BY <2>1, <2>2
  <2>5. hint = "timestamp" => Again(v, hint) = v
    BY <1>1, <1>2, <2>1, <2>2
  <2> QED
    BY <1>2, <2>3, <2>4, <2>5
<1>3. CASE v[1] = "bytes"
  <2>1. Again(v, hint) = CoerceString(<<"base64", v[2]>>, hint)
    BY <1>3, ShownOfString, AgainText
  <2>2. CoerceString(<<"base64", v[2]>>, hint) =
          IF hint = "binary" THEN <<"bytes", v[2]>>
          ELSE IF hint = "reference" THEN <<"reference", <<"base64", v[2]>>>>
          ELSE <<"string", <<"base64", v[2]>>>>
    BY DEF CoerceString, ReadsAsInstant, ReadsAsBytes, ReadsAsJson
  <2>3. Survives(v, hint) <=> hint = "binary"
    BY <1>3 DEF Survives
  <2>4. hint # "binary" => Again(v, hint)[1] \in {"reference", "string"}
    BY <2>1, <2>2
  <2>5. hint = "binary" => Again(v, hint) = v
    BY <1>1, <1>3, <2>1, <2>2
  <2> QED
    BY <1>3, <2>3, <2>4, <2>5
<1>4. CASE v[1] = "reference"
  <2>1. Again(v, hint) = CoerceString(v[2], hint)
    BY <1>4, ShownOfString, AgainText
  <2>2. v[2][1] = "path"
    BY <1>4 DEF Storable
  <2>3. CoerceString(v[2], hint) =
          IF hint = "reference" THEN <<"reference", v[2]>> ELSE <<"string", v[2]>>
    BY <2>2 DEF CoerceString, ReadsAsInstant, ReadsAsBytes, ReadsAsJson
  <2>4. Survives(v, hint) <=> hint = "reference"
    BY <1>4 DEF Survives
  <2> QED
    BY <1>1, <1>4, <2>1, <2>3, <2>4
<1> QED
  BY <1>2, <1>3, <1>4

\* Only strings are read as strings.
LEMMA ReadsStringOfString ==
  ASSUME NEW j \in Jsons, Unhinted(j)[1] = "string"
  PROVE  j[1] = "string" /\ Unhinted(j)[2] = j[2]
BY InsideIsRead DEF IsJson, JsonKinds, Unhinted

\* No text spells a JSON string that it is read from.
LEMMA UnfoldedDiffers ==
  ASSUME NEW v \in Values, v[1] = "string", ReadsAsJson(v[2])
  PROVE  Unhinted(v[2][2]) # v
<1> DEFINE j == v[2][2]
<1>1. IsText(v[2])
  BY ValueIsPair DEF IsValue
<1>2. j \in Jsons
  BY <1>1 DEF IsText
<1>3. SUFFICES ASSUME Unhinted(j) = v PROVE FALSE
  OBVIOUS
<1>4. j[1] = "string" /\ j[2] = v[2]
  BY <1>2, <1>3, ReadsStringOfString
<1>5. IsJson(j)
  BY <1>2, InsideIsRead
<1> QED
  BY <1>4, <1>5 DEF IsJson

LEMMA StringRoundTrip ==
  ASSUME NEW v \in Values, v[1] = "string", NEW hint, Storable(Again(v, hint))
  PROVE  Again(v, hint) = v <=> Survives(v, hint)
<1>1. v = <<v[1], v[2]>>
  BY ValueIsPair
<1>2. Again(v, hint) = CoerceString(v[2], hint)
  BY ShownOfString, AgainText
<1>3. Survives(v, hint) <=>
        /\ ~(hint = "timestamp" /\ ReadsAsInstant(v[2]))
        /\ ~(hint = "binary" /\ ReadsAsBytes(v[2]))
        /\ ~(hint \in {"array", "map"} /\ ReadsAsJson(v[2]))
        /\ ~(hint = "reference" /\ v[2][1] = "path")
  BY DEF Survives
<1>4. CASE hint = "timestamp" /\ ReadsAsInstant(v[2])
  <2>1. Again(v, hint)[1] = "timestamp"
    BY <1>2, <1>4 DEF CoerceString
  <2> QED
    BY <1>3, <1>4, <2>1
<1>5. CASE hint = "binary" /\ ReadsAsBytes(v[2])
  <2>1. Again(v, hint)[1] = "bytes"
    BY <1>2, <1>5 DEF CoerceString
  <2> QED
    BY <1>3, <1>5, <2>1
<1>6. CASE hint \in {"array", "map"} /\ ReadsAsJson(v[2])
  <2>1. Again(v, hint) = Unhinted(v[2][2])
    BY <1>2, <1>6 DEF CoerceString
  <2> QED
    BY <1>3, <1>6, <2>1, UnfoldedDiffers
<1>7. CASE hint = "reference"
  <2>1. Again(v, hint) = <<"reference", v[2]>>
    BY <1>2, <1>7 DEF CoerceString
  <2>2. v[2][1] = "path" /\ Again(v, hint)[1] = "reference"
    BY <2>1 DEF Storable
  <2> QED
    BY <1>3, <1>7, <2>2
<1>8. CASE /\ ~(hint = "timestamp" /\ ReadsAsInstant(v[2]))
           /\ ~(hint = "binary" /\ ReadsAsBytes(v[2]))
           /\ ~(hint \in {"array", "map"} /\ ReadsAsJson(v[2]))
           /\ hint # "reference"
  <2>1. CoerceString(v[2], hint) = <<"string", v[2]>>
    BY <1>8 DEF CoerceString
  <2> QED
    BY <1>1, <1>2, <1>3, <1>8, <2>1
<1> QED
  BY <1>4, <1>5, <1>6, <1>7, <1>8

\* Only a column of arrays or maps is read as JSON.
LEMMA NestedElsewhere ==
  ASSUME NEW v \in Values, v[1] \in {"array", "map"}, NEW hint, hint \notin {"array", "map"}
  PROVE  \E j : Again(v, hint) = IF hint = "reference" THEN <<"reference", <<"json", j>>>>
                                 ELSE <<"string", <<"json", j>>>>
<1>1. PICK j : SerializeValue(v) = JString(<<"json", j>>)
  BY ShownOfNested DEF JsonText
<1>2. Again(v, hint) = CoerceString(<<"json", j>>, hint)
  BY <1>1, AgainText
<1> QED
  BY <1>2 DEF CoerceString, ReadsAsInstant, ReadsAsBytes

LEMMA PlainIs ==
  ASSUME NEW w \in Values
  PROVE  Plain(w) <=> /\ w[1] \in {"null", "boolean", "integer", "double", "string"}
                      /\ w # <<"double", "NaN">>
<1>1. w = <<w[1], w[2]>>
  BY ValueIsPair
<1>2. w = <<"double", "NaN">> <=> w[1] = "double" /\ w[2] = "NaN"
  BY <1>1
<1> QED
  BY <1>2 DEF Plain

AllPlain(v) == \A k \in DOMAIN v[2] : Plain(v[2][k])

LEMMA PlainSurvives ==
  ASSUME NEW v \in Values, v[1] \in {"array", "map"}, NEW hint \in {"array", "map"}
  PROVE  Survives(v, hint) <=> AllPlain(v)
<1> DEFINE kind == IF v[1] = "array" THEN "array" ELSE "object"
           text == <<"json", <<kind, ShownInside(v)>>>>
<1>1. SerializeValue(v)[2] = text
  BY ShownOfNested DEF JsonText, JString
<1>2. \A k \in DOMAIN v[2] : v[2][k] \in Values
  BY ValueIsPair DEF IsValue
<1>3. Survives(v, hint) <=>
        /\ Flat(text)
        /\ \A k \in DOMAIN v[2] :
             v[2][k][1] \in {"null", "boolean", "integer", "double", "string"}
             /\ v[2][k] # <<"double", "NaN">>
  BY <1>1 DEF Survives
<1>4. (\A k \in DOMAIN v[2] :
         v[2][k][1] \in {"null", "boolean", "integer", "double", "string"}
         /\ v[2][k] # <<"double", "NaN">>) <=> AllPlain(v)
  BY <1>2, PlainIs DEF AllPlain
<1>5. ASSUME AllPlain(v) PROVE Flat(text)
  <2>1. ASSUME NEW k \in DOMAIN v[2]
        PROVE  ShownInside(v)[k][1] \in {"null", "bool", "int", "float", "string"}
    <3>1. ShownInside(v)[k] = SerializeValue(v[2][k])
      BY <1>2, ShownIsJson DEF ShownInside
    <3> QED
      BY <1>2, <1>5, <3>1, PlainStays DEF AllPlain
  <2>2. DOMAIN ShownInside(v) = DOMAIN v[2]
    BY DEF ShownInside
  <2> QED
    BY <2>1, <2>2 DEF Flat
<1> QED
  BY <1>3, <1>4, <1>5

LEMMA NestedRoundTrip ==
  ASSUME NEW v \in Values, v[1] \in {"array", "map"}, NEW hint
  PROVE  Again(v, hint) = v <=> Survives(v, hint)
<1>1. v = <<v[1], v[2]>> /\ IsFunction(v[2]) /\ \A k \in DOMAIN v[2] : v[2][k] \in Values
  BY ValueIsPair DEF IsValue
<1>2. CASE hint \in {"array", "map"}
  <2> DEFINE content == [k \in DOMAIN v[2] |-> ReadBack(v[2][k])]
  <2>1. Again(v, hint) = <<v[1], content>>
    BY <1>2, AgainNested
  <2>2. content = v[2] <=> \A k \in DOMAIN v[2] : ReadBack(v[2][k]) = v[2][k]
    BY <1>1 DEF IsFunction
  <2>3. content = v[2] <=> AllPlain(v)
    BY <1>1, <2>2, PlainStays, NotPlainChanges DEF AllPlain
  <2>4. Again(v, hint)[2] = content
    BY <2>1
  <2>5. Again(v, hint) = v <=> content = v[2]
    BY <1>1, <2>1, <2>4
  <2> QED
    BY <1>2, <2>3, <2>5, PlainSurvives
<1>3. CASE hint \notin {"array", "map"}
  <2>1. Again(v, hint)[1] \in {"reference", "string"}
    BY <1>3, NestedElsewhere
  <2>2. ~Survives(v, hint)
    BY <1>3 DEF Survives
  <2> QED
    BY <2>1, <2>2
<1> QED
  BY <1>2, <1>3

\* A save of a cell as it stands keeps the value exactly if it survives.
LEMMA RoundTrip ==
  ASSUME NEW v \in Values, Storable(v), NEW hint, Storable(Again(v, hint))
  PROVE  Again(v, hint) = v <=> Survives(v, hint)
<1>1. CASE v[1] = "geopoint"
  BY <1>1, GeopointRoundTrip
<1> QED
  BY <1>1, ValueIsPair, NumberRoundTrip, StampRoundTrip, StringRoundTrip, NestedRoundTrip DEF Types

\* JSON of one piece is shown as it was saved, where no hint changes what it is
\* read as.
LEMMA ScalarShownAgain ==
  ASSUME NEW j \in Jsons, j[1] \in {"null", "bool", "int", "float", "string"},
         Unhinted(j) \in Values
  PROVE  SerializeValue(Unhinted(j)) = j
<1>1. j = <<j[1], j[2]>> /\ (j[1] = "null" => j[2] = "") /\ (j[1] = "float" => j[2] # "NaN")
  BY InsideIsRead DEF IsJson, IsPair
<1>2. CASE j[1] = "null"
  <2>1. j = JNull
    BY <1>1, <1>2 DEF JNull
  <2> QED
    BY <2>1, JNullKind, ShownOfNumber
<1>3. CASE j[1] = "bool"
  BY <1>1, <1>3, ReadBool, ShownOfNumber
<1>4. CASE j[1] = "int"
  BY <1>1, <1>4, ReadInt, ShownOfNumber
<1>5. CASE j[1] = "float"
  BY <1>1, <1>5, ReadFloat, ShownOfNumber
<1>6. CASE j[1] = "string"
  BY <1>1, <1>6, ReadString, ShownOfString DEF JString
<1> QED
  BY <1>2, <1>3, <1>4, <1>5, <1>6

\* JSON that is flat is shown as it was saved.
LEMMA FlatShownAgain ==
  ASSUME NEW text, IsText(text), Flat(text), Unhinted(text[2]) \in Values
  PROVE  SerializeValue(Unhinted(text[2])) = JString(text)
<1> DEFINE j == text[2]
           v == Unhinted(j)
<1>1. text = <<"json", j>> /\ j \in Jsons /\ j[1] \in {"array", "object"}
  BY TextIsPair DEF Flat, IsText, ReadsAsJson
<1>2. /\ j = <<j[1], j[2]>>
      /\ IsFunction(j[2])
      /\ \A k \in DOMAIN j[2] : j[2][k] \in Jsons
  BY <1>1, InsideIsRead DEF IsJson, IsPair
<1>3. v = <<IF j[1] = "array" THEN "array" ELSE "map", ReadInside(j)>>
  BY <1>1, <1>2, ReadArray, ReadObject
<1>4. IsValue(v) /\ v[2] = ReadInside(j)
  BY <1>3, ValueIsPair
<1>5. ASSUME NEW k \in DOMAIN j[2]
      PROVE  ShownInside(v)[k] = j[2][k]
  <2>1. j[2][k] \in Jsons /\ j[2][k][1] \in {"null", "bool", "int", "float", "string"}
    BY <1>2 DEF Flat
  <2>2. v[2][k] = Unhinted(j[2][k]) /\ k \in DOMAIN v[2]
    BY <1>4, <2>1, InsideIsRead DEF ReadInside
  <2>3. v[2][k] \in Values
    BY <1>3, <1>4, <2>2 DEF IsValue
  <2>4. SerializeInner(v[2][k]) = j[2][k]
    BY <2>1, <2>2, <2>3, ScalarShownAgain, ShownIsJson
  <2> QED
    BY <2>2, <2>4 DEF ShownInside
<1>6. ShownInside(v) = j[2]
  <2>1. DOMAIN ShownInside(v) = DOMAIN j[2]
    BY <1>4 DEF ShownInside, ReadInside
  <2> QED
    BY <1>2, <1>5, <2>1 DEF IsFunction, ShownInside
<1>7. SerializeValue(v) = JsonText(<<j[1], j[2]>>)
  BY <1>1, <1>3, <1>6, ShownOfNested
<1> QED
  BY <1>1, <1>2, <1>7 DEF JsonText

\* What is typed is what the cell shows once it is saved.
LEMMA TypedShownAgain ==
  ASSUME NEW j \in Jsons, NEW hint \in Hints, Storable(JsonToProto(j, hint)), ShownAgain(j, hint)
  PROVE  SerializeValue(JsonToProto(j, hint)) = j
<1> DEFINE v == JsonToProto(j, hint)
           text == j[2]
<1>1. v \in Values
  BY SavedIsValue
<1>2. CASE j[1] # "string"
  <2>1. v = Unhinted(j)
    BY <1>2 DEF JsonToProto
  <2>2. j[1] \in {"null", "bool", "int", "float"}
    BY <1>2 DEF ShownAgain
  <2> QED
    BY <1>1, <2>1, <2>2, ScalarShownAgain
<1>3. CASE j[1] = "string"
  <2>1. v = CoerceString(text, hint)
    BY <1>3 DEF JsonToProto
  <2>2. j = JString(text) /\ IsText(text)
    BY <1>3, InsideIsRead DEF IsJson, IsPair, JString
  <2>3. text = <<text[1], text[2]>>
    BY <2>2, TextIsPair
  <2>4. /\ ~(hint = "timestamp" /\ text[1] = "offset")
        /\ ~(hint \in {"array", "map"} /\ ReadsAsJson(text) /\ ~Flat(text))
    BY <1>3 DEF ShownAgain
  <2>5. CASE hint = "timestamp" /\ ReadsAsInstant(text)
    <3>1. v = <<"timestamp", text[2]>> /\ text[1] = "utc"
      BY <2>1, <2>4, <2>5 DEF CoerceString, ReadsAsInstant
    <3>2. v[1] = "timestamp" /\ v[2] = text[2]
      BY <3>1
    <3>3. SerializeValue(v) = JString(<<"utc", text[2]>>)
      BY <1>1, <3>2, ShownOfString
    <3> QED
      BY <2>2, <2>3, <3>1, <3>3
  <2>6. CASE hint = "binary" /\ ReadsAsBytes(text)
    <3>1. v = <<"bytes", text[2]>> /\ text[1] = "base64"
      BY <2>1, <2>6 DEF CoerceString, ReadsAsBytes
    <3>2. v[1] = "bytes" /\ v[2] = text[2]
      BY <3>1
    <3>3. SerializeValue(v) = JString(<<"base64", text[2]>>)
      BY <1>1, <3>2, ShownOfString
    <3> QED
      BY <2>2, <2>3, <3>1, <3>3
  <2>7. CASE hint \in {"array", "map"} /\ ReadsAsJson(text)
    <3>1. v = Unhinted(text[2])
      BY <2>1, <2>7 DEF CoerceString
    <3> QED
      BY <1>1, <2>2, <2>4, <2>7, <3>1, FlatShownAgain
  <2>8. CASE /\ ~(hint = "timestamp" /\ ReadsAsInstant(text))
             /\ ~(hint = "binary" /\ ReadsAsBytes(text))
             /\ ~(hint \in {"array", "map"} /\ ReadsAsJson(text))
    <3>1. v = <<"reference", text>> \/ v = <<"string", text>>
      BY <2>1, <2>8 DEF CoerceString
    <3>2. v[1] \in {"string", "reference"} /\ v[2] = text
      BY <3>1
    <3> QED
      BY <1>1, <2>2, <3>2, ShownOfString
  <2> QED
    BY <2>5, <2>6, <2>7, <2>8
<1> QED
  BY <1>2, <1>3
-----------------------------------------------------------------------------
(* How often a cell that is saved as it stands goes on changing.           *)

LEMMA SurvivesStands ==
  ASSUME NEW v \in Values, Storable(v), NEW hint, Survives(v, hint)
  PROVE  Stands(v, hint)
BY RoundTrip DEF Stands, Saved

\* The field holds a value that Firestore takes in any case.
LEMMA SavedIsStored ==
  ASSUME NEW v \in Values, Storable(v), NEW hint \in Hints
  PROVE  Saved(v, hint) \in Values /\ Storable(Saved(v, hint))
<1>1. SerializeValue(v) \in Jsons
  BY ShownIsJson
<1> QED
  BY <1>1, SavedIsValue DEF Saved, Again

\* Once a cell stands, it stands.
LEMMA StandsOn ==
  ASSUME NEW v, NEW hint, Stands(v, hint)
  PROVE  Stands(Saved(v, hint), hint)
BY DEF Stands

LEMMA NumberSettles ==
  ASSUME NEW v \in Values, Storable(v), v[1] \in {"null", "boolean", "integer", "double"},
         NEW hint \in Hints
  PROVE  Stands(Saved(v, hint), hint)
<1>1. CASE Survives(v, hint)
  BY <1>1, SurvivesStands, StandsOn
<1>2. CASE ~Storable(Again(v, hint))
  BY <1>2 DEF Stands, Saved
<1>3. CASE ~Survives(v, hint) /\ Storable(Again(v, hint))
  <2>1. v[1] = "double" /\ v[2] = "NaN"
    BY <1>3 DEF Survives
  <2>2. Again(v, hint) = ReadBack(v)
    BY <2>1, ShownOfNumber, JNullKind, AgainUnhinted
  <2>3. Saved(v, hint)[1] = "null"
    BY <1>3, <2>1, <2>2, NaNIsNull DEF Saved
  <2>4. Survives(Saved(v, hint), hint)
    BY <2>3 DEF Survives
  <2> QED
    BY <2>4, SavedIsStored, SurvivesStands
<1> QED
  BY <1>1, <1>2, <1>3

LEMMA StringSettles ==
  ASSUME NEW v \in Values, Storable(v), v[1] = "string", NEW hint \in Hints, ~Unfolds(v, hint)
  PROVE  Stands(Saved(v, hint), hint)
<1>1. CASE Survives(v, hint)
  BY <1>1, SurvivesStands, StandsOn
<1>2. CASE ~Storable(Again(v, hint))
  BY <1>2 DEF Stands, Saved
<1>3. CASE ~Survives(v, hint) /\ Storable(Again(v, hint))
  <2>1. Saved(v, hint) = CoerceString(v[2], hint)
    BY <1>3, ShownOfString, AgainText DEF Saved
  <2>2. \/ hint = "timestamp" /\ ReadsAsInstant(v[2])
        \/ hint = "binary" /\ ReadsAsBytes(v[2])
        \/ hint = "reference"
    BY <1>3 DEF Survives, Unfolds
  <2>3. \/ hint = "timestamp" /\ Saved(v, hint)[1] = "timestamp"
        \/ hint = "binary" /\ Saved(v, hint)[1] = "bytes"
        \/ hint = "reference" /\ Saved(v, hint)[1] = "reference"
    BY <2>1, <2>2 DEF CoerceString
  <2>4. Survives(Saved(v, hint), hint)
    BY <2>3 DEF Survives
  <2> QED
    BY <2>4, SavedIsStored, SurvivesStands
<1> QED
  BY <1>1, <1>2, <1>3

\* What is text because the column is of another type stays as it is.
LEMMA TextSurvives ==
  ASSUME NEW v, v[1] = "string", NEW hint,
         \/ v[2][1] = "utc" /\ hint # "timestamp"
         \/ v[2][1] = "base64" /\ hint # "binary"
         \/ v[2][1] = "path" /\ hint # "reference"
         \/ v[2][1] = "json" /\ hint \notin {"array", "map"}
  PROVE  hint # "reference" => Survives(v, hint)
BY DEF Survives, ReadsAsInstant, ReadsAsBytes, ReadsAsJson

LEMMA StampSettles ==
  ASSUME NEW v \in Values, Storable(v), v[1] \in {"timestamp", "bytes", "reference"},
         NEW hint \in Hints
  PROVE  Stands(Saved(v, hint), hint)
<1>1. CASE Survives(v, hint)
  BY <1>1, SurvivesStands, StandsOn
<1>2. CASE ~Storable(Again(v, hint))
  BY <1>2 DEF Stands, Saved
<1>3. CASE ~Survives(v, hint) /\ Storable(Again(v, hint))
  <2> DEFINE text == IF v[1] = "timestamp" THEN <<"utc", v[2]>>
                     ELSE IF v[1] = "bytes" THEN <<"base64", v[2]>> ELSE v[2]
  <2>1. SerializeValue(v) = JString(text)
    BY ShownOfString
  <2>2. \/ v[1] = "timestamp" /\ text[1] = "utc" /\ hint # "timestamp"
        \/ v[1] = "bytes" /\ text[1] = "base64" /\ hint # "binary"
        \/ v[1] = "reference" /\ text[1] = "path" /\ hint # "reference"
    BY <1>3 DEF Survives, Storable
  <2> HIDE DEF text
  <2>3. Saved(v, hint) = CoerceString(text, hint)
    BY <1>3, <2>1, AgainText DEF Saved
  <2>4. Saved(v, hint) = IF hint = "reference" THEN <<"reference", text>> ELSE <<"string", text>>
    BY <2>2, <2>3 DEF CoerceString, ReadsAsInstant, ReadsAsBytes, ReadsAsJson
  <2>5. hint # "reference"
    <3>1. SUFFICES ASSUME hint = "reference" PROVE FALSE
      OBVIOUS
    <3>2. Saved(v, hint)[1] = "reference" /\ Saved(v, hint)[2] = text
      BY <2>4, <3>1
    <3>3. text[1] = "path"
      BY <3>2, SavedIsStored DEF Storable
    <3> QED
      BY <2>2, <3>1, <3>3
  <2>6. Saved(v, hint)[1] = "string" /\ Saved(v, hint)[2] = text
    BY <2>4, <2>5
  <2>7. Survives(Saved(v, hint), hint)
    BY <2>2, <2>5, <2>6, TextSurvives
  <2> QED
    BY <2>7, SavedIsStored, SurvivesStands
<1> QED
  BY <1>1, <1>2, <1>3

LEMMA NestedElsewhereSettles ==
  ASSUME NEW v \in Values, Storable(v), v[1] \in {"array", "map"},
         NEW hint \in Hints, hint \notin {"array", "map"}
  PROVE  Stands(Saved(v, hint), hint)
<1>1. CASE ~Storable(Again(v, hint))
  BY <1>1 DEF Stands, Saved
<1>2. CASE Storable(Again(v, hint))
  <2>1. PICK j : Saved(v, hint) = IF hint = "reference" THEN <<"reference", <<"json", j>>>>
                                  ELSE <<"string", <<"json", j>>>>
    BY <1>2, NestedElsewhere DEF Saved
  <2>2. hint # "reference"
    <3>1. SUFFICES ASSUME hint = "reference" PROVE FALSE
      OBVIOUS
    <3>2. Saved(v, hint)[1] = "reference" /\ Saved(v, hint)[2][1] = "json"
      BY <2>1, <3>1
    <3> QED
      BY <3>2, SavedIsStored DEF Storable
  <2>3. Saved(v, hint)[1] = "string" /\ Saved(v, hint)[2][1] = "json"
    BY <2>1, <2>2
  <2>4. Survives(Saved(v, hint), hint)
    BY <2>2, <2>3, TextSurvives
  <2> QED
    BY <2>4, SavedIsStored, SurvivesStands
<1> QED
  BY <1>1, <1>2

\* In a column of arrays or maps, what is inside is plain after two saves.
LEMMA NestedSettles ==
  ASSUME NEW v \in Values, Storable(v), v[1] \in {"array", "map"}, NEW hint \in Hints,
         hint \in {"array", "map"}
  PROVE  Stands(Saved(Saved(v, hint), hint), hint)
<1> DEFINE v1 == Saved(v, hint)
           v2 == Saved(v1, hint)
<1>1. /\ v1 \in Values /\ Storable(v1)
      /\ v2 \in Values /\ Storable(v2)
  BY SavedIsStored
<1>2. CASE v1 = v \/ v2 = v1
  <2>1. Stands(v1, hint)
    BY <1>2 DEF Stands
  <2> QED
    BY <2>1, StandsOn
<1>3. CASE v1 = Again(v, hint) /\ v2 = Again(v1, hint)
  <2>1. v1 = <<v[1], [k \in DOMAIN v[2] |-> ReadBack(v[2][k])]>>
    BY <1>3, AgainNested
  <2>2. v1[1] = v[1] /\ v1[2] = [k \in DOMAIN v[2] |-> ReadBack(v[2][k])]
    BY <2>1
  <2>3. v2 = <<v1[1], [k \in DOMAIN v1[2] |-> ReadBack(v1[2][k])]>>
    BY <1>1, <1>3, <2>2, AgainNested
  <2>4. v2[1] = v1[1] /\ v2[2] = [k \in DOMAIN v1[2] |-> ReadBack(v1[2][k])]
    BY <2>3
  <2> HIDE DEF v1, v2
  <2>5. ASSUME NEW k \in DOMAIN v2[2]
        PROVE  Plain(v2[2][k])
    <3>1. k \in DOMAIN v1[2] /\ k \in DOMAIN v[2]
      BY <2>2, <2>4
    <3>2. v[2][k] \in Values /\ v1[2][k] \in Values
      BY <1>1, <2>2, <3>1, ValueIsPair DEF IsValue
    <3>3. v1[2][k] = ReadBack(v[2][k]) /\ v2[2][k] = ReadBack(v1[2][k])
      BY <2>2, <2>4, <3>1
    <3>4. CASE Plain(v1[2][k])
      BY <3>2, <3>3, <3>4, PlainStays
    <3>5. CASE v1[2][k][1] = "map"
      BY <3>2, <3>3, <3>5, NestedIsText
    <3> QED
      BY <3>2, <3>3, <3>4, <3>5, ReadBackKind
  <2>6. AllPlain(v2)
    BY <2>5 DEF AllPlain
  <2>7. Survives(v2, hint)
    BY <1>1, <2>2, <2>4, <2>6, PlainSurvives
  <2> QED
    BY <1>1, <2>7, SurvivesStands DEF v2, v1
<1> QED
  BY <1>2, <1>3 DEF Saved

\* A geopoint is a map after one save, and what that comes to after the next.
LEMMA GeopointSettles ==
  ASSUME NEW v \in Values, Storable(v), v[1] = "geopoint", NEW hint \in Hints
  PROVE  Stands(Saved(Saved(v, hint), hint), hint)
<1> DEFINE v1 == Saved(v, hint)
<1>1. v1 \in Values /\ Storable(v1)
  BY SavedIsStored
<1>2. CASE ~Storable(Again(v, hint))
  BY <1>2, StandsOn DEF Stands, Saved
<1>3. CASE Storable(Again(v, hint))
  <2> DEFINE content == [k \in {"lat", "lng"} |-> <<"float", v[2][k]>>]
             j == <<"object", content>>
  <2>1. SerializeValue(v) = j
    BY ShownOfNested
  <2>2. v1 = Unhinted(j)
    BY <1>3, <2>1 DEF Saved, Again, JsonToProto
  <2>3. v1 = <<"map", ReadInside(j)>>
    BY <2>2, ReadObject
  <2>4. v1[1] = "map" /\ v1[2] = ReadInside(j)
    BY <2>3
  <2>5. IsJson(j)
    BY <2>1, ShownIsJson
  <2>6. ASSUME NEW k \in DOMAIN v1[2]
        PROVE  Plain(v1[2][k])
    <3>1. k \in {"lat", "lng"} /\ v1[2][k] = UnhintedInner(<<"float", v[2][k]>>)
      BY <2>4 DEF ReadInside
    <3>2. <<"float", v[2][k]>> \in Jsons
      BY <2>5, <3>1 DEF IsJson
    <3>3. v1[2][k] = <<"double", v[2][k]>>
      BY <3>1, <3>2, InsideIsRead, ReadFloat
    <3>4. v[2][k] # "NaN"
      BY <3>2, InsideIsRead DEF IsJson
    <3> QED
      BY <3>3, <3>4 DEF Plain
  <2> HIDE DEF v1
  <2>7. CASE hint \in {"array", "map"}
    <3>1. Survives(v1, hint)
      BY <1>1, <2>4, <2>6, <2>7, PlainSurvives DEF AllPlain
    <3> QED
      BY <1>1, <3>1, SurvivesStands, StandsOn DEF v1
  <2>8. CASE hint \notin {"array", "map"}
    BY <1>1, <2>4, <2>8, NestedElsewhereSettles DEF v1
  <2> QED
    BY <2>7, <2>8
<1> QED
  BY <1>2, <1>3

\* Two saves are enough where the value is not text that is read as JSON.
LEMMA SettlesInTwo ==
  ASSUME NEW v \in Values, Storable(v), NEW hint \in Hints, ~Unfolds(v, hint)
  PROVE  Stands(Saved(Saved(v, hint), hint), hint)
<1>1. CASE v[1] \in {"null", "boolean", "integer", "double"}
  BY <1>1, NumberSettles, StandsOn
<1>2. CASE v[1] = "string"
  BY <1>2, StringSettles, StandsOn
<1>3. CASE v[1] \in {"timestamp", "bytes", "reference"}
  BY <1>3, StampSettles, StandsOn
<1>4. CASE v[1] = "geopoint"
  BY <1>4, GeopointSettles
<1>5. CASE v[1] \in {"array", "map"}
  BY <1>5, NestedSettles, NestedElsewhereSettles, StandsOn
<1> QED
  BY <1>1, <1>2, <1>3, <1>4, <1>5, ValueIsPair DEF Types
-----------------------------------------------------------------------------
(* Functions with one more value.                                          *)

LEMMA WithOther ==
  ASSUME NEW s, NEW f, NEW v, NEW g \in DOMAIN s, g # f
  PROVE  With(s, f, v)[g] = s[g]
BY DEF With

LEMMA WithSame ==
  ASSUME NEW s, NEW f \in DOMAIN s, IsFunction(s)
  PROVE  With(s, f, s[f]) = s
BY DEF With, IsFunction

LEMMA WithDocument ==
  ASSUME NEW doc, IsDocument(doc), NEW f \in Fields, NEW v \in Values, Storable(v)
  PROVE  IsDocument(With(doc, f, v))
<1> DEFINE written == With(doc, f, v)
<1>1. IsFunction(written) /\ DOMAIN written = DOMAIN doc \cup {f} /\ written[f] = v
  BY DEF With, IsFunction
<1>2. ASSUME NEW g \in DOMAIN doc, g # f
      PROVE  written[g] = doc[g]
  BY <1>2, WithOther
<1> HIDE DEF written
<1>3. IsDocument(written)
  BY <1>1, <1>2 DEF IsDocument
<1> QED
  BY <1>3 DEF written

LEMMA WithStore ==
  ASSUME NEW s, IsStore(s), NEW i \in Docs, NEW doc, IsDocument(doc)
  PROVE  IsStore(With(s, i, doc))
<1> DEFINE written == With(s, i, doc)
<1>1. IsFunction(written) /\ DOMAIN written = DOMAIN s \cup {i} /\ written[i] = doc
  BY DEF With, IsFunction
<1>2. ASSUME NEW k \in DOMAIN s, k # i
      PROVE  written[k] = s[k]
  BY <1>2, WithOther
<1> HIDE DEF written
<1>3. IsStore(written)
  BY <1>1, <1>2 DEF IsStore
<1> QED
  BY <1>3 DEF written
-----------------------------------------------------------------------------
(* The inductive invariant.                                                *)

\* The cell that is being saved over and over.
Kept == store[streak.of.doc][streak.of.field]
KeptHint == Hint(streak.of.field)

\* It is there, stands after the next save, and after two stands already.
StreakSettles ==
  streak.saves # 0 =>
    /\ streak.of \in [doc : Docs, field : Fields]
    /\ streak.of.doc \in DOMAIN store /\ streak.of.field \in DOMAIN store[streak.of.doc]
    /\ Stands(Saved(Kept, KeptHint), KeptHint)
    /\ streak.saves = 2 => Stands(Kept, KeptHint)

Inv == TypeOK /\ StreakSettles

LEMMA HintType ==
  ASSUME TypeOK, NEW f
  PROVE  Hint(f) \in Hints
BY DEF TypeOK, Hint, Hints

LEMMA ScreenType ==
  ASSUME TypeOK, screen # None
  PROVE  /\ screen.doc \in Docs /\ screen.field \in Fields /\ screen.shown \in Jsons
         /\ screen \in [doc : Docs, field : Fields, shown : Jsons]
         /\ OnScreen \in [doc : Docs, field : Fields]
BY DEF TypeOK, OnScreen

LEMMA DocType ==
  ASSUME TypeOK, NEW i
  PROVE  IsDocument(DocOrEmpty(i))
BY DEF TypeOK, IsStore, IsDocument, IsFunction, DocOrEmpty

LEMMA CellType ==
  ASSUME TypeOK, NEW i \in DOMAIN store, NEW f
  PROVE  Cell(store[i], f) \in Jsons
BY JsonsAssumption, ShownIsJson DEF TypeOK, IsStore, IsDocument, Cell

\* A field that is written has a value of Firestore.
LEMMA UpdateType ==
  ASSUME TypeOK, screen # None, NEW j \in Jsons, Update(j)
  PROVE  /\ IsStore(store')
         /\ screen' \in [doc : Docs, field : Fields, shown : Jsons]
<1> DEFINE f == screen.field
           v == JsonToProto(j, Hint(f))
<1>1. CASE Storable(v)
  <2>1. v \in Values
    BY <1>1, HintType, SavedIsValue
  <2>2. IsDocument(Updated(DocOrEmpty(screen.doc), f, v))
    BY <1>1, <2>1, DocType, ScreenType, WithDocument DEF Updated
  <2>3. IsStore(With(store, screen.doc, Updated(DocOrEmpty(screen.doc), f, v)))
    BY <2>2, ScreenType, WithStore DEF TypeOK
  <2> QED
    BY <1>1, <2>3, ScreenType DEF Update
<1>2. CASE ~Storable(v)
  BY <1>2, ScreenType DEF Update, TypeOK
<1> QED
  BY <1>1, <1>2

\* Where nothing that is counted changes, what is counted settles.
LEMMA StreakUnchanged ==
  ASSUME StreakSettles, UNCHANGED <<store, columns, streak>>
  PROVE  StreakSettles'
BY DEF StreakSettles, Kept, KeptHint, Hint

LEMMA StreakForgotten ==
  ASSUME streak' = NoStreak
  PROVE  /\ StreakSettles'
         /\ streak' \in [of : [doc : Docs, field : Fields] \cup {None}, saves : 0..2]
BY DEF StreakSettles, NoStreak

LEMMA InvInit == Init => Inv
<1> SUFFICES ASSUME Init PROVE Inv
  OBVIOUS
<1>1. IsStore(store)
  BY InitialStoresAssumption DEF Init
<1> QED
  BY <1>1, MaxChangesAssumption DEF Init, Inv, TypeOK, StreakSettles, NoStreak

LEMMA LearnStep ==
  ASSUME Inv, Learn
  PROVE  Inv'
<1>1. PICK ids \in SUBSET DOMAIN store :
        columns' = LET c == Apply(InferredFrom(ids), file, Table)
                   IN [f \in DOMAIN c \ {IdColumn} |-> c[f].type]
  BY DEF Learn
<1> DEFINE sample == {TypesOf(store[i]) : i \in ids}
           c == Apply(Infer(sample, {}), file, Table)
<1>2. columns' = [f \in DOMAIN c \ {IdColumn} |-> c[f].type]
  BY <1>1 DEF InferredFrom
<1>3. FieldsOf(sample) \subseteq Fields
  BY DEF FieldsOf, TypesOf, Inv, TypeOK, IsStore, IsDocument
<1>4. /\ file = None \/ IsFile(file)
      /\ file # None /\ Table \in DOMAIN file =>
           DOMAIN file[Table].extra \subseteq Fields \cup {IdColumn}
  BY FilesAssumption DEF Inv, TypeOK
<1>5. ASSUME NEW f \in DOMAIN c
      PROVE  c[f].type \in ColumnTypes
  BY <1>4, AppliedType
<1>6. DOMAIN c \subseteq Fields \cup {IdColumn}
  <2>1. CASE file # None /\ Table \in DOMAIN file
    <3>1. DOMAIN c \subseteq {IdColumn} \cup FieldsOf(sample) \cup DOMAIN file[Table].extra
      BY <2>1, AppliedFieldsOfFile
    <3> QED
      BY <1>3, <1>4, <2>1, <3>1
  <2>2. CASE file # None => Table \notin DOMAIN file
    <3>1. DOMAIN c = {IdColumn} \cup FieldsOf(sample)
      BY <2>2, AppliedFields
    <3> QED
      BY <1>3, <3>1
  <2> QED
    BY <2>1, <2>2
<1> HIDE DEF c
<1>7. DOMAIN columns' \subseteq Fields /\ columns' \in [DOMAIN columns' -> ColumnTypes]
  BY <1>2, <1>5, <1>6
<1>8. StreakSettles' /\ streak' \in [of : [doc : Docs, field : Fields] \cup {None}, saves : 0..2]
  BY StreakForgotten DEF Learn
<1> QED
  BY <1>7, <1>8 DEF Learn, Inv, TypeOK

LEMMA ShowStep ==
  ASSUME Inv, Show
  PROVE  Inv'
<1>1. PICK page \in SUBSET DOMAIN store : \E i \in page, f \in Fields :
        screen' = [doc |-> i, field |-> f,
                   shown |-> IF f \in ShownColumns(page) THEN Cell(store[i], f) ELSE JNull]
  BY DEF Show
<1>0. PICK i \in page, f \in Fields :
        screen' = [doc |-> i, field |-> f,
                   shown |-> IF f \in ShownColumns(page) THEN Cell(store[i], f) ELSE JNull]
  BY <1>1
<1>2. i \in Docs /\ Cell(store[i], f) \in Jsons /\ JNull \in Jsons
  BY CellType, JsonsAssumption DEF Inv, TypeOK, IsStore
<1>3. screen' \in [doc : Docs, field : Fields, shown : Jsons]
  BY <1>0, <1>2
<1>4. StreakSettles'
  BY StreakUnchanged DEF Show, Inv
<1> QED
  BY <1>3, <1>4 DEF Show, Inv, TypeOK

\* What the save of a cell as it stands leaves in its field.
LEMMA SavedCell ==
  ASSUME TypeOK, SaveAsShown, Current
  PROVE  LET i == screen.doc
             f == screen.field
         IN /\ i \in DOMAIN store' /\ f \in DOMAIN store'[i]
            /\ f \in DOMAIN store[i] => store'[i][f] = Saved(store[i][f], Hint(f))
            /\ f \notin DOMAIN store[i] => store'[i][f] = <<"null", "">>
<1> DEFINE i == screen.doc
           f == screen.field
           v == JsonToProto(screen.shown, Hint(f))
<1>1. i \in DOMAIN store /\ screen.shown = Cell(store[i], f) /\ DocOrEmpty(i) = store[i]
  BY DEF Current, DocOrEmpty
<1>2. CASE f \in DOMAIN store[i]
  <2>1. v = Again(store[i][f], Hint(f))
    BY <1>1, <1>2 DEF Cell, Again
  <2>2. CASE Storable(v)
    <3>1. store' = With(store, i, With(store[i], f, v))
      BY <1>1, <2>2 DEF SaveAsShown, Update, Updated
    <3>2. i \in DOMAIN store' /\ store'[i] = With(store[i], f, v)
      BY <3>1 DEF With
    <3>3. f \in DOMAIN store'[i] /\ store'[i][f] = v
      BY <3>2 DEF With
    <3> QED
      BY <1>2, <2>1, <2>2, <3>2, <3>3 DEF Saved
  <2>3. CASE ~Storable(v)
    <3>1. store' = store
      BY <2>3 DEF SaveAsShown, Update
    <3> QED
      BY <1>1, <1>2, <2>1, <2>3, <3>1 DEF Saved
  <2> QED
    BY <2>2, <2>3
<1>3. CASE f \notin DOMAIN store[i]
  <2>1. v = <<"null", "">> /\ v[1] = "null"
    BY <1>1, <1>3, ReadNull, JNullKind DEF Cell, JsonToProto
  <2>2. Storable(v)
    BY <2>1 DEF Storable
  <2>3. store' = With(store, i, With(store[i], f, v))
    BY <1>1, <2>2 DEF SaveAsShown, Update, Updated
  <2>4. i \in DOMAIN store' /\ store'[i] = With(store[i], f, v)
    BY <2>3 DEF With
  <2>5. f \in DOMAIN store'[i] /\ store'[i][f] = v
    BY <2>4 DEF With
  <2> QED
    BY <1>3, <2>1, <2>4, <2>5
<1> QED
  BY <1>2, <1>3
LEMMA SaveAsShownStep ==
  ASSUME Inv, SaveAsShown
  PROVE  Inv'
<1> DEFINE i == screen.doc
           f == screen.field
           hint == Hint(f)
           written == store'[i][f]
<1>1. /\ screen # None /\ Update(screen.shown)
      /\ UNCHANGED <<columns, file, changes>>
  BY DEF SaveAsShown
<1>2. IsStore(store') /\ screen' \in [doc : Docs, field : Fields, shown : Jsons]
  BY <1>1, ScreenType, UpdateType DEF Inv
<1>3. CASE ~Current \/ Unfolding
  <2>1. streak' = NoStreak
    BY <1>3 DEF SaveAsShown
  <2> QED
    BY <1>1, <1>2, <2>1, StreakForgotten DEF Inv, TypeOK
<1>4. CASE Current /\ ~Unfolding
  <2>1. /\ streak'.of = OnScreen
        /\ streak'.saves = IF streak.of # OnScreen THEN 1
                           ELSE IF streak.saves < 2 THEN streak.saves + 1 ELSE 2
        /\ streak' = [of |-> streak'.of, saves |-> streak'.saves]
    BY <1>4 DEF SaveAsShown
  <2>2. /\ streak.saves \in 0..2 /\ streak'.saves \in {1, 2}
        /\ streak'.saves = 2 => streak.of = OnScreen /\ streak.saves \in {1, 2}
    BY <2>1 DEF Inv, TypeOK
  <2>3. OnScreen \in [doc : Docs, field : Fields] /\ OnScreen.doc = i /\ OnScreen.field = f
    BY <1>1, ScreenType DEF Inv, OnScreen
  <2>4. streak' \in [of : [doc : Docs, field : Fields] \cup {None}, saves : 0..2]
    BY <2>1, <2>2, <2>3
  <2>5. /\ i \in DOMAIN store /\ hint \in Hints
        /\ i \in DOMAIN store' /\ f \in DOMAIN store'[i]
        /\ f \in DOMAIN store[i] => written = Saved(store[i][f], hint)
        /\ f \notin DOMAIN store[i] => written = <<"null", "">>
    BY <1>4, SavedCell, HintType DEF Current, Inv
  <2>6. f \in DOMAIN store[i] =>
          store[i][f] \in Values /\ Storable(store[i][f]) /\ ~Unfolds(store[i][f], hint)
    BY <1>4, <2>5 DEF Inv, TypeOK, IsStore, IsDocument, Unfolding
  <2>7. written \in Values /\ Storable(written)
    BY <1>2, <2>5 DEF IsStore, IsDocument
  <2>8. Stands(Saved(written, hint), hint)
    <3>1. CASE f \in DOMAIN store[i]
      BY <2>5, <2>6, <3>1, SettlesInTwo
    <3>2. CASE f \notin DOMAIN store[i]
      <4>1. written = JNull
        BY <2>5, <3>2 DEF JNull
      <4>2. written[1] = "null"
        BY <4>1, JNullKind
      <4>3. Survives(written, hint)
        BY <4>2 DEF Survives
      <4> QED
        BY <2>7, <4>3, SurvivesStands, StandsOn
    <3> QED
      BY <3>1, <3>2
  <2>9. ASSUME streak'.saves = 2
        PROVE  Stands(written, hint)
    <3>1. Kept = store[i][f] /\ KeptHint = hint /\ f \in DOMAIN store[i]
      BY <2>2, <2>3, <2>9 DEF Inv, StreakSettles, Kept, KeptHint
    <3>2. Stands(Saved(store[i][f], hint), hint)
      BY <2>2, <2>9, <3>1 DEF Inv, StreakSettles
    <3> QED
      BY <2>5, <3>1, <3>2
  <2>10. Kept' = written /\ KeptHint' = hint
    BY <1>1, <2>1, <2>3 DEF Kept, KeptHint, Hint
  <2>11. StreakSettles'
    BY <2>1, <2>3, <2>5, <2>8, <2>9, <2>10 DEF StreakSettles
  <2> QED
    BY <1>1, <1>2, <2>4, <2>11 DEF Inv, TypeOK
<1> QED
  BY <1>3, <1>4

LEMMA SaveAnyTypedStep ==
  ASSUME Inv, SaveAnyTyped
  PROVE  Inv'
<1>1. PICK j \in Typed[screen.field] : SaveTyped(j)
  BY DEF SaveAnyTyped
<1>2. screen # None /\ j \in Jsons /\ Update(j)
  BY <1>1, ScreenType, TypedAssumption DEF Inv, SaveTyped
<1>3. IsStore(store') /\ screen' \in [doc : Docs, field : Fields, shown : Jsons]
  BY <1>2, UpdateType DEF Inv
<1>4. changes' \in 0..MaxChanges
  BY <1>1, MaxChangesAssumption DEF SaveTyped, Inv, TypeOK
<1>5. streak' = NoStreak
  BY <1>1 DEF SaveTyped
<1> QED
  BY <1>1, <1>3, <1>4, <1>5, StreakForgotten DEF SaveTyped, Inv, TypeOK

LEMMA InsertStep ==
  ASSUME Inv, NEW i \in Docs, NEW body \in Bodies, Insert(i, body)
  PROVE  Inv'
<1> DEFINE doc == [f \in DOMAIN body |-> JsonToProto(body[f], Hint(f))]
<1>1. DOMAIN body \subseteq Fields /\ \A f \in DOMAIN body : body[f] \in Jsons
  BY TypedAssumption DEF Bodies
<1>2. \A f \in DOMAIN body : Storable(doc[f])
  BY DEF Insert
<1>3. ASSUME NEW f \in DOMAIN body
      PROVE  doc[f] \in Values
  BY <1>1, <1>2, HintType, SavedIsValue DEF Inv
<1>4. IsDocument(doc)
  BY <1>1, <1>2, <1>3 DEF IsDocument, IsFunction
<1>5. store' = With(store, i, doc)
  BY DEF Insert
<1>6. IsStore(store')
  BY <1>4, <1>5, WithStore DEF Inv, TypeOK
<1>7. changes' \in 0..MaxChanges
  BY MaxChangesAssumption DEF Insert, Inv, TypeOK
<1>8. streak' = NoStreak /\ UNCHANGED <<columns, file, screen>>
  BY DEF Insert
<1> QED
  BY <1>6, <1>7, <1>8, StreakForgotten DEF Inv, TypeOK

LEMMA OtherWritesStep ==
  ASSUME Inv, NEW i \in DOMAIN store, NEW f \in Fields, NEW v \in Others[f], OtherWrites(i, f, v)
  PROVE  Inv'
<1>1. IsDocument(With(store[i], f, v)) /\ i \in Docs
  BY OthersAssumption, WithDocument DEF Inv, TypeOK, IsStore
<1>2. IsStore(store')
  BY <1>1, WithStore DEF Inv, TypeOK, OtherWrites
<1>3. changes' \in 0..MaxChanges
  BY MaxChangesAssumption DEF OtherWrites, Inv, TypeOK
<1> QED
  BY <1>2, <1>3, StreakForgotten DEF OtherWrites, Inv, TypeOK

LEMMA OtherDeletesStep ==
  ASSUME Inv, NEW i \in DOMAIN store, OtherDeletes(i)
  PROVE  Inv'
<1>1. IsStore(store')
  BY DEF Inv, TypeOK, IsStore, IsFunction, OtherDeletes, Without
<1>2. changes' \in 0..MaxChanges
  BY MaxChangesAssumption DEF OtherDeletes, Inv, TypeOK
<1> QED
  BY <1>1, <1>2, StreakForgotten DEF OtherDeletes, Inv, TypeOK

LEMMA InvNext == Inv /\ [Next]_vars => Inv'
<1> SUFFICES ASSUME Inv, [Next]_vars PROVE Inv'
  OBVIOUS
<1>1. CASE UNCHANGED vars
  BY <1>1, StreakUnchanged DEF vars, Inv, TypeOK
<1>2. CASE Learn \/ Show
  BY <1>2, LearnStep, ShowStep
<1>3. CASE Edit
  BY <1>3, SaveAsShownStep, SaveAnyTypedStep, InsertStep DEF Edit
<1>4. ASSUME NEW i \in DOMAIN store, OtherDeletes(i)
      PROVE  Inv'
  BY <1>4, OtherDeletesStep
<1>5. ASSUME NEW i \in DOMAIN store, NEW f \in Fields, NEW v \in Others[f], OtherWrites(i, f, v)
      PROVE  Inv'
  BY <1>5, OtherWritesStep
<1> QED
  BY <1>1, <1>2, <1>3, <1>4, <1>5 DEF Next

LEMMA Invariance == Spec => []Inv
<1> QED
  BY InvInit, InvNext, PTL DEF Spec-----------------------------------------------------------------------------
(* What follows.                                                           *)

\* Every value kept is one Firestore takes, and columns have types the metadata
\* handlers report, whatever is typed, learnt and written by others.
THEOREM Typing == Spec => []TypeOK
<1>1. Inv => TypeOK
  BY DEF Inv
<1> QED
  BY <1>1, Invariance, PTL

\* An update reaches one cell, whatever became of the document since it was
\* shown (the mask of crud.rs:149).
LEMMA UpdateReaches ==
  ASSUME NEW j, Update(j), NEW i \in DOMAIN store, NEW g \in DOMAIN store[i],
         i # screen.doc \/ g # screen.field
  PROVE  i \in DOMAIN store' /\ g \in DOMAIN store'[i] /\ store'[i][g] = store[i][g]
<1> DEFINE v == JsonToProto(j, Hint(screen.field))
<1>1. CASE Storable(v)
  <2>1. store' = With(store, screen.doc, With(DocOrEmpty(screen.doc), screen.field, v))
    BY <1>1 DEF Update, Updated
  <2>2. CASE i # screen.doc
    BY <2>1, <2>2 DEF With
  <2>3. CASE i = screen.doc /\ g # screen.field
    <3>1. i \in DOMAIN store' /\ store'[i] = With(store[i], screen.field, v)
      BY <2>1, <2>3 DEF With, DocOrEmpty
    <3> QED
      BY <2>3, <3>1 DEF With
  <2> QED
    BY <2>2, <2>3
<1>2. CASE ~Storable(v)
  BY <1>2 DEF Update
<1> QED
  BY <1>1, <1>2

\* An edit of one cell reaches that cell alone, however far behind the screen is.
THEOREM EditsStayInTheirCell == Spec => OneCellAtATime
<1>1. ASSUME SaveAsShown \/ SaveAnyTyped, NEW i \in DOMAIN store, NEW g \in DOMAIN store[i],
             i # screen.doc \/ g # screen.field
      PROVE  i \in DOMAIN store' /\ g \in DOMAIN store'[i] /\ store'[i][g] = store[i][g]
  BY <1>1, UpdateReaches DEF SaveAsShown, SaveAnyTyped, SaveTyped
<1>2. [Next]_vars =>
        [(SaveAsShown \/ SaveAnyTyped) =>
           \A i \in DOMAIN store : \A g \in DOMAIN store[i] :
             (i # screen.doc \/ g # screen.field) =>
               i \in DOMAIN store' /\ g \in DOMAIN store'[i] /\ store'[i][g] = store[i][g]]_vars
  BY <1>1
<1> QED
  BY <1>2, PTL DEF Spec, OneCellAtATime

\* What a typed update shows.
LEMMA TypedStep ==
  ASSUME TypeOK, screen # None, NEW j \in Jsons, SaveTyped(j),
         Storable(JsonToProto(j, Hint(screen.field))), ShownAgain(j, Hint(screen.field))
  PROVE  Cell(store'[screen.doc], screen.field) = j
<1> DEFINE i == screen.doc
           f == screen.field
           v == JsonToProto(j, Hint(f))
<1>1. store' = With(store, i, With(DocOrEmpty(i), f, v))
  BY DEF SaveTyped, Update, Updated
<1>2. store'[i] = With(DocOrEmpty(i), f, v)
  BY <1>1 DEF With
<1>3. f \in DOMAIN store'[i] /\ store'[i][f] = v
  BY <1>2 DEF With
<1>4. Cell(store'[i], f) = SerializeValue(v)
  BY <1>3 DEF Cell
<1> QED
  BY <1>4, HintType, TypedShownAgain

LEMMA InsertedStep ==
  ASSUME TypeOK, NEW i, NEW body \in Bodies, Insert(i, body), NEW f \in DOMAIN body,
         ShownAgain(body[f], Hint(f))
  PROVE  Cell(store'[i], f) = body[f]
<1> DEFINE doc == [g \in DOMAIN body |-> JsonToProto(body[g], Hint(g))]
           v == JsonToProto(body[f], Hint(f))
<1>1. store' = With(store, i, doc) /\ Storable(doc[f])
  BY DEF Insert
<1>2. store'[i] = doc
  BY <1>1 DEF With
<1>3. Cell(store'[i], f) = SerializeValue(v) /\ Storable(v)
  BY <1>1, <1>2 DEF Cell
<1>4. body[f] \in Jsons
  BY TypedAssumption DEF Bodies
<1> QED
  BY <1>3, <1>4, HintType, TypedShownAgain

TypedIsShown ==
  /\ \A f \in Fields : \A j \in Typed[f] :
       (screen # None /\ screen.field = f /\ SaveTyped(j) /\ Storable(JsonToProto(j, Hint(f)))
          /\ ShownAgain(j, Hint(f))) => Cell(store'[screen.doc], f) = j
  /\ \A i \in DOMAIN store' \ DOMAIN store : \A body \in Bodies :
       Insert(i, body) =>
         \A f \in DOMAIN body : ShownAgain(body[f], Hint(f)) => Cell(store'[i], f) = body[f]

\* What is typed into a cell or a new row is what the grid shows of it, whatever the columns
\* are taken to be, but for instants and JSON spelt in another way.
THEOREM TypedIsShownAgain == Spec => ShowsWhatWasTyped
<1>1. ASSUME TypeOK
      PROVE  TypedIsShown
  <2>1. ASSUME NEW f \in Fields, NEW j \in Typed[f], screen # None, screen.field = f,
               SaveTyped(j), Storable(JsonToProto(j, Hint(f))), ShownAgain(j, Hint(f))
        PROVE  Cell(store'[screen.doc], f) = j
    <3>1. j \in Jsons
      BY TypedAssumption
    <3> QED
      BY <1>1, <2>1, <3>1, TypedStep
  <2>2. ASSUME NEW i \in DOMAIN store' \ DOMAIN store, NEW body \in Bodies, Insert(i, body),
               NEW f \in DOMAIN body, ShownAgain(body[f], Hint(f))
        PROVE  Cell(store'[i], f) = body[f]
    BY <1>1, <2>2, InsertedStep
  <2> QED
    BY <2>1, <2>2 DEF TypedIsShown
<1>2. TypeOK /\ [Next]_vars => [TypedIsShown]_vars
  BY <1>1
<1> QED
  BY <1>2, Typing, PTL DEF Spec, ShowsWhatWasTyped, TypedIsShown

\* The field of a cell that is saved as it stands, and that Firestore takes.
LEMMA StoreAfterSave ==
  ASSUME TypeOK, SaveAsShown, Current, screen.field \in DOMAIN store[screen.doc]
  PROVE  LET held == store[screen.doc][screen.field]
             hint == Hint(screen.field)
         IN /\ held \in Values /\ Storable(held)
            /\ JsonToProto(screen.shown, hint) = Again(held, hint)
            /\ store' = store <=> Saved(held, hint) = held
<1> DEFINE i == screen.doc
           f == screen.field
           held == store[i][f]
           hint == Hint(f)
           v == JsonToProto(screen.shown, hint)
<1>1. i \in DOMAIN store /\ screen.shown = Cell(store[i], f) /\ DocOrEmpty(i) = store[i]
  BY DEF Current, DocOrEmpty
<1>2. held \in Values /\ Storable(held) /\ IsFunction(store) /\ IsFunction(store[i])
  BY <1>1 DEF TypeOK, IsStore, IsDocument
<1>3. v = Again(held, hint)
  BY <1>1 DEF Cell, Again
<1>4. ASSUME Saved(held, hint) = held
      PROVE  store' = store
  <2>1. CASE Storable(v)
    <3>1. v = held
      BY <1>3, <1>4, <2>1 DEF Saved
    <3>2. store' = With(store, i, With(store[i], f, held))
      BY <1>1, <2>1, <3>1 DEF SaveAsShown, Update, Updated
    <3>3. With(store[i], f, held) = store[i]
      BY <1>2, WithSame
    <3>4. With(store, i, store[i]) = store
      BY <1>1, <1>2, WithSame
    <3> QED
      BY <3>2, <3>3, <3>4
  <2>2. CASE ~Storable(v)
    BY <2>2 DEF SaveAsShown, Update
  <2> QED
    BY <2>1, <2>2
<1>5. ASSUME store' = store
      PROVE  Saved(held, hint) = held
  BY <1>5, SavedCell
<1> QED
  BY <1>2, <1>3, <1>4, <1>5

UneditedKept ==
  (screen # None /\ SaveAsShown /\ Current /\ screen.field \in DOMAIN store[screen.doc]
     /\ Storable(JsonToProto(screen.shown, Hint(screen.field))))
  => (store' = store <=> Survives(store[screen.doc][screen.field], Hint(screen.field)))

\* A cell saved as it stands keeps its value exactly if the value survives in a
\* column of that type, whatever is nested in it and however the column got it.
THEOREM UneditedIsKeptIffItSurvives == Spec => UneditedKeptIffSurvives
<1>1. ASSUME TypeOK
      PROVE  UneditedKept
  <2> DEFINE held == store[screen.doc][screen.field]
             hint == Hint(screen.field)
  <2> SUFFICES ASSUME SaveAsShown, Current, screen.field \in DOMAIN store[screen.doc],
                      Storable(JsonToProto(screen.shown, hint))
               PROVE  store' = store <=> Survives(held, hint)
    BY DEF UneditedKept
  <2>1. /\ held \in Values /\ Storable(held)
        /\ JsonToProto(screen.shown, hint) = Again(held, hint)
        /\ store' = store <=> Saved(held, hint) = held
    BY <1>1, StoreAfterSave
  <2>2. Saved(held, hint) = Again(held, hint)
    BY <2>1 DEF Saved
  <2>3. Again(held, hint) = held <=> Survives(held, hint)
    BY <2>1, RoundTrip
  <2> QED
    BY <2>1, <2>2, <2>3
<1>2. TypeOK /\ [Next]_vars => [UneditedKept]_vars
  BY <1>1
<1> QED
  BY <1>2, Typing, PTL DEF Spec, UneditedKeptIffSurvives, UneditedKept

TwiceIsEnough == (screen # None /\ streak.of = OnScreen /\ streak.saves = 2) => Stays

\* But for text within text, two saves of a cell as it stands are enough.
THEOREM SavingSettles == Spec => SavesSettle
<1>1. ASSUME Inv
      PROVE  TwiceIsEnough
  <2> SUFFICES ASSUME screen # None, streak.of = OnScreen, streak.saves = 2, SaveAsShown, Current
               PROVE  store' = store
    BY DEF TwiceIsEnough, Stays
  <2>1. /\ screen.field \in DOMAIN store[screen.doc]
        /\ Stands(store[screen.doc][screen.field], Hint(screen.field))
    BY <1>1 DEF Inv, StreakSettles, Kept, KeptHint, OnScreen
  <2> QED
    BY <1>1, <2>1, StoreAfterSave DEF Inv, Stands
<1>2. Inv /\ [Next]_vars => [TwiceIsEnough]_vars
  BY <1>1
<1> QED
  BY <1>2, Invariance, PTL DEF Spec, SavesSettle, TwiceIsEnough
=============================================================================
