------------------------- MODULE SchemaInferProofs --------------------------
(***************************************************************************)
(* What infer and apply make of samples and files: columns of types that a *)
(* column can have.                                                        *)
(***************************************************************************)
EXTENDS SchemaInfer, TLAPS

\* A type is one a column can have, whatever the sample shows.
LEMMA ClassifyType ==
  ASSUME NEW types
  PROVE  ClassifySet(types) \in ColumnTypes
<1>1. CASE types \ {"null"} \in
             {{t} : t \in {"string", "boolean", "timestamp", "geopoint", "reference"}}
  <2>1. PICK t \in {"string", "boolean", "timestamp", "geopoint", "reference"} :
          types \ {"null"} = {t}
    BY <1>1
  <2>2. Single(types \ {"null"}) = t
    BY <2>1 DEF Single
  <2> QED
    BY <2>1, <2>2 DEF ClassifySet, ColumnTypes
<1>2. CASE types \ {"null"} \notin
             {{t} : t \in {"string", "boolean", "timestamp", "geopoint", "reference"}}
  BY <1>2 DEF ClassifySet, ColumnTypes
<1> QED
  BY <1>1, <1>2

\* The id and the fields seen have types that a column can have.
LEMMA InferredType ==
  ASSUME NEW sample, NEW refs, NEW f \in DOMAIN Infer(sample, refs)
  PROVE  Infer(sample, refs)[f].type \in ColumnTypes
<1>1. f \in {IdColumn} \cup FieldsOf(sample)
  BY DEF Infer
<1>2. CASE f = IdColumn
  BY <1>1, <1>2 DEF Infer, IdInfo, ColumnTypes
<1>3. CASE f # IdColumn
  <2>1. Infer(sample, refs)[f].type = ClassifySet({v.type : v \in ValuesOf(sample, f)})
    BY <1>1, <1>3 DEF Infer
  <2> QED
    BY <2>1, ClassifyType
<1> QED
  BY <1>2, <1>3

\* So have those that the file adds,
LEMMA DeclaredType ==
  ASSUME NEW o, IsOverride(o)
  PROVE  Declared(o).type \in ColumnTypes
BY DEF IsOverride, Declared, ColumnTypes, AllowedTypes

\* and those of which it says something,
LEMMA OverriddenType ==
  ASSUME NEW o, IsOverride(o), NEW column, "type" \in DOMAIN column, column.type \in ColumnTypes
  PROVE  Overridden(column, o).type \in ColumnTypes
BY DEF IsOverride, Overridden, ColumnTypes, AllowedTypes

\* and so have all that apply leaves of what infer saw.
LEMMA AppliedType ==
  ASSUME NEW sample, NEW refs, NEW file, NEW table, file = None \/ IsFile(file),
         NEW f \in DOMAIN Apply(Infer(sample, refs), file, table)
  PROVE  Apply(Infer(sample, refs), file, table)[f].type \in ColumnTypes
<1> DEFINE columns == Infer(sample, refs)
<1>1. CASE file = None \/ table \notin DOMAIN file
  BY <1>1, InferredType DEF Apply
<1>2. CASE file # None /\ table \in DOMAIN file
  <2> DEFINE c == file[table]
             kept == {g \in DOMAIN columns : ~Hidden(c, g)}
             added == {g \in DOMAIN c.extra \ kept : c.extra[g].hidden # TRUE}
  <2>1. /\ f \in kept \cup added
        /\ Apply(columns, file, table)[f] =
             IF f \notin kept THEN Declared(c.extra[f])
             ELSE IF f \in DOMAIN c.fields THEN Overridden(columns[f], c.fields[f])
             ELSE columns[f]
    BY <1>2 DEF Apply
  <2>2. f \in kept => columns[f].type \in ColumnTypes /\ "type" \in DOMAIN columns[f]
    <3>1. SUFFICES ASSUME f \in DOMAIN columns PROVE "type" \in DOMAIN columns[f]
      BY InferredType
    <3> QED
      BY <3>1 DEF Infer, IdInfo
  <2>3. f \in DOMAIN c.fields => IsOverride(c.fields[f])
    BY <1>2 DEF IsFile
  <2>4. f \in DOMAIN c.extra => IsOverride(c.extra[f])
    BY <1>2 DEF IsFile
  <2>5. CASE f \notin kept
    BY <2>1, <2>4, <2>5, DeclaredType
  <2>6. CASE f \in kept /\ f \in DOMAIN c.fields
    BY <2>1, <2>2, <2>3, <2>6, OverriddenType
  <2>7. CASE f \in kept /\ f \notin DOMAIN c.fields
    BY <2>1, <2>2, <2>7
  <2> QED
    BY <2>5, <2>6, <2>7
<1> QED
  BY <1>1, <1>2

\* They are fields of the documents, or the file's, besides the id.
LEMMA AppliedFields ==
  ASSUME NEW sample, NEW refs, NEW file, NEW table, file # None => table \notin DOMAIN file
  PROVE  DOMAIN Apply(Infer(sample, refs), file, table) = {IdColumn} \cup FieldsOf(sample)
BY DEF Apply, Infer
LEMMA AppliedFieldsOfFile ==
  ASSUME NEW sample, NEW refs, NEW file, NEW table, file # None, table \in DOMAIN file
  PROVE  DOMAIN Apply(Infer(sample, refs), file, table)
           \subseteq {IdColumn} \cup FieldsOf(sample) \cup DOMAIN file[table].extra
BY DEF Apply, Infer
=============================================================================
