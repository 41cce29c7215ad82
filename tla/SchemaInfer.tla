---------------------------- MODULE SchemaInfer -----------------------------
(***************************************************************************)
(* Columns out of a sample of documents (src/src/schema_infer.rs), and what*)
(* the user's file of overrides makes of them (src/src/schema_overrides.rs)*)
(*                                                                         *)
(* A document is a function from field names to values [type, target], the *)
(* target being the collection a reference points into, None otherwise.    *)
(* A list of columns is a function from names to [type, nullable, target]: *)
(* their order (id, the alphabet, then what the file adds) is layout.      *)
(***************************************************************************)
EXTENDS Naturals, FiniteSets

CONSTANTS
  None,           \* nothing there, nothing said
  NotADirectory,  \* a directory of overrides that is none
  Invalid         \* a file of overrides that is not readable or not valid

IdColumn == "id"

\* What a column can be, and what the user's file may say it is
\* (ALLOWED_TYPES).
ColumnTypes == {"string", "number", "boolean", "timestamp", "binary", "geopoint", "reference",
                "array", "map", "json", "null", "mixed"}
AllowedTypes == ColumnTypes \ {"json"}

Single(s) == CHOOSE x \in s : s = {x}

\* The slip keeps the name of a type seen alone.
ClassifySetRaw(types) ==
  LET seen == types \ {"null"}
  IN IF seen = {} THEN "null" ELSE IF Cardinality(seen) = 1 THEN Single(seen) ELSE "mixed"

\* The type of a column whose field was seen with these types.
ClassifySet(types) ==
  LET seen == types \ {"null"}
  IN CASE seen = {} -> "null"
       [] seen # {} /\ seen \subseteq {"integer", "double"} -> "number"
       [] seen \in {{"array"}, {"map"}} -> "json"
       [] seen = {"bytes"} -> "binary"
       [] seen \in {{t} : t \in {"string", "boolean", "timestamp", "geopoint", "reference"}} ->
            Single(seen)
       [] OTHER -> "mixed"

FieldsOf(sample) == UNION {DOMAIN d : d \in sample}
ValuesOf(sample, f) == {d[f] : d \in {d \in sample : f \in DOMAIN d}}
Targets(sample, f) == {v.target : v \in ValuesOf(sample, f)} \ {None}

IdInfo == [type |-> "string", nullable |-> FALSE, target |-> None]

\* The slip takes a field that every document has for a required one.
InferPresence(sample, refs) ==
  [f \in {IdColumn} \cup FieldsOf(sample) |->
     IF f = IdColumn THEN IdInfo
     ELSE [type |-> ClassifySet({v.type : v \in ValuesOf(sample, f)}),
           nullable |-> \E d \in sample : f \notin DOMAIN d,
           target |-> IF Cardinality(Targets(refs, f)) = 1 THEN Single(Targets(refs, f)) ELSE None]]

\* infer: the document id is a column of its own, and hides a field of its
\* name; every other field is nullable, however often it was seen.
Infer(sample, refs) ==
  [f \in {IdColumn} \cup FieldsOf(sample) |->
     IF f = IdColumn THEN IdInfo
     ELSE [type |-> ClassifySet({v.type : v \in ValuesOf(sample, f)}),
           nullable |-> TRUE,
           target |-> IF Cardinality(Targets(refs, f)) = 1 THEN Single(Targets(refs, f)) ELSE None]]
-----------------------------------------------------------------------------
(* Overrides: for each collection the file names, [fields, extra], two     *)
(* functions from names to [required, type, hidden], None where the file   *)
(* says nothing.                                                           *)

Hidden(c, f) == f \in DOMAIN c.fields /\ c.fields[f].hidden = TRUE

Overridden(column, o) ==
  [column EXCEPT !.nullable = IF o.required = None THEN @ ELSE ~o.required,
                 !.type = IF o.type = None THEN @ ELSE o.type]

Declared(o) ==
  [type |-> IF o.type = None THEN "string" ELSE o.type,
   nullable |-> o.required # TRUE, target |-> None]

\* apply: hidden columns go, the others take what the file says of them, and
\* fields the file adds join unless they are there already.
Apply(columns, overrides, table) ==
  IF overrides = None \/ table \notin DOMAIN overrides THEN columns
  ELSE LET c == overrides[table]
           kept == {f \in DOMAIN columns : ~Hidden(c, f)}
           added == {f \in DOMAIN c.extra \ kept : c.extra[f].hidden # TRUE}
       IN [f \in kept \cup added |->
             IF f \notin kept THEN Declared(c.extra[f])
             ELSE IF f \in DOMAIN c.fields THEN Overridden(columns[f], c.fields[f])
             ELSE columns[f]]

\* A file that load and validate let through.
IsOverride(o) ==
  /\ o.required \in BOOLEAN \cup {None} /\ o.hidden \in BOOLEAN \cup {None}
  /\ o.type \in AllowedTypes \cup {None}
IsFile(file) ==
  \A t \in DOMAIN file : \A fields \in {file[t].fields, file[t].extra} :
    \A f \in DOMAIN fields : IsOverride(fields[f])

\* load: the directory of the settings is not given (None), is no directory, or
\* holds for each database its own file and one for all, each of which may be
\* missing (None), invalid, or good.  A bad file fails the whole; a missing one
\* does not.
FileFor(dir, database) ==
  IF dir.own[database] # None THEN dir.own[database] ELSE dir.fallback

LoadFails(s) ==
  s.dir # None /\ (s.dir = NotADirectory \/ FileFor(s.dir, s.database) = Invalid)

Loaded(s) == IF s.dir = None THEN None ELSE FileFor(s.dir, s.database)
=============================================================================
