-------------------------------- MODULE Cells -------------------------------
(***************************************************************************)
(* What editing in the grid does to the values of documents.  The host has *)
(* a cell on the screen, as execute_query gave it (serialize_row and       *)
(* project_columns, src/src/handlers/query.rs), and saves it by            *)
(* update_record, or a new row by insert_record (handlers/crud.rs), both   *)
(* of which take the columns in SCHEMA_CACHE for hints (coercion.rs).  The *)
(* columns may never have been read, be from a sample without the document,*)
(* come from the user's file, or be outrun by another writer; so may what  *)
(* is on the screen.                                                       *)
(*                                                                         *)
(* It is one collection; that requests fail, and what becomes of counts    *)
(* and cursors, is the business of Plugin.                                 *)
(***************************************************************************)
EXTENDS SchemaInfer, CellValues

CONSTANTS
  Docs, Fields,
  InitialStores,  \* what the collection may hold at first
  Files,          \* overrides that may be in force, None among them
  Others,         \* field -> the values other writers give it
  Typed,          \* field -> the JSON users type into its cells
  Table,
  MaxChanges      \* bound on writes, saves of cells as they stand apart

IsDocument(doc) ==
  /\ IsFunction(doc) /\ DOMAIN doc \subseteq Fields
  /\ \A f \in DOMAIN doc : doc[f] \in Values /\ Storable(doc[f])
IsStore(s) == IsFunction(s) /\ DOMAIN s \subseteq Docs /\ \A i \in DOMAIN s : IsDocument(s[i])
Hints == ColumnTypes \cup {None}

\* What a cell shows of a value is JSON, what is made of that a value again,
\* if Firestore takes it; what is inside is treated as the whole.
ASSUME ValuesAssumption ==
  \A v \in Values :
    /\ IsValue(v)
    /\ SerializeInner(v) = SerializeValue(v) /\ StorableInner(v) = Storable(v)
    /\ SerializeValue(v) \in Jsons
ASSUME JsonsAssumption ==
  /\ JNull \in Jsons
  /\ \A j \in Jsons :
       /\ IsJson(j)
       /\ UnhintedInner(j) = Unhinted(j)
       /\ \A hint \in Hints : Storable(JsonToProto(j, hint)) => JsonToProto(j, hint) \in Values

ASSUME FieldsAssumption == IdColumn \notin Fields
ASSUME InitialStoresAssumption == \A s \in InitialStores : IsStore(s)
ASSUME OthersAssumption == \A f \in Fields : \A v \in Others[f] : v \in Values /\ Storable(v)
ASSUME TypedAssumption == \A f \in Fields : Typed[f] \subseteq Jsons
\* validate (schema_overrides.rs:146-161): a file that loads is well typed.
ASSUME FilesAssumption ==
  \A overrides \in Files :
    \/ overrides = None
    \/ /\ IsFile(overrides)
       /\ \A t \in DOMAIN overrides : DOMAIN overrides[t].extra \subseteq Fields \cup {IdColumn}
ASSUME MaxChangesAssumption == MaxChanges \in Nat

VARIABLES
  store,    \* document id -> field -> value
  columns,  \* SCHEMA_CACHE: field -> type, None before the table is read
  file,     \* SCHEMA_OVERRIDES
  screen,   \* the cell about to be edited: [doc, field, shown], None before
  changes,  \* writes so far, saves of cells as they stand apart
  streak    \* history: [of, saves], the saves running of one cell as it
            \* stands, with nothing else written or learnt between them, and
            \* no text unfolded

vars == <<store, columns, file, screen, changes, streak>>

NoStreak == [of |-> None, saves |-> 0]
OnScreen == [doc |-> screen.doc, field |-> screen.field]

Init ==
  /\ store \in InitialStores
  /\ file \in Files
  /\ columns = None /\ screen = None /\ changes = 0 /\ streak = NoStreak
-----------------------------------------------------------------------------
\* types_from_document and classify_value; Infer and Apply are in SchemaInfer.
TypesOf(doc) == [f \in DOMAIN doc |-> [type |-> doc[f][1], target |-> None]]
InferredFrom(ids) == Infer({TypesOf(store[i]) : i \in ids}, {})

Without(s, f) == [g \in DOMAIN s \ {f} |-> s[g]]
With(s, f, v) == [g \in DOMAIN s \cup {f} |-> IF g = f THEN v ELSE s[g]]

\* get_columns or the snapshot reads a sample, which may miss any documents.
Learn ==
  /\ \E ids \in SUBSET DOMAIN store :
       columns' = LET c == Apply(InferredFrom(ids), file, Table)
                  IN [f \in DOMAIN c \ {IdColumn} |-> c[f].type]
  /\ streak' = NoStreak
  /\ UNCHANGED <<store, file, screen, changes>>

\* column_hint; None is no hint at all.
Hint(f) == IF columns = None \/ f \notin DOMAIN columns THEN None ELSE columns[f]

Cell(doc, f) == IF f \in DOMAIN doc THEN SerializeValue(doc[f]) ELSE JNull

\* The columns a page is shown with: those cached, else those of its documents.
ShownColumns(page) ==
  IF columns = None THEN DOMAIN InferredFrom(page) \ {IdColumn} ELSE DOMAIN columns

\* execute_query shows all columns, or those the text names; one that it names
\* and that is not among them is shown empty.
Show ==
  /\ \E page \in SUBSET DOMAIN store : \E i \in page, f \in Fields :
       screen' = [doc |-> i, field |-> f,
                  shown |-> IF f \in ShownColumns(page) THEN Cell(store[i], f) ELSE JNull]
  /\ UNCHANGED <<store, columns, file, changes, streak>>
-----------------------------------------------------------------------------
\* The screen shows what the document has there now.
Current ==
  screen.doc \in DOMAIN store /\ screen.shown = Cell(store[screen.doc], screen.field)

\* The slip writes the document it builds, which has this field alone.
UpdatedWhole(doc, f, v) == [g \in {f} |-> v]
\* update_doc with the field as its mask; it has no precondition, so that a
\* document that is gone comes back with this field alone.
Updated(doc, f, v) == With(doc, f, v)

DocOrEmpty(i) == IF i \in DOMAIN store THEN store[i] ELSE [g \in {} |-> None]

\* update_record of any field but the id.
Update(j) ==
  LET f == screen.field
      v == JsonToProto(j, Hint(f))
  IN IF Storable(v)
       THEN /\ store' = With(store, screen.doc, Updated(DocOrEmpty(screen.doc), f, v))
            /\ screen' = [screen EXCEPT !.shown = j]
       ELSE UNCHANGED <<store, screen>>

\* A save of the cell reads JSON out of the text that the document has there.
Unfolds(v, hint) == v[1] = "string" /\ hint \in {"array", "map"} /\ ReadsAsJson(v[2])
Unfolding ==
  /\ screen.field \in DOMAIN store[screen.doc]
  /\ Unfolds(store[screen.doc][screen.field], Hint(screen.field))

SaveAsShown ==
  /\ screen # None
  /\ Update(screen.shown)
  /\ streak' = IF ~Current \/ Unfolding THEN NoStreak
               ELSE [of |-> OnScreen,
                     saves |-> IF streak.of # OnScreen THEN 1
                               ELSE IF streak.saves < 2 THEN streak.saves + 1 ELSE 2]
  /\ UNCHANGED <<columns, file, changes>>

SaveTyped(j) ==
  /\ screen # None /\ changes < MaxChanges
  /\ Update(j)
  /\ changes' = changes + 1 /\ streak' = NoStreak
  /\ UNCHANGED <<columns, file>>

SaveAnyTyped == screen # None /\ \E j \in Typed[screen.field] : SaveTyped(j)

\* insert_record: build_proto_fields and coerce_body, field by field.  One
\* field that Firestore does not take refuses the document.
Insert(i, body) ==
  LET doc == [f \in DOMAIN body |-> JsonToProto(body[f], Hint(f))]
  IN /\ i \notin DOMAIN store /\ changes < MaxChanges
     /\ \A f \in DOMAIN doc : Storable(doc[f])
     /\ store' = With(store, i, doc)
     /\ changes' = changes + 1 /\ streak' = NoStreak
     /\ UNCHANGED <<columns, file, screen>>

\* A row the user fills in, some of its fields left out.
AllTyped == UNION {Typed[f] : f \in Fields}
Bodies ==
  {body \in UNION {[fields -> AllTyped] : fields \in SUBSET Fields} :
     \A f \in DOMAIN body : body[f] \in Typed[f]}
-----------------------------------------------------------------------------
OtherWrites(i, f, v) ==
  /\ changes < MaxChanges
  /\ store' = With(store, i, With(store[i], f, v))
  /\ changes' = changes + 1 /\ streak' = NoStreak
  /\ UNCHANGED <<columns, file, screen>>

OtherDeletes(i) ==
  /\ changes < MaxChanges
  /\ store' = Without(store, i)
  /\ changes' = changes + 1 /\ streak' = NoStreak
  /\ UNCHANGED <<columns, file, screen>>

Edit ==
  \/ SaveAsShown \/ SaveAnyTyped
  \/ \E i \in Docs, body \in Bodies : Insert(i, body)

Next ==
  \/ Learn \/ Show \/ Edit
  \/ \E i \in DOMAIN store :
       OtherDeletes(i) \/ \E f \in Fields : \E v \in Others[f] : OtherWrites(i, f, v)

Spec == Init /\ [][Next]_vars
-----------------------------------------------------------------------------
\* Texts that come back as they were from being read as JSON without a hint and
\* written again: of an array or object, as the plugin writes it, of nothing
\* that is an array or object itself.
Flat(text) ==
  /\ text[1] = "json" /\ text[2][1] \in {"array", "object"}
  /\ \A k \in DOMAIN text[2][2] :
       text[2][2][k][1] \in {"null", "bool", "int", "float", "string"}

\* JSON that the grid shows again as it was saved.
ShownAgain(j, hint) ==
  \/ j[1] \in {"null", "bool", "int", "float"}
  \/ /\ j[1] = "string"
     /\ ~(hint = "timestamp" /\ j[2][1] = "offset")
     /\ ~(hint \in {"array", "map"} /\ ReadsAsJson(j[2]) /\ ~Flat(j[2]))

\* The values that a save of the cell as it stands leaves alone, in a column
\* that is taken to be of this type.
Survives(v, hint) ==
  LET shown == SerializeValue(v)
  IN \/ v[1] \in {"null", "boolean", "integer"}
     \/ v[1] = "double" /\ v[2] # "NaN"
     \/ /\ v[1] = "string"
        /\ ~(hint = "timestamp" /\ ReadsAsInstant(v[2]))
        /\ ~(hint = "binary" /\ ReadsAsBytes(v[2]))
        /\ ~(hint \in {"array", "map"} /\ ReadsAsJson(v[2]))
        /\ ~(hint = "reference" /\ v[2][1] = "path")
     \/ v[1] = "timestamp" /\ hint = "timestamp"
     \/ v[1] = "bytes" /\ hint = "binary"
     \/ v[1] = "reference" /\ hint = "reference"
     \/ /\ v[1] \in {"array", "map"} /\ hint \in {"array", "map"} /\ Flat(shown[2])
        /\ \A k \in DOMAIN v[2] :
             v[2][k][1] \in {"null", "boolean", "integer", "double", "string"}
             /\ v[2][k] # <<"double", "NaN">>

\* Every value kept is one Firestore takes, and columns have types the metadata
\* handlers report.
TypeOK ==
  /\ IsStore(store)
  /\ columns = None \/ (DOMAIN columns \subseteq Fields /\ columns \in [DOMAIN columns -> ColumnTypes])
  /\ file \in Files
  /\ screen = None \/ screen \in [doc : Docs, field : Fields, shown : Jsons]
  /\ changes \in 0..MaxChanges
  /\ streak \in [of : [doc : Docs, field : Fields] \cup {None}, saves : 0..2]

\* An edit of one cell reaches that cell alone: what is in other fields and other
\* documents stays, what others wrote there since it was read included
\* (the mask of crud.rs:149).
OneCellAtATime ==
  [][(SaveAsShown \/ SaveAnyTyped) =>
       \A i \in DOMAIN store : \A g \in DOMAIN store[i] :
         (i # screen.doc \/ g # screen.field) =>
           i \in DOMAIN store' /\ g \in DOMAIN store'[i] /\ store'[i][g] = store[i][g]]_vars

\* What is typed into a cell, of a document there is or a new one, is what the grid shows
\* of it afterwards, whatever the columns are taken to be, except for instants
\* and JSON spelt in another way and for nested JSON (coercion.rs:28-71 against
\* query.rs:406-443).
ShowsWhatWasTyped ==
  [][/\ \A f \in Fields : \A j \in Typed[f] :
          (screen # None /\ screen.field = f /\ SaveTyped(j) /\ Storable(JsonToProto(j, Hint(f)))
             /\ ShownAgain(j, Hint(f))) => Cell(store'[screen.doc], f) = j
     /\ \A i \in DOMAIN store' \ DOMAIN store : \A body \in Bodies :
          Insert(i, body) =>
            \A f \in DOMAIN body : ShownAgain(body[f], Hint(f)) => Cell(store'[i], f) = body[f]]_vars

Stays == SaveAsShown /\ Current => store' = store

\* A cell that is saved as it stands keeps its value and its type exactly if
\* the value survives in a column of that type, whichever way the column got it,
\* unless Firestore refuses it (handlers/crud.rs:128-133).
UneditedKeptIffSurvives ==
  [][(screen # None /\ SaveAsShown /\ Current /\ screen.field \in DOMAIN store[screen.doc]
        /\ Storable(JsonToProto(screen.shown, Hint(screen.field))))
       => (store' = store <=> Survives(store[screen.doc][screen.field], Hint(screen.field)))]_vars

\* Saving a cell again and again does not go on changing it: but for text within
\* text, of which each save takes off one layer, two saves are enough, and
\* nothing grows (coercion.rs:64-67).
SavesSettle ==
  [][(screen # None /\ streak.of = OnScreen /\ streak.saves = 2) => Stays]_vars
=============================================================================
