----------------------------- MODULE SchemaCache ----------------------------
(***************************************************************************)
(* SCHEMA_CACHE of src/src/state.rs and those that fill and read it:       *)
(* initialize and execute_query (handlers/query.rs), get_columns,          *)
(* get_schema_snapshot and get_all_columns_batch (handlers/metadata.rs),   *)
(* insert_record (handlers/crud.rs), the last two as far as they read the  *)
(* cache: what else they do is the business of Plugin.  Requests come one  *)
(* at a time; within one, up to Width samples are under way at once, and   *)
(* others write to the databases between any two of them.                  *)
(*                                                                         *)
(* History: `told` is what the host was last told of a table's columns.    *)
(***************************************************************************)
EXTENDS SchemaInfer, Sequences, SequencesExt

CONSTANTS
  Databases, Tables,
  Documents,      \* the documents that may be written
  InitialStores,  \* what the databases may hold at first
  Setups,         \* the settings a host may send: [database, dir]
  Batches,        \* the lists of tables asked for at once
  Bodies,         \* the documents the host inserts, their empty fields left out
  SampleSize,     \* documents sampled per table (models.rs: at least one)
  Width,          \* samples under way at once (metadata.rs:234, 8)
  Shared,         \* the tables others write to, and the host inserts into
  MaxSize         \* bound on the documents of a table

Keys == Databases \X Tables

ASSUME TablesAssumption == IsFiniteSet(Tables)
ASSUME DocumentsAssumption ==
  \A d \in Documents : \A f \in DOMAIN d : d[f].target \in Tables \cup {None}
ASSUME InitialStoresAssumption == InitialStores \subseteq [Keys -> SUBSET Documents]
\* validate (schema_overrides.rs:146-161): a file that loads is well typed.
ASSUME SetupsAssumption ==
  /\ None \notin Setups
  /\ \A s \in Setups :
       s.database \in Databases /\ (~LoadFails(s) => Loaded(s) = None \/ IsFile(Loaded(s)))
ASSUME BatchesAssumption == Batches \subseteq Seq(Tables)
ASSUME BodiesAssumption == Bodies \subseteq Documents
ASSUME SampleSizeAssumption == SampleSize \in Nat \ {0}
ASSUME WidthAssumption == Width \in Nat \ {0}
ASSUME SharedAssumption == Shared \subseteq Keys
ASSUME MaxSizeAssumption == MaxSize \in Nat

VARIABLES
  store,      \* (database, table) -> its documents
  settings,   \* SETTINGS, None until the first initialize
  overrides,  \* SCHEMA_OVERRIDES: [set, value]
  schema,     \* SCHEMA_CACHE: (database, table) -> columns
  req,        \* the request in hand
  reply,      \* the last answer
  told        \* history

vars == <<store, settings, overrides, schema, req, reply, told>>

NoTables == [t \in {} |-> None]

Idle == [kind |-> "idle"]
Error == [kind |-> "error"]

Answer(r) == reply' = r /\ req' = Idle

Init ==
  /\ store \in InitialStores
  /\ settings = None
  /\ overrides = [set |-> FALSE, value |-> None]
  /\ schema = NoTables
  /\ req = Idle
  /\ reply = None
  /\ told = NoTables
-----------------------------------------------------------------------------
(* initialize.                                                             *)

\* Both cells keep what they were first given.
SetSettings(s) == settings' = IF settings = None THEN s ELSE settings
SetOverrides(o) ==
  overrides' = IF overrides.set THEN overrides ELSE [set |-> TRUE, value |-> o]

\* The slip keeps the settings of an initialize that fails.
InitializeEagerly(s) ==
  /\ req = Idle
  /\ SetSettings(s)
  /\ IF LoadFails(s)
       THEN Answer(Error) /\ UNCHANGED overrides
       ELSE SetOverrides(Loaded(s)) /\ Answer([kind |-> "ok"])
  /\ UNCHANGED <<store, schema, told>>

Initialize(s) ==
  /\ req = Idle
  /\ IF LoadFails(s)
       THEN Answer(Error) /\ UNCHANGED <<settings, overrides>>
       ELSE SetSettings(s) /\ SetOverrides(Loaded(s)) /\ Answer([kind |-> "ok"])
  /\ UNCHANGED <<store, schema, told>>
-----------------------------------------------------------------------------
(* Sampling.                                                               *)

\* Any SampleSize documents of a table, or all; documents that look alike
\* count once here, so there may be fewer.
Samples(docs) ==
  {s \in SUBSET docs : Cardinality(s) <= SampleSize /\ (docs # {} => s # {})}

\* A sample's columns, as the host and the cache are to have them.
ColumnsFrom(sample, t) == Apply(Infer(sample, sample), overrides.value, t)

Cached(k) == k \in DOMAIN schema

\* The cache takes the columns, the host is told them.
Only(k, columns) == [x \in {k} |-> columns]
Learn(f, g) == [k \in DOMAIN f \cup DOMAIN g |-> IF k \in DOMAIN g THEN g[k] ELSE f[k]]
Keyed(db, columns) == [k \in {<<db, t>> : t \in DOMAIN columns} |-> columns[k[2]]]

\* The database a request means.
Meant(db) == IF db = None THEN settings.database ELSE db

\* A parameter is missing, the plugin is not initialised, or there is no client.
Reject ==
  /\ req = Idle
  /\ Answer(Error)
  /\ UNCHANGED <<store, settings, overrides, schema, told>>
-----------------------------------------------------------------------------
(* get_columns.                                                            *)

GetColumns(d, t) ==
  LET k == <<Meant(d), t>>
  IN /\ req = Idle /\ settings # None
     /\ IF Cached(k)
          THEN /\ Answer([kind |-> "columns", database |-> k[1], asked |-> {t}, columns |-> Only(k, schema[k])])
               /\ told' = Learn(told, Only(k, schema[k]))
          ELSE /\ req' = [kind |-> "columns", key |-> k]
               /\ reply' = None
               /\ UNCHANGED told
     /\ UNCHANGED <<store, settings, overrides, schema>>

\* The slip caches the columns as they were inferred.
ColumnsSampledRaw ==
  /\ req.kind = "columns"
  /\ LET k == req.key
     IN \E s \in Samples(store[k]) :
          LET new == Only(k, ColumnsFrom(s, k[2]))
          IN /\ schema' = Learn(schema, Only(k, Infer(s, s)))
             /\ told' = Learn(told, new)
             /\ Answer([kind |-> "columns", database |-> k[1], asked |-> {k[2]}, columns |-> new])
  /\ UNCHANGED <<store, settings, overrides>>

\* The sample comes back, or its call fails and so does the request.
ColumnsSampled ==
  /\ req.kind = "columns"
  /\ LET k == req.key
     IN \/ \E s \in Samples(store[k]) :
             LET new == Only(k, ColumnsFrom(s, k[2]))
             IN /\ schema' = Learn(schema, new)
                /\ told' = Learn(told, new)
                /\ Answer([kind |-> "columns", database |-> k[1], asked |-> {k[2]},
                           columns |-> new])
        \/ Answer(Error) /\ UNCHANGED <<schema, told>>
  /\ UNCHANGED <<store, settings, overrides>>
-----------------------------------------------------------------------------
(* get_schema_snapshot and get_all_columns_batch.                          *)

\* `pending` are the places in the list of tables whose sample is not back yet.
\* The batch samples what it does not find cached, each table as often as it is
\* named.
Fetching(of, db, tables, hits) ==
  [kind |-> "fetch", of |-> of, database |-> db, tables |-> tables,
   pending |-> {i \in DOMAIN tables : tables[i] \notin DOMAIN hits},
   hits |-> hits, fetched |-> NoTables]

\* The snapshot lists the tables that hold documents, and samples them all.
GetSchemaSnapshot(d) ==
  /\ req = Idle /\ settings # None
  /\ req' = [kind |-> "list", database |-> Meant(d)]
  /\ reply' = None
  /\ UNCHANGED <<store, settings, overrides, schema, told>>

TablesListed ==
  /\ req.kind = "list"
  /\ \/ LET tables == {t \in Tables : store[<<req.database, t>>] # {}}
        IN /\ req' = Fetching("snapshot", req.database, SetToSeq(tables), NoTables)
           /\ UNCHANGED reply
     \/ Answer(Error)
  /\ UNCHANGED <<store, settings, overrides, schema, told>>

\* The tables of a list that are cached, with their columns.
Hits(db, tables) == [t \in {t \in ToSet(tables) : Cached(<<db, t>>)} |-> schema[<<db, t>>]]

\* The slip samples all tables again when one is not cached.
GetAllColumnsBatchAgain(d, tables) ==
  LET db == Meant(d)
      hits == Hits(db, tables)
  IN /\ req = Idle /\ settings # None
     /\ req' = Fetching("batch", db, tables, IF DOMAIN hits = ToSet(tables) THEN hits ELSE NoTables)
     /\ reply' = None
     /\ UNCHANGED <<store, settings, overrides, schema, told>>

\* The batch may find all tables cached, or be asked for none.
GetAllColumnsBatch(d, tables) ==
  /\ req = Idle /\ settings # None
  /\ req' = Fetching("batch", Meant(d), tables, Hits(Meant(d), tables))
  /\ reply' = None
  /\ UNCHANGED <<store, settings, overrides, schema, told>>

\* The slip waits until Width samples are under way.
InFlightFull == {i \in req.pending : Cardinality(req.pending) >= Width}

\* buffer_unordered: the Width first samples not back yet are under way and
\* come back in any order.
InFlight == {i \in req.pending : Cardinality({j \in req.pending : j < i}) < Width}

\* The slip drops the tables whose sample failed.
TableSampledOrDropped ==
  /\ req.kind = "fetch"
  /\ \E i \in InFlight :
       LET t == req.tables[i]
           rest == req.pending \ {i}
       IN \/ req' = [req EXCEPT !.pending = rest]
          \/ \E s \in Samples(store[<<req.database, t>>]) :
               req' = [req EXCEPT !.pending = rest,
                                  !.fetched = Learn(req.fetched, Only(t, ColumnsFrom(s, t)))]
  /\ UNCHANGED <<store, settings, overrides, schema, reply, told>>

\* A sample whose call failed counts as one of an empty collection
\* (unwrap_or_default).
TableSampled ==
  /\ req.kind = "fetch"
  /\ \E i \in InFlight :
       LET t == req.tables[i]
       IN \E s \in Samples(store[<<req.database, t>>]) \cup {{}} :
            req' = [req EXCEPT !.pending = @ \ {i},
                               !.fetched = Learn(@, Only(t, ColumnsFrom(s, t)))]
  /\ UNCHANGED <<store, settings, overrides, schema, reply, told>>

\* All are back: the cache takes what was fetched, the host is told that and
\* what was cached before.
TablesAnswered ==
  /\ req.kind = "fetch" /\ req.pending = {}
  /\ LET new == Keyed(req.database, req.fetched)
         all == Learn(Keyed(req.database, req.hits), new)
     IN /\ schema' = Learn(schema, new)
        /\ told' = Learn(told, all)
        /\ Answer([kind |-> "columns", database |-> req.database,
                   asked |-> ToSet(req.tables), columns |-> all])
  /\ UNCHANGED <<store, settings, overrides>>
-----------------------------------------------------------------------------
(* Readers of the cache.                                                   *)

\* The columns a page of rows is shown with: the cached ones, or, when there
\* are none, those of the page itself, without overrides and references.
ColumnsOfPage(k, page) == IF Cached(k) THEN schema[k] ELSE Infer(page, {})

ExecuteQuery(d, t) ==
  LET k == <<Meant(d), t>>
  IN /\ req = Idle /\ settings # None
     /\ \E page \in SUBSET store[k] :
          reply' = [kind |-> "rows", key |-> k, columns |-> ColumnsOfPage(k, page)]
     /\ UNCHANGED <<store, settings, overrides, schema, req, told>>

\* What an insert lacks; nothing, when the table's columns are not cached.
RequiredMissing(k, body) ==
  IF ~Cached(k) THEN {}
  ELSE {f \in DOMAIN schema[k] \ {IdColumn} : ~schema[k][f].nullable /\ f \notin DOMAIN body}

InsertRecord(d, t, body) ==
  LET k == <<Meant(d), t>>
      missing == RequiredMissing(k, body)
  IN /\ req = Idle /\ settings # None /\ k \in Shared
     /\ IF missing # {}
          THEN /\ reply' = [kind |-> "refused", key |-> k, missing |-> missing, body |-> body]
               /\ UNCHANGED store
          ELSE /\ Cardinality(store[k] \cup {body}) <= MaxSize
               /\ reply' = [kind |-> "ok"]
               /\ store' = [store EXCEPT ![k] = @ \cup {body}]
     /\ UNCHANGED <<settings, overrides, schema, req, told>>

\* Another client writes to a table.
ForeignWrite(k) ==
  /\ \E docs \in SUBSET Documents :
       /\ docs # store[k] /\ Cardinality(docs) <= MaxSize
       /\ store' = [store EXCEPT ![k] = docs]
  /\ UNCHANGED <<settings, overrides, schema, req, reply, told>>
-----------------------------------------------------------------------------
Step == ColumnsSampled \/ TablesListed \/ TableSampled \/ TablesAnswered

Next ==
  \/ Reject
  \/ \E s \in Setups : Initialize(s)
  \/ \E d \in Databases \cup {None} :
       \/ GetSchemaSnapshot(d)
       \/ \E tables \in Batches : GetAllColumnsBatch(d, tables)
       \/ \E t \in Tables :
            \/ GetColumns(d, t) \/ ExecuteQuery(d, t)
            \/ \E body \in Bodies : InsertRecord(d, t, body)
  \/ Step
  \/ \E k \in Shared : ForeignWrite(k)

\* Handlers are awaited to their end and calls end; nothing else must happen.
Spec == Init /\ [][Next]_vars /\ WF_vars(Step)
-----------------------------------------------------------------------------
ColumnInfo == [type : ColumnTypes, nullable : BOOLEAN, target : Tables \cup {None}]
IsColumns(columns) == columns \in [DOMAIN columns -> ColumnInfo]

\* The types of the shared state and of the request in hand.
TypeOK ==
  /\ store \in [Keys -> SUBSET Documents]
  /\ settings \in Setups \cup {None}
  /\ overrides.set \in BOOLEAN /\ (overrides.value = None \/ IsFile(overrides.value))
  /\ DOMAIN schema \subseteq Keys /\ \A k \in DOMAIN schema : IsColumns(schema[k])
  /\ req.kind \in {"idle", "columns", "list", "fetch"}
  /\ req.kind = "fetch" =>
       /\ req.tables \in Seq(Tables) /\ req.pending \subseteq DOMAIN req.tables
       /\ \A t \in DOMAIN req.fetched : IsColumns(req.fetched[t])
-----------------------------------------------------------------------------
(* The two cells of initialize, and the columns.                           *)

\* The overrides in force are those of the settings in force: both cells are
\* set by one initialize or by none, however many fail before it and come after
\* (query.rs:11-25).
OverridesBelongToSettings ==
  IF settings = None
    THEN ~overrides.set
    ELSE ~LoadFails(settings) /\ overrides = [set |-> TRUE, value |-> Loaded(settings)]

\* Rows are shown under the columns the host was last told, whichever request
\* told it and however often the table changed since (query.rs:311-326,
\* metadata.rs:145, 237-249, 357-368).
RowsMatchTold ==
  (reply # None /\ reply.kind = "rows" /\ reply.key \in DOMAIN told)
    => reply.columns = told[reply.key]

\* An insert is refused only for fields that the user's file declares required
\* and the document lacks: what the sample happened to show never blocks one
\* (schema_infer.rs:121-126, crud.rs:321-355).
RequiredByFile(t, f) ==
  /\ overrides.value # None /\ t \in DOMAIN overrides.value
  /\ \E o \in {overrides.value[t].fields, overrides.value[t].extra} :
       f \in DOMAIN o /\ o[f].required = TRUE

RefusedOnlyForDeclared ==
  (reply # None /\ reply.kind = "refused") =>
    \A f \in reply.missing : RequiredByFile(reply.key[2], f) /\ f \notin DOMAIN reply.body

\* An answer covers every table asked for, whether it was cached, sampled,
\* named twice, or its sample failed, in whatever order the samples came back.
EveryTableReported ==
  (reply # None /\ reply.kind = "columns") =>
    DOMAIN reply.columns = {<<reply.database, t>> : t \in reply.asked}

\* What is cached stays and stays the same until a snapshot samples it again: a
\* batch leaves the tables alone that it finds cached.
CachedUntilSnapshot ==
  [][\A k \in DOMAIN schema :
       k \in DOMAIN schema' /\ (schema'[k] # schema[k] => req.kind = "fetch" /\ req.of = "snapshot")
    ]_vars

\* Every request is answered: the samples of a snapshot or a batch all come
\* back, however many there are.
EveryRequestAnswered == req # Idle ~> req = Idle
=============================================================================
