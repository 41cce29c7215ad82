------------------------- MODULE SchemaCacheProofs --------------------------
(***************************************************************************)
(* The safety properties of SchemaCache, proved for every value of its     *)
(* constants.                                                              *)
(***************************************************************************)
EXTENDS SchemaCache, SchemaInferProofs, FiniteSetTheorems, TLAPS

-----------------------------------------------------------------------------
(* Lemmas about columns.                                                   *)

\* References of sampled documents point into tables, and one target alone is a
\* table.
LEMMA TargetType ==
  ASSUME NEW sample \in SUBSET Documents, NEW f, Cardinality(Targets(sample, f)) = 1
  PROVE  Single(Targets(sample, f)) \in Tables
<1> DEFINE targets == Targets(sample, f)
<1>1. targets \subseteq Tables
  BY DocumentsAssumption DEF Targets, ValuesOf
<1>2. IsFiniteSet(targets)
  BY <1>1, TablesAssumption, FS_Subset
<1>3. \E x : targets = {x}
  BY <1>2, FS_Singleton
<1>4. PICK x : targets = {x}
  BY <1>3
<1> QED
  BY <1>1, <1>4 DEF Single

\* What a sample shows is a list of columns in which only the id is required.
LEMMA InferType ==
  ASSUME NEW sample \in SUBSET Documents, NEW refs \in SUBSET Documents
  PROVE  /\ IsColumns(Infer(sample, refs))
         /\ \A f \in DOMAIN Infer(sample, refs) \ {IdColumn} : Infer(sample, refs)[f].nullable
<1>1. ASSUME NEW f \in {IdColumn} \cup FieldsOf(sample)
      PROVE  Infer(sample, refs)[f] \in ColumnInfo
  <2>1. CASE f = IdColumn
    BY <2>1 DEF Infer, IdInfo, ColumnInfo, ColumnTypes
  <2>2. CASE f # IdColumn
    <3>1. ClassifySet({v.type : v \in ValuesOf(sample, f)}) \in ColumnTypes
      BY ClassifyType
    <3>2. (IF Cardinality(Targets(refs, f)) = 1 THEN Single(Targets(refs, f)) ELSE None)
            \in Tables \cup {None}
      BY TargetType
    <3> QED
      BY <2>2, <3>1, <3>2 DEF Infer, ColumnInfo
  <2> QED
    BY <2>1, <2>2
<1>2. Infer(sample, refs) \in [{IdColumn} \cup FieldsOf(sample) -> ColumnInfo]
  BY <1>1 DEF Infer
<1>3. \A f \in DOMAIN Infer(sample, refs) \ {IdColumn} : Infer(sample, refs)[f].nullable
  BY DEF Infer
<1> QED
  BY <1>2, <1>3 DEF IsColumns

\* Beyond the id, only what the file in force declares is required.
RequiredAreDeclared(columns, t) ==
  \A f \in DOMAIN columns \ {IdColumn} : ~columns[f].nullable => RequiredByFile(t, f)

\* The file makes well-typed columns of well-typed ones, and only it makes one
\* required.
LEMMA ApplyType ==
  ASSUME NEW columns, IsColumns(columns), NEW t,
         \A f \in DOMAIN columns \ {IdColumn} : columns[f].nullable,
         overrides.value = None \/ IsFile(overrides.value)
  PROVE  /\ IsColumns(Apply(columns, overrides.value, t))
         /\ RequiredAreDeclared(Apply(columns, overrides.value, t), t)
<1> DEFINE file == overrides.value
           applied == Apply(columns, file, t)
<1>1. CASE file = None \/ t \notin DOMAIN file
  BY <1>1 DEF Apply, RequiredAreDeclared
<1>2. CASE file # None /\ t \in DOMAIN file
  <2> DEFINE c == file[t]
             kept == {f \in DOMAIN columns : ~Hidden(c, f)}
             added == {f \in DOMAIN c.extra \ kept : c.extra[f].hidden # TRUE}
  <2>1. applied = [f \in kept \cup added |->
                     IF f \notin kept THEN Declared(c.extra[f])
                     ELSE IF f \in DOMAIN c.fields THEN Overridden(columns[f], c.fields[f])
                     ELSE columns[f]]
    BY <1>2 DEF Apply
  <2>2. \A f \in DOMAIN c.fields : IsOverride(c.fields[f])
    BY <1>2 DEF IsFile
  <2>3. \A f \in DOMAIN c.extra : IsOverride(c.extra[f])
    BY <1>2 DEF IsFile
  <2> HIDE DEF c
  <2>4. ASSUME NEW f \in kept \cup added
        PROVE  /\ applied[f] \in ColumnInfo
               /\ f # IdColumn /\ ~applied[f].nullable => RequiredByFile(t, f)
    <3>1. CASE f \notin kept
      <4>1. applied[f] = Declared(c.extra[f]) /\ f \in DOMAIN c.extra
        BY <2>1, <3>1
      <4>2. IsOverride(c.extra[f])
        BY <2>3, <4>1
      <4>3. Declared(c.extra[f]) \in ColumnInfo
        BY <4>2 DEF Declared, IsOverride, ColumnInfo, ColumnTypes, AllowedTypes
      <4>4. ~Declared(c.extra[f]).nullable => c.extra[f].required = TRUE
        BY DEF Declared
      <4> QED
        BY <1>2, <4>1, <4>3, <4>4 DEF RequiredByFile, c
    <3>2. CASE f \in kept /\ f \in DOMAIN c.fields
      <4> DEFINE o == c.fields[f]
      <4>1. applied[f] = Overridden(columns[f], o)
        BY <2>1, <3>2
      <4>2. IsOverride(o) /\ columns[f] \in ColumnInfo
        BY <2>2, <3>2 DEF IsColumns
      <4>3. Overridden(columns[f], o) \in ColumnInfo
        BY <4>2 DEF Overridden, IsOverride, ColumnInfo, ColumnTypes, AllowedTypes
      <4>4. ~Overridden(columns[f], o).nullable /\ columns[f].nullable => o.required = TRUE
        BY <4>2 DEF Overridden, IsOverride, ColumnInfo
      <4> QED
        BY <1>2, <3>2, <4>1, <4>3, <4>4 DEF RequiredByFile, c
    <3>3. CASE f \in kept /\ f \notin DOMAIN c.fields
      BY <2>1, <3>3 DEF IsColumns
    <3> QED
      BY <3>1, <3>2, <3>3
  <2>5. DOMAIN applied = kept \cup added /\ applied = [f \in DOMAIN applied |-> applied[f]]
    BY <2>1
  <2> QED
    BY <2>4, <2>5 DEF IsColumns, RequiredAreDeclared
<1> QED
  BY <1>1, <1>2

\* What the cache and the host are given of a sample.
LEMMA ColumnsFromType ==
  ASSUME NEW sample \in SUBSET Documents, NEW t,
         overrides.value = None \/ IsFile(overrides.value)
  PROVE  IsColumns(ColumnsFrom(sample, t)) /\ RequiredAreDeclared(ColumnsFrom(sample, t), t)
BY InferType, ApplyType DEF ColumnsFrom
-----------------------------------------------------------------------------
(* Lemmas about the cache.                                                 *)

\* Learning adds to what is known and replaces what is told again.
LEMMA LearnDomain ==
  ASSUME NEW f, NEW g
  PROVE  DOMAIN Learn(f, g) = DOMAIN f \cup DOMAIN g
BY DEF Learn

LEMMA LearnNew ==
  ASSUME NEW f, NEW g, NEW x \in DOMAIN g
  PROVE  Learn(f, g)[x] = g[x]
BY DEF Learn

LEMMA LearnOld ==
  ASSUME NEW f, NEW g, NEW x \in DOMAIN f, x \notin DOMAIN g
  PROVE  Learn(f, g)[x] = f[x]
BY DEF Learn

LEMMA OnlyDomain ==
  ASSUME NEW x, NEW columns
  PROVE  DOMAIN Only(x, columns) = {x}
BY DEF Only

LEMMA OnlyValue ==
  ASSUME NEW x, NEW columns
  PROVE  Only(x, columns)[x] = columns
BY DEF Only

LEMMA KeyedDomain ==
  ASSUME NEW db, NEW columns
  PROVE  DOMAIN Keyed(db, columns) = {<<db, t>> : t \in DOMAIN columns}
BY DEF Keyed

LEMMA KeyedValue ==
  ASSUME NEW db, NEW columns, NEW t \in DOMAIN columns
  PROVE  Keyed(db, columns)[<<db, t>>] = columns[t]
BY DEF Keyed

\* A finite set put into a sequence.
LEMMA SetToSeqType ==
  ASSUME NEW T, NEW S \in SUBSET T, IsFiniteSet(S)
  PROVE  SetToSeq(S) \in Seq(T)
<1>1. PICK n \in Nat : ExistsBijection(1..n, S)
  BY FS_NatBijection
<1>2. Cardinality(S) = n
  BY <1>1, FS_CountingElements
<1>3. \E f \in [1..Cardinality(S) -> S] : IsInjective(f)
  BY <1>1, <1>2 DEF ExistsBijection, Bijection, Injection, IsInjective
<1>4. SetToSeq(S) \in [1..Cardinality(S) -> S]
  BY <1>3 DEF SetToSeq
<1>5. SetToSeq(S) \in [1..n -> T]
  BY <1>2, <1>4
<1> QED
  BY <1>1, <1>5
-----------------------------------------------------------------------------
(* The inductive invariant.                                                *)

\* Before the first initialize nothing is known and nothing is under way.
NothingBeforeInitialize ==
  settings = None =>
    /\ overrides = [set |-> FALSE, value |-> None]
    /\ DOMAIN schema = {} /\ DOMAIN told = {} /\ req = Idle

\* The host was told what is cached, and the cache requires what is declared.
CacheAsTold ==
  /\ \A k \in DOMAIN told : Cached(k) /\ told[k] = schema[k]
  /\ \A k \in DOMAIN schema : RequiredAreDeclared(schema[k], k[2])

\* get_columns samples a table that is not cached.
ColumnsRequest ==
  req.kind = "columns" => req.key \in Keys /\ ~Cached(req.key)

FetchType ==
  /\ req = [kind |-> "fetch", of |-> req.of, database |-> req.database, tables |-> req.tables,
            pending |-> req.pending, hits |-> req.hits, fetched |-> req.fetched]
  /\ req.of \in {"snapshot", "batch"} /\ req.database \in Databases
  /\ req.tables \in Seq(Tables) /\ req.pending \subseteq DOMAIN req.tables

\* Every table is cached, fetched, or still to come; a batch fetches only what
\* is not cached.
FetchRequest ==
  /\ FetchType
  /\ DOMAIN req.hits \subseteq ToSet(req.tables)
  /\ DOMAIN req.fetched \subseteq ToSet(req.tables)
  /\ \A i \in DOMAIN req.tables \ req.pending :
       req.tables[i] \in DOMAIN req.hits \cup DOMAIN req.fetched
  /\ \A t \in DOMAIN req.hits :
       Cached(<<req.database, t>>) /\ req.hits[t] = schema[<<req.database, t>>]
  /\ \A t \in DOMAIN req.fetched :
       IsColumns(req.fetched[t]) /\ RequiredAreDeclared(req.fetched[t], t)
  /\ req.of = "batch" =>
       /\ \A t \in DOMAIN req.fetched : ~Cached(<<req.database, t>>)
       /\ \A i \in req.pending : ~Cached(<<req.database, req.tables[i]>>)

Requests ==
  /\ ColumnsRequest
  /\ req.kind = "list" => req.database \in Databases
  /\ req.kind = "fetch" => FetchRequest

Inv ==
  /\ TypeOK /\ OverridesBelongToSettings /\ NothingBeforeInitialize
  /\ CacheAsTold /\ Requests
  /\ RowsMatchTold /\ RefusedOnlyForDeclared /\ EveryTableReported
-----------------------------------------------------------------------------
(* What several actions share.                                             *)

SafeReply == RowsMatchTold /\ RefusedOnlyForDeclared /\ EveryTableReported

LEMMA SameCache ==
  ASSUME CacheAsTold, UNCHANGED <<overrides, schema, told>>
  PROVE  CacheAsTold'
BY DEF CacheAsTold, Cached, RequiredAreDeclared, RequiredByFile

LEMMA SameSettings ==
  ASSUME OverridesBelongToSettings, UNCHANGED <<settings, overrides>>
  PROVE  OverridesBelongToSettings'
BY DEF OverridesBelongToSettings

LEMMA SameReply ==
  ASSUME SafeReply, UNCHANGED <<overrides, reply, told>>
  PROVE  SafeReply'
BY DEF SafeReply, RowsMatchTold, RefusedOnlyForDeclared, EveryTableReported, RequiredByFile

\* An answer without columns is safe.
LEMMA PlainReply ==
  ASSUME reply' = None \/ reply'.kind \in {"ok", "error"}
  PROVE  SafeReply'
BY DEF SafeReply, RowsMatchTold, RefusedOnlyForDeclared, EveryTableReported

\* An answer with columns is safe when it covers the tables asked for.
LEMMA ColumnsReply ==
  ASSUME NEW db, NEW asked, NEW columns,
         reply' = [kind |-> "columns", database |-> db, asked |-> asked, columns |-> columns],
         DOMAIN columns = {<<db, t>> : t \in asked}
  PROVE  SafeReply'
BY DEF SafeReply, RowsMatchTold, RefusedOnlyForDeclared, EveryTableReported

LEMMA NoRequest ==
  ASSUME req' = Idle
  PROVE  Requests' /\ req'.kind = "idle"
BY DEF Requests, ColumnsRequest, Idle

\* A request in hand or accepted comes after an initialize.
LEMMA Initialized ==
  ASSUME NothingBeforeInitialize, req # Idle \/ settings # None, UNCHANGED settings
  PROVE  settings # None /\ NothingBeforeInitialize'
BY DEF NothingBeforeInitialize

LEMMA MeantType ==
  ASSUME TypeOK, settings # None, NEW d \in Databases \cup {None}
  PROVE  Meant(d) \in Databases
BY SetupsAssumption DEF TypeOK, Meant

\* The overrides of settings that were accepted, or of none, are well typed.
LEMMA FileType ==
  ASSUME NEW s \in Setups \cup {None}, NEW o,
         IF s = None THEN o = [set |-> FALSE, value |-> None]
         ELSE ~LoadFails(s) /\ o = [set |-> TRUE, value |-> Loaded(s)]
  PROVE  o.set \in BOOLEAN /\ (o.value = None \/ IsFile(o.value))
<1>1. CASE s = None
  <2>1. o = [set |-> FALSE, value |-> None]
    BY <1>1
  <2>2. o.set = FALSE /\ o.value = None
    BY <2>1
  <2> QED
    BY <2>2
<1>2. CASE s # None
  <2>1. s \in Setups /\ ~LoadFails(s) /\ o = [set |-> TRUE, value |-> Loaded(s)]
    BY <1>2
  <2>2. Loaded(s) = None \/ IsFile(Loaded(s))
    BY <2>1, SetupsAssumption
  <2>3. o.set = TRUE /\ o.value = Loaded(s)
    BY <2>1
  <2>4. o.value = None \/ IsFile(o.value)
    BY <2>2, <2>3, Zenon
  <2> QED
    BY <2>3, <2>4
<1> QED
  BY <1>1, <1>2

\* What a request in hand is made of is what TypeOK asks of it.
LEMMA TypeFromParts ==
  ASSUME store' \in [Keys -> SUBSET Documents], settings' \in Setups \cup {None},
         OverridesBelongToSettings', NothingBeforeInitialize',
         DOMAIN schema' \subseteq Keys, \A k \in DOMAIN schema' : IsColumns(schema'[k]),
         Requests', req'.kind \in {"idle", "columns", "list", "fetch"}
  PROVE  TypeOK'
<1>1. overrides'.set \in BOOLEAN /\ (overrides'.value = None \/ IsFile(overrides'.value))
  <2>1. IF settings' = None THEN overrides' = [set |-> FALSE, value |-> None]
        ELSE ~LoadFails(settings') /\ overrides' = [set |-> TRUE, value |-> Loaded(settings')]
    BY DEF NothingBeforeInitialize, OverridesBelongToSettings
  <2> QED
    BY <2>1, FileType
<1>2. req'.kind = "fetch" =>
        /\ req'.tables \in Seq(Tables) /\ req'.pending \subseteq DOMAIN req'.tables
        /\ \A t \in DOMAIN req'.fetched : IsColumns(req'.fetched[t])
  BY DEF Requests, FetchRequest, FetchType, IsColumns
<1> QED
  BY <1>1, <1>2 DEF TypeOK, IsColumns

\* A request that samples tables, as it starts.
LEMMA NewFetch ==
  ASSUME NEW of \in {"snapshot", "batch"}, NEW db \in Databases, NEW tables \in Seq(Tables),
         NEW hits, req' = Fetching(of, db, tables, hits), UNCHANGED schema,
         DOMAIN hits \subseteq ToSet(tables),
         \A t \in DOMAIN hits : Cached(<<db, t>>) /\ hits[t] = schema[<<db, t>>],
         of = "batch" =>
           \A i \in DOMAIN tables : tables[i] \notin DOMAIN hits => ~Cached(<<db, tables[i]>>)
  PROVE  Requests' /\ req'.kind = "fetch"
<1>1. FetchType'
  BY DEF FetchType, Fetching
<1>2. DOMAIN req'.fetched = {}
  BY DEF Fetching, NoTables
<1>3. FetchRequest'
  BY <1>1, <1>2 DEF FetchRequest, Fetching, Cached
<1> QED
  BY <1>3 DEF Requests, ColumnsRequest, Fetching
\* The cache learns `new` and the host is told `all`: what is new, and what was
\* cached of the rest.
LEMMA CacheLearns ==
  ASSUME CacheAsTold, UNCHANGED overrides, NEW new, NEW all,
         schema' = Learn(schema, new), told' = Learn(told, all),
         DOMAIN new \subseteq DOMAIN all,
         \A k \in DOMAIN new : RequiredAreDeclared(new[k], k[2]),
         \A k \in DOMAIN all :
           all[k] = IF k \in DOMAIN new THEN new[k] ELSE schema[k],
         \A k \in DOMAIN all : k \in DOMAIN new \/ Cached(k)
  PROVE  CacheAsTold'
<1>1. ASSUME NEW k \in DOMAIN told'
      PROVE  k \in DOMAIN schema' /\ told'[k] = schema'[k]
  <2>1. k \in DOMAIN told \cup DOMAIN all
    BY DEF Learn
  <2>2. CASE k \in DOMAIN new
    BY <2>2 DEF Learn
  <2>3. CASE k \in DOMAIN all \ DOMAIN new
    BY <2>3 DEF Learn, Cached
  <2>4. CASE k \notin DOMAIN all
    BY <2>1, <2>4 DEF Learn, CacheAsTold, Cached
  <2> QED
    BY <2>2, <2>3, <2>4
<1>2. ASSUME NEW k \in DOMAIN schema'
      PROVE  RequiredAreDeclared(schema'[k], k[2])
  <2>1. CASE k \in DOMAIN new
    <3>1. schema'[k] = new[k]
      BY <2>1 DEF Learn
    <3> QED
      BY <2>1, <3>1
  <2>2. CASE k \notin DOMAIN new
    <3>1. k \in DOMAIN schema /\ schema'[k] = schema[k]
      BY <2>2 DEF Learn
    <3> QED
      BY <3>1 DEF CacheAsTold
  <2> QED
    BY <2>1, <2>2
<1>3. \A k \in DOMAIN schema' : RequiredAreDeclared(schema[k], k[2])'
  BY <1>2 DEF RequiredAreDeclared, RequiredByFile
<1> QED
  BY <1>1, <1>3 DEF CacheAsTold, Cached

\* Learning well-typed columns keeps the cache well typed.
LEMMA CacheTypes ==
  ASSUME TypeOK, NEW new, schema' = Learn(schema, new), DOMAIN new \subseteq Keys,
         \A k \in DOMAIN new : IsColumns(new[k])
  PROVE  DOMAIN schema' \subseteq Keys /\ \A k \in DOMAIN schema' : IsColumns(schema'[k])
<1>1. DOMAIN schema' = DOMAIN schema \cup DOMAIN new
  BY LearnDomain
<1>2. ASSUME NEW k \in DOMAIN schema'
      PROVE  IsColumns(schema'[k])
  <2>1. CASE k \in DOMAIN new
    <3>1. schema'[k] = new[k]
      BY <2>1 DEF Learn
    <3> QED
      BY <2>1, <3>1
  <2>2. CASE k \notin DOMAIN new
    <3>1. k \in DOMAIN schema /\ schema'[k] = schema[k]
      BY <2>2 DEF Learn
    <3> QED
      BY <3>1 DEF TypeOK
  <2> QED
    BY <2>1, <2>2
<1> QED
  BY <1>1, <1>2 DEF TypeOK
-----------------------------------------------------------------------------
(* The invariant holds at first and every action keeps it.                 *)

LEMMA InvInit == Init => Inv
<1> SUFFICES ASSUME Init PROVE Inv
  OBVIOUS
<1>1. settings = None /\ overrides = [set |-> FALSE, value |-> None]
      /\ schema = NoTables /\ req = Idle /\ reply = None /\ told = NoTables
  BY DEF Init
<1>2. DOMAIN schema = {} /\ DOMAIN told = {}
  BY <1>1 DEF NoTables
<1>3. OverridesBelongToSettings /\ NothingBeforeInitialize
  BY <1>1, <1>2 DEF OverridesBelongToSettings, NothingBeforeInitialize
<1>4. CacheAsTold
  BY <1>2 DEF CacheAsTold
<1>5. Requests /\ req.kind = "idle"
  BY <1>1 DEF Requests, ColumnsRequest, Idle
<1>6. TypeOK
  <2>1. overrides.set = FALSE /\ overrides.value = None
    BY <1>1
  <2> QED
    BY <1>1, <1>2, <1>5, <2>1, InitialStoresAssumption DEF TypeOK, Init
<1>7. RowsMatchTold /\ RefusedOnlyForDeclared /\ EveryTableReported
  BY <1>1 DEF RowsMatchTold, RefusedOnlyForDeclared, EveryTableReported
<1> QED
  BY <1>3, <1>4, <1>5, <1>6, <1>7 DEF Inv

\* An action that leaves the settings and what is cached alone, answers without
\* columns or not at all, and ends in a lawful request.
LEMMA QuietStep ==
  ASSUME Inv, UNCHANGED <<settings, overrides, schema, told>>,
         store' \in [Keys -> SUBSET Documents],
         settings # None \/ UNCHANGED req,
         Requests', req'.kind \in {"idle", "columns", "list", "fetch"}, SafeReply'
  PROVE  Inv'
<1>1. OverridesBelongToSettings'
  BY SameSettings DEF Inv
<1>2. NothingBeforeInitialize'
  BY DEF Inv, NothingBeforeInitialize
<1>3. CacheAsTold'
  BY SameCache DEF Inv
<1>4. TypeOK'
  BY <1>1, <1>2, TypeFromParts DEF Inv, TypeOK
<1> QED
  BY <1>1, <1>2, <1>3, <1>4 DEF Inv, SafeReply

LEMMA RejectStep ==
  ASSUME Inv, Reject
  PROVE  Inv'
<1>1. SafeReply'
  BY PlainReply DEF Reject, Answer, Error
<1>2. Requests' /\ req'.kind = "idle"
  BY NoRequest DEF Reject, Answer
<1> QED
  BY <1>1, <1>2, QuietStep DEF Reject, Answer, Inv, TypeOK

LEMMA InitializeStep ==
  ASSUME Inv, NEW s \in Setups, Initialize(s)
  PROVE  Inv'
<1>1. UNCHANGED <<store, schema, told>>
  BY DEF Initialize
<1>2. Requests' /\ req'.kind = "idle"
  BY NoRequest DEF Initialize, Answer
<1>3. SafeReply'
  BY PlainReply DEF Initialize, Answer, Error
<1>4. CASE UNCHANGED <<settings, overrides>>
  <2>1. UNCHANGED req
    BY DEF Initialize, Answer
  <2> QED
    BY <1>1, <1>2, <1>3, <1>4, <2>1, QuietStep DEF Inv, TypeOK
<1>5. CASE settings = None /\ ~LoadFails(s)
  <2>1. settings' = s /\ overrides' = [set |-> TRUE, value |-> Loaded(s)] /\ s # None
    <3>1. overrides.set = FALSE
      BY <1>5 DEF Inv, NothingBeforeInitialize
    <3> QED
      BY <1>5, <3>1, SetupsAssumption DEF Initialize, SetSettings, SetOverrides
  <2>2. OverridesBelongToSettings' /\ NothingBeforeInitialize'
    BY <1>5, <2>1 DEF OverridesBelongToSettings, NothingBeforeInitialize
  <2>3. DOMAIN schema' = {} /\ DOMAIN told' = {}
    BY <1>1, <1>5 DEF Inv, NothingBeforeInitialize
  <2>4. CacheAsTold'
    BY <2>3 DEF CacheAsTold
  <2>5. TypeOK'
    BY <1>1, <1>2, <2>1, <2>2, <2>3, TypeFromParts DEF Inv, TypeOK
  <2> QED
    BY <1>2, <1>3, <2>2, <2>4, <2>5 DEF Inv, SafeReply
<1>6. CASE settings # None /\ ~LoadFails(s)
  <2>1. overrides.set = TRUE
    BY <1>6 DEF Inv, OverridesBelongToSettings
  <2>2. UNCHANGED <<settings, overrides>>
    BY <1>6, <2>1 DEF Initialize, SetSettings, SetOverrides
  <2> QED
    BY <1>4, <2>2
<1> QED
  BY <1>4, <1>5, <1>6 DEF Initialize

LEMMA GetColumnsStep ==
  ASSUME Inv, NEW d \in Databases \cup {None}, NEW t \in Tables, GetColumns(d, t)
  PROVE  Inv'
<1> DEFINE k == <<Meant(d), t>>
<1>1. settings # None /\ UNCHANGED <<store, settings, overrides, schema>> /\ k \in Keys
  BY MeantType DEF GetColumns, Inv, Keys
<1>2. CASE ~Cached(k)
  <2>1. req' = [kind |-> "columns", key |-> k] /\ reply' = None /\ UNCHANGED told
    BY <1>2 DEF GetColumns
  <2>2. SafeReply'
    BY <2>1, PlainReply
  <2>3. Requests' /\ req'.kind = "columns"
    BY <1>1, <1>2, <2>1 DEF Requests, ColumnsRequest, Cached
  <2> QED
    BY <1>1, <2>1, <2>2, <2>3, QuietStep DEF Inv, TypeOK
<1>3. CASE Cached(k)
  <2>1. /\ reply' = [kind |-> "columns", database |-> k[1], asked |-> {t},
                     columns |-> Only(k, schema[k])]
        /\ req' = Idle
        /\ told' = Learn(told, Only(k, schema[k]))
    BY <1>3 DEF GetColumns, Answer
  <2>2. Requests' /\ req'.kind = "idle"
    BY <2>1, NoRequest
  <2>3. OverridesBelongToSettings' /\ NothingBeforeInitialize'
    BY <1>1, SameSettings, Initialized DEF Inv
  <2>4. TypeOK'
    BY <1>1, <2>2, <2>3, TypeFromParts DEF Inv, TypeOK
  <2>5. CacheAsTold'
    <3>1. DOMAIN told' = DOMAIN told \cup {k}
      BY <2>1 DEF Learn, Only
    <3>2. \A x \in DOMAIN told' : x \in DOMAIN schema' /\ told'[x] = schema'[x]
      <4> SUFFICES ASSUME NEW x \in DOMAIN told'
                   PROVE  x \in DOMAIN schema /\ told'[x] = schema[x]
        BY <1>1
      <4>1. CASE x = k
        BY <1>3, <2>1, <4>1 DEF Learn, Only, Cached
      <4>2. CASE x # k
        BY <2>1, <3>1, <4>2 DEF Learn, Only, Inv, CacheAsTold, Cached
      <4> QED
        BY <4>1, <4>2
    <3>3. \A x \in DOMAIN schema : RequiredAreDeclared(schema[x], x[2])'
      BY <1>1 DEF Inv, CacheAsTold, RequiredAreDeclared, RequiredByFile
    <3> QED
      BY <1>1, <3>2, <3>3 DEF CacheAsTold, Cached
  <2>6. SafeReply'
    <3>1. DOMAIN Only(k, schema[k]) = {<<k[1], x>> : x \in {t}}
      <4>1. {<<k[1], x>> : x \in {t}} = {k}
        OBVIOUS
      <4> HIDE DEF k
      <4> QED
        BY <4>1, OnlyDomain
    <3> QED
      BY <2>1, <3>1, ColumnsReply
  <2> QED
    BY <2>2, <2>3, <2>4, <2>5, <2>6 DEF Inv, SafeReply
<1> QED
  BY <1>2, <1>3

\* A step that adds to the cache, tells the host, and ends the request.
LEMMA LearningStep ==
  ASSUME Inv, req # Idle, UNCHANGED <<store, settings, overrides>>, NEW new, NEW all,
         schema' = Learn(schema, new), told' = Learn(told, all), req' = Idle, SafeReply',
         DOMAIN new \subseteq Keys, DOMAIN new \subseteq DOMAIN all,
         \A k \in DOMAIN new : IsColumns(new[k]) /\ RequiredAreDeclared(new[k], k[2]),
         \A k \in DOMAIN all :
           all[k] = IF k \in DOMAIN new THEN new[k] ELSE schema[k],
         \A k \in DOMAIN all : k \in DOMAIN new \/ Cached(k)
  PROVE  Inv'
<1>1. Requests' /\ req'.kind = "idle"
  BY NoRequest
<1>2. OverridesBelongToSettings' /\ NothingBeforeInitialize'
  BY SameSettings, Initialized DEF Inv
<1>3. CacheAsTold'
  BY CacheLearns DEF Inv
<1>4. DOMAIN schema' \subseteq Keys /\ \A k \in DOMAIN schema' : IsColumns(schema'[k])
  BY CacheTypes DEF Inv
<1>5. TypeOK'
  BY <1>1, <1>2, <1>4, TypeFromParts DEF Inv, TypeOK
<1> QED
  BY <1>1, <1>2, <1>3, <1>5 DEF Inv, SafeReply

\* A request fails: nothing else changes.
LEMMA FailedStep ==
  ASSUME Inv, Answer(Error), req # Idle,
         UNCHANGED <<store, settings, overrides, schema, told>>
  PROVE  Inv'
<1>1. SafeReply'
  BY PlainReply DEF Answer, Error
<1>2. Requests' /\ req'.kind = "idle" /\ settings # None
  BY NoRequest, Initialized DEF Answer, Inv
<1> QED
  BY <1>1, <1>2, QuietStep DEF Inv, TypeOK

LEMMA ColumnsSampledStep ==
  ASSUME Inv, ColumnsSampled
  PROVE  Inv'
<1> DEFINE k == req.key
<1>1. req # Idle /\ UNCHANGED <<store, settings, overrides>>
  BY DEF ColumnsSampled, Idle
<1>2. k \in Keys /\ ~Cached(k)
  BY DEF ColumnsSampled, Inv, Requests, ColumnsRequest
<1>3. CASE Answer(Error) /\ UNCHANGED <<schema, told>>
  BY <1>1, <1>3, FailedStep
<1>4. CASE ~(Answer(Error) /\ UNCHANGED <<schema, told>>)
  <2>1. PICK sample \in Samples(store[k]) :
          /\ schema' = Learn(schema, Only(k, ColumnsFrom(sample, k[2])))
          /\ told' = Learn(told, Only(k, ColumnsFrom(sample, k[2])))
          /\ Answer([kind |-> "columns", database |-> k[1], asked |-> {k[2]},
                     columns |-> Only(k, ColumnsFrom(sample, k[2]))])
    BY <1>4 DEF ColumnsSampled
  <2> DEFINE columns == ColumnsFrom(sample, k[2])
             new == Only(k, columns)
  <2>2. sample \in SUBSET Documents
    BY <1>2 DEF Samples, Inv, TypeOK
  <2>3. IsColumns(columns) /\ RequiredAreDeclared(columns, k[2])
    BY <2>2, ColumnsFromType DEF Inv, TypeOK
  <2>4. k = <<k[1], k[2]>>
    BY <1>2 DEF Keys
  <2> HIDE DEF k, columns
  <2>5. DOMAIN new = {k} /\ new[k] = columns
    BY OnlyDomain, OnlyValue
  <2>6. DOMAIN new = {<<k[1], t>> : t \in {k[2]}}
    BY <2>4, <2>5
  <2>7. /\ reply' = [kind |-> "columns", database |-> k[1], asked |-> {k[2]}, columns |-> new]
        /\ schema' = Learn(schema, new) /\ told' = Learn(told, new) /\ req' = Idle
    BY <2>1 DEF Answer, columns
  <2> HIDE DEF new
  <2>8. SafeReply'
    BY <2>6, <2>7, ColumnsReply
  <2> QED
    BY <1>1, <1>2, <2>3, <2>5, <2>7, <2>8, LearningStep
<1> QED
  BY <1>3, <1>4

LEMMA GetSchemaSnapshotStep ==
  ASSUME Inv, NEW d \in Databases \cup {None}, GetSchemaSnapshot(d)
  PROVE  Inv'
<1>1. Meant(d) \in Databases
  BY MeantType DEF GetSchemaSnapshot, Inv
<1>2. Requests' /\ req'.kind = "list"
  BY <1>1 DEF GetSchemaSnapshot, Requests, ColumnsRequest
<1>3. SafeReply'
  BY PlainReply DEF GetSchemaSnapshot
<1> QED
  BY <1>2, <1>3, QuietStep DEF GetSchemaSnapshot, Inv, TypeOK

LEMMA TablesListedStep ==
  ASSUME Inv, TablesListed
  PROVE  Inv'
<1>1. req # Idle /\ UNCHANGED <<store, settings, overrides, schema, told>>
  BY DEF TablesListed, Idle
<1>2. req.database \in Databases /\ settings # None
  BY <1>1, Initialized DEF TablesListed, Inv, Requests
<1>3. CASE Answer(Error)
  BY <1>1, <1>3, FailedStep
<1>4. CASE ~Answer(Error)
  <2> DEFINE tables == {t \in Tables : store[<<req.database, t>>] # {}}
  <2>1. req' = Fetching("snapshot", req.database, SetToSeq(tables), NoTables) /\ UNCHANGED reply
    BY <1>4 DEF TablesListed
  <2>2. IsFiniteSet(tables)
    BY TablesAssumption, FS_Subset
  <2>3. tables \in SUBSET Tables
    OBVIOUS
  <2> HIDE DEF tables
  <2>4. SetToSeq(tables) \in Seq(Tables)
    BY <2>2, <2>3, SetToSeqType
  <2>5. DOMAIN NoTables = {}
    BY DEF NoTables
  <2>6. Requests' /\ req'.kind = "fetch"
    BY <1>1, <1>2, <2>1, <2>4, <2>5, NewFetch
  <2>7. SafeReply'
    BY <1>1, <2>1, SameReply DEF Inv, SafeReply
  <2> QED
    BY <1>1, <1>2, <2>6, <2>7, QuietStep DEF Inv, TypeOK
<1> QED
  BY <1>3, <1>4

LEMMA GetAllColumnsBatchStep ==
  ASSUME Inv, NEW d \in Databases \cup {None}, NEW tables \in Batches,
         GetAllColumnsBatch(d, tables)
  PROVE  Inv'
<1> DEFINE db == Meant(d)
           hits == Hits(db, tables)
<1>1. db \in Databases /\ tables \in Seq(Tables)
  BY MeantType, BatchesAssumption DEF GetAllColumnsBatch, Inv
<1>2. /\ DOMAIN hits = {t \in ToSet(tables) : Cached(<<db, t>>)}
      /\ \A t \in DOMAIN hits : hits[t] = schema[<<db, t>>]
  BY DEF Hits
<1>3. \A i \in DOMAIN tables : tables[i] \in ToSet(tables)
  BY DEF ToSet
<1>4. req' = Fetching("batch", db, tables, hits) /\ UNCHANGED schema
  BY DEF GetAllColumnsBatch
<1> HIDE DEF db, hits
<1>5. Requests' /\ req'.kind = "fetch"
  BY <1>1, <1>2, <1>3, <1>4, NewFetch
<1>6. SafeReply'
  BY PlainReply DEF GetAllColumnsBatch
<1> QED
  BY <1>5, <1>6, QuietStep DEF GetAllColumnsBatch, Inv, TypeOK

LEMMA TableSampledStep ==
  ASSUME Inv, TableSampled
  PROVE  Inv'
<1>1. req # Idle /\ req.kind = "fetch"
      /\ UNCHANGED <<store, settings, overrides, schema, reply, told>>
  BY DEF TableSampled, Idle
<1>2. FetchRequest /\ settings # None
  BY <1>1, Initialized DEF Inv, Requests
<1>3. PICK i \in req.pending :
        \E sample \in Samples(store[<<req.database, req.tables[i]>>]) \cup {{}} :
          req' = [req EXCEPT !.pending = @ \ {i},
                             !.fetched = Learn(@, Only(req.tables[i],
                                                       ColumnsFrom(sample, req.tables[i])))]
  BY DEF TableSampled, InFlight
<1> DEFINE t == req.tables[i]
<1>4. PICK sample \in Samples(store[<<req.database, t>>]) \cup {{}} :
        req' = [req EXCEPT !.pending = @ \ {i}, !.fetched = Learn(@, Only(t, ColumnsFrom(sample, t)))]
  BY <1>3
<1> DEFINE columns == ColumnsFrom(sample, t)
<1>5. i \in DOMAIN req.tables /\ t \in Tables /\ t \in ToSet(req.tables)
  BY <1>2 DEF FetchRequest, FetchType, ToSet
<1>6. sample \in SUBSET Documents
  BY <1>2, <1>5 DEF Samples, Inv, TypeOK, Keys, FetchRequest, FetchType
<1>7. IsColumns(columns) /\ RequiredAreDeclared(columns, t)
  BY <1>6, ColumnsFromType DEF Inv, TypeOK
<1>8. req' = [kind |-> "fetch", of |-> req.of, database |-> req.database, tables |-> req.tables,
              pending |-> req.pending \ {i}, hits |-> req.hits,
              fetched |-> Learn(req.fetched, Only(t, columns))]
  <2> DEFINE rest == req.pending \ {i}
             learned == Learn(req.fetched, Only(t, columns))
  <2>1. req' = [req EXCEPT !.pending = rest, !.fetched = learned]
    BY <1>4
  <2> HIDE DEF rest, learned
  <2>2. req' = [kind |-> "fetch", of |-> req.of, database |-> req.database, tables |-> req.tables,
                pending |-> rest, hits |-> req.hits, fetched |-> learned]
    <3>1. \E of, db, tables, pending, hits, fetched :
            req = [kind |-> "fetch", of |-> of, database |-> db, tables |-> tables,
                   pending |-> pending, hits |-> hits, fetched |-> fetched]
      BY <1>2 DEF FetchRequest, FetchType
    <3>2. PICK of, db, tables, pending, hits, fetched :
            req = [kind |-> "fetch", of |-> of, database |-> db, tables |-> tables,
                   pending |-> pending, hits |-> hits, fetched |-> fetched]
      BY <3>1
    <3>3. req.of = of /\ req.database = db /\ req.tables = tables /\ req.hits = hits
      BY <3>2
    <3>4. req' = [kind |-> "fetch", of |-> of, database |-> db, tables |-> tables,
                  pending |-> rest, hits |-> hits, fetched |-> learned]
      BY <2>1, <3>2
    <3> QED
      BY <3>3, <3>4
  <2> QED
    BY <2>2 DEF rest, learned
<1>9. FetchType'
  BY <1>2, <1>8 DEF FetchRequest, FetchType
<1> HIDE DEF t, columns
<1>10. DOMAIN req'.fetched = DOMAIN req.fetched \cup {t}
  BY <1>8 DEF Learn, Only
<1>11. ASSUME NEW x \in DOMAIN req'.fetched
       PROVE  IsColumns(req'.fetched[x]) /\ RequiredAreDeclared(req'.fetched[x], x)
  <2>1. CASE x = t
    <3>1. req'.fetched[x] = columns
      BY <1>8, <2>1 DEF Learn, Only
    <3> QED
      BY <1>7, <2>1, <3>1
  <2>2. CASE x # t
    <3>1. x \in DOMAIN req.fetched /\ req'.fetched[x] = req.fetched[x]
      BY <1>8, <1>10, <2>2 DEF Learn, Only
    <3> QED
      BY <1>2, <3>1 DEF FetchRequest
  <2> QED
    BY <2>1, <2>2
<1>12. \A x \in DOMAIN req'.fetched :
         IsColumns(req.fetched[x])' /\ RequiredAreDeclared(req.fetched[x], x)'
  BY <1>1, <1>11 DEF RequiredAreDeclared, RequiredByFile, IsColumns
<1>13. \A j \in DOMAIN req.tables \ req'.pending :
         req.tables[j] \in DOMAIN req.hits \cup DOMAIN req'.fetched
  BY <1>2, <1>8, <1>10 DEF FetchRequest, t
<1>14. req.of = "batch" => ~Cached(<<req.database, t>>)
  BY <1>2 DEF FetchRequest, t
<1>15. FetchRequest'
  <2>1. /\ DOMAIN req'.hits \subseteq ToSet(req'.tables)
        /\ DOMAIN req'.fetched \subseteq ToSet(req'.tables)
    BY <1>2, <1>5, <1>8, <1>10 DEF FetchRequest
  <2>2. \A x \in DOMAIN req'.hits :
          Cached(<<req.database, x>>)' /\ req'.hits[x] = schema'[<<req'.database, x>>]
    BY <1>1, <1>2, <1>8 DEF FetchRequest, Cached
  <2>3. req'.of = "batch" =>
          /\ \A x \in DOMAIN req'.fetched : ~Cached(<<req.database, x>>)'
          /\ \A j \in req'.pending : ~Cached(<<req.database, req.tables[j]>>)'
    BY <1>1, <1>2, <1>8, <1>10, <1>14 DEF FetchRequest, Cached
  <2> QED
    BY <1>8, <1>9, <1>12, <1>13, <2>1, <2>2, <2>3 DEF FetchRequest
<1>16. Requests' /\ req'.kind = "fetch"
  BY <1>8, <1>15 DEF Requests, ColumnsRequest
<1>17. SafeReply'
  BY <1>1, SameReply DEF Inv, SafeReply
<1> QED
  BY <1>1, <1>2, <1>16, <1>17, QuietStep DEF Inv, TypeOK

LEMMA TablesAnsweredStep ==
  ASSUME Inv, TablesAnswered
  PROVE  Inv'
<1> DEFINE db == req.database
           new == Keyed(db, req.fetched)
           all == Learn(Keyed(db, req.hits), new)
<1>1. /\ req # Idle /\ req.kind = "fetch" /\ req.pending = {}
      /\ UNCHANGED <<store, settings, overrides>>
      /\ schema' = Learn(schema, new) /\ told' = Learn(told, all) /\ req' = Idle
      /\ reply' = [kind |-> "columns", database |-> db, asked |-> ToSet(req.tables),
                   columns |-> all]
  BY DEF TablesAnswered, Idle, Answer
<1>2. FetchRequest
  BY <1>1 DEF Inv, Requests
<1>3. DOMAIN new = {<<db, t>> : t \in DOMAIN req.fetched}
  BY KeyedDomain
<1>4. DOMAIN all = {<<db, t>> : t \in DOMAIN req.hits} \cup DOMAIN new
  BY KeyedDomain, LearnDomain
<1>5. \A t \in DOMAIN req.fetched : new[<<db, t>>] = req.fetched[t]
  BY KeyedValue
<1>6. ToSet(req.tables) = DOMAIN req.hits \cup DOMAIN req.fetched
  BY <1>1, <1>2 DEF FetchRequest, ToSet
<1>7. DOMAIN all = {<<db, t>> : t \in ToSet(req.tables)}
  BY <1>3, <1>4, <1>6
<1>8. \A k \in DOMAIN new : IsColumns(new[k]) /\ RequiredAreDeclared(new[k], k[2])
  BY <1>2, <1>3, <1>5 DEF FetchRequest
<1>9. ASSUME NEW k \in DOMAIN all
      PROVE  all[k] = (IF k \in DOMAIN new THEN new[k] ELSE schema[k])
             /\ (k \in DOMAIN new \/ Cached(k))
  <2>1. CASE k \in DOMAIN new
    BY <2>1, LearnNew
  <2>2. CASE k \notin DOMAIN new
    <3>1. PICK t \in DOMAIN req.hits : k = <<db, t>>
      BY <1>4, <2>2
    <3>2. all[k] = Keyed(db, req.hits)[k]
      <4> DEFINE old == Keyed(db, req.hits)
      <4>1. k \in DOMAIN old
        BY <3>1, KeyedDomain
      <4> HIDE DEF new, old
      <4>2. Learn(old, new)[k] = old[k]
        BY <2>2, <4>1 DEF Learn
      <4> QED
        BY <4>2 DEF old
    <3>3. Keyed(db, req.hits)[k] = req.hits[t]
      BY <3>1, KeyedValue
    <3> QED
      BY <1>2, <2>2, <3>1, <3>2, <3>3 DEF FetchRequest
  <2> QED
    BY <2>1, <2>2
<1>10. DOMAIN new \subseteq Keys
  BY <1>2, <1>3 DEF FetchRequest, FetchType, Keys, ToSet
<1> HIDE DEF new, all
<1>11. SafeReply'
  BY <1>1, <1>7, ColumnsReply
<1> QED
  BY <1>1, <1>4, <1>8, <1>9, <1>10, <1>11, LearningStep

LEMMA ExecuteQueryStep ==
  ASSUME Inv, NEW d \in Databases \cup {None}, NEW t \in Tables, ExecuteQuery(d, t)
  PROVE  Inv'
<1> DEFINE k == <<Meant(d), t>>
<1>1. settings # None /\ UNCHANGED <<store, settings, overrides, schema, req, told>>
  BY DEF ExecuteQuery
<1>2. PICK page \in SUBSET store[k] :
        reply' = [kind |-> "rows", key |-> k, columns |-> ColumnsOfPage(k, page)]
  BY DEF ExecuteQuery
<1> HIDE DEF k
<1>3. k \in DOMAIN told => ColumnsOfPage(k, page) = told[k]
  BY DEF ColumnsOfPage, Inv, CacheAsTold
<1>4. SafeReply'
  BY <1>1, <1>2, <1>3 DEF SafeReply, RowsMatchTold, RefusedOnlyForDeclared, EveryTableReported
<1>5. Requests' /\ req'.kind = "idle"
  BY NoRequest DEF ExecuteQuery
<1> QED
  BY <1>1, <1>4, <1>5, QuietStep DEF Inv, TypeOK

LEMMA InsertRecordStep ==
  ASSUME Inv, NEW d \in Databases \cup {None}, NEW t \in Tables, NEW body \in Bodies,
         InsertRecord(d, t, body)
  PROVE  Inv'
<1> DEFINE k == <<Meant(d), t>>
           missing == RequiredMissing(k, body)
<1>1. settings # None /\ UNCHANGED <<settings, overrides, schema, req, told>> /\ k \in Shared
  BY DEF InsertRecord
<1>2. store' \in [Keys -> SUBSET Documents]
  <2>1. CASE UNCHANGED store
    BY <2>1 DEF Inv, TypeOK
  <2>2. CASE store' = [store EXCEPT ![k] = @ \cup {body}]
    BY <1>1, <2>2, BodiesAssumption, SharedAssumption DEF Inv, TypeOK
  <2> QED
    BY <2>1, <2>2 DEF InsertRecord
<1>3. SafeReply'
  <2>1. CASE reply' = [kind |-> "ok"]
    BY <2>1, PlainReply
  <2>2. CASE reply' = [kind |-> "refused", key |-> k, missing |-> missing, body |-> body]
    <3>1. \A f \in missing : RequiredByFile(t, f) /\ f \notin DOMAIN body
      BY DEF RequiredMissing, Inv, CacheAsTold, RequiredAreDeclared, Cached
    <3> QED
      BY <1>1, <2>2, <3>1 DEF SafeReply, RowsMatchTold, RefusedOnlyForDeclared,
                               EveryTableReported, RequiredByFile
  <2> QED
    BY <2>1, <2>2 DEF InsertRecord
<1>4. Requests' /\ req'.kind = "idle"
  BY NoRequest DEF InsertRecord
<1> QED
  BY <1>1, <1>2, <1>3, <1>4, QuietStep

LEMMA ForeignWriteStep ==
  ASSUME Inv, NEW k \in Shared, ForeignWrite(k)
  PROVE  Inv'
<1>1. UNCHANGED <<settings, overrides, schema, req, reply, told>>
  BY DEF ForeignWrite
<1>2. store' \in [Keys -> SUBSET Documents]
  BY SharedAssumption DEF ForeignWrite, Inv, TypeOK
<1>3. Requests'
  BY <1>1 DEF Inv, Requests, ColumnsRequest, FetchRequest, FetchType, Cached, IsColumns,
              RequiredAreDeclared, RequiredByFile
<1>4. SafeReply'
  BY <1>1, SameReply DEF Inv, SafeReply
<1> QED
  BY <1>1, <1>2, <1>3, <1>4, QuietStep DEF Inv, TypeOK

LEMMA Stuttering ==
  ASSUME Inv, UNCHANGED vars
  PROVE  Inv'
<1>1. UNCHANGED <<store, settings, overrides, schema, req, reply, told>>
  BY DEF vars
<1>2. Requests'
  BY <1>1 DEF Inv, Requests, ColumnsRequest, FetchRequest, FetchType, Cached, IsColumns,
              RequiredAreDeclared, RequiredByFile
<1>3. SafeReply'
  BY <1>1, SameReply DEF Inv, SafeReply
<1> QED
  BY <1>1, <1>2, <1>3, QuietStep DEF Inv, TypeOK

LEMMA InvNext == Inv /\ [Next]_vars => Inv'
<1> SUFFICES ASSUME Inv, [Next]_vars PROVE Inv'
  OBVIOUS
<1> QED
  BY RejectStep, InitializeStep, GetColumnsStep, ColumnsSampledStep, GetSchemaSnapshotStep,
     TablesListedStep, GetAllColumnsBatchStep, TableSampledStep, TablesAnsweredStep,
     ExecuteQueryStep, InsertRecordStep, ForeignWriteStep, Stuttering
  DEF Next, Step
-----------------------------------------------------------------------------
(* What a step may do to the cache.                                        *)

KeepsCached ==
  \A k \in DOMAIN schema :
    k \in DOMAIN schema' /\ (schema'[k] # schema[k] => req.kind = "fetch" /\ req.of = "snapshot")

\* Only a sample of get_columns and the end of a snapshot or a batch change the
\* cache, and the first and the last add what was not there.
LEMMA CacheKept == Inv /\ [Next]_vars => KeepsCached
<1> SUFFICES ASSUME Inv, [Next]_vars, NEW k \in DOMAIN schema
             PROVE  k \in DOMAIN schema'
                    /\ (schema'[k] # schema[k] => req.kind = "fetch" /\ req.of = "snapshot")
  BY DEF KeepsCached
<1>1. CASE UNCHANGED schema
  BY <1>1
<1>2. CASE ColumnsSampled /\ ~UNCHANGED schema
  <2>1. PICK columns : schema' = Learn(schema, Only(req.key, columns))
    BY <1>2 DEF ColumnsSampled
  <2>2. k # req.key
    BY <1>2 DEF ColumnsSampled, Inv, Requests, ColumnsRequest, Cached
  <2>3. k \in DOMAIN schema' /\ schema'[k] = schema[k]
    BY <2>1, <2>2 DEF Learn, Only
  <2> QED
    BY <2>3
<1>3. CASE TablesAnswered
  <2> DEFINE new == Keyed(req.database, req.fetched)
  <2>1. schema' = Learn(schema, new) /\ req.kind = "fetch" /\ FetchRequest
    BY <1>3 DEF TablesAnswered, Inv, Requests
  <2>2. DOMAIN new = {<<req.database, t>> : t \in DOMAIN req.fetched}
    BY KeyedDomain
  <2>3. CASE req.of = "snapshot"
    BY <2>1, <2>3 DEF Learn
  <2>4. CASE req.of = "batch"
    <3>1. k \notin DOMAIN new
      BY <2>1, <2>2, <2>4 DEF FetchRequest, Cached
    <3> HIDE DEF new
    <3>2. k \in DOMAIN schema' /\ schema'[k] = schema[k]
      BY <2>1, <3>1 DEF Learn
    <3> QED
      BY <3>2
  <2> QED
    BY <2>1, <2>3, <2>4 DEF FetchRequest, FetchType
<1> QED
  BY <1>1, <1>2, <1>3
  DEF Next, Step, vars, Reject, Initialize, GetSchemaSnapshot, GetAllColumnsBatch, GetColumns,
      ExecuteQuery, InsertRecord, TablesListed, TableSampled, ForeignWrite
-----------------------------------------------------------------------------
(* The theorems.                                                           *)

LEMMA Invariance == Spec => []Inv
BY InvInit, InvNext, PTL DEF Spec

\* The cells, the cache and the request in hand keep their types, the columns of
\* every sample and every file included (state.rs, schema_infer.rs,
\* schema_overrides.rs).
THEOREM Typing == Spec => []TypeOK
<1>1. Inv => TypeOK
  BY DEF Inv
<1> QED
  BY <1>1, Invariance, PTL

\* The overrides in force are those of the settings in force, however often
\* initialize fails and is repeated (query.rs:11-25).
THEOREM OverridesFollowSettings == Spec => []OverridesBelongToSettings
<1>1. Inv => OverridesBelongToSettings
  BY DEF Inv
<1> QED
  BY <1>1, Invariance, PTL

\* Rows are shown under the columns the host was last told, for any number of
\* tables and databases and whatever others write meanwhile (query.rs:311-326).
THEOREM RowsFollowColumns == Spec => []RowsMatchTold
<1>1. Inv => RowsMatchTold
  BY DEF Inv
<1> QED
  BY <1>1, Invariance, PTL

\* No sample makes an insert fail: only what the user's file requires does
\* (crud.rs:321-355).
THEOREM RefusalsAreDeclared == Spec => []RefusedOnlyForDeclared
<1>1. Inv => RefusedOnlyForDeclared
  BY DEF Inv
<1> QED
  BY <1>1, Invariance, PTL

\* Every table asked for is in the answer, for lists of any length with tables
\* named repeatedly, any number of samples under way and any order of their
\* coming back (metadata.rs:204-250, 295-368).
THEOREM AnswersAreComplete == Spec => []EveryTableReported
<1>1. Inv => EveryTableReported
  BY DEF Inv
<1> QED
  BY <1>1, Invariance, PTL

\* What is cached stays until a snapshot samples it again.
THEOREM CacheStays == Spec => CachedUntilSnapshot
<1>1. Inv /\ [Next]_vars => [KeepsCached]_vars
  BY CacheKept
<1>2. Spec => [][KeepsCached]_vars
  BY <1>1, Invariance, PTL DEF Spec
<1> QED
  BY <1>2 DEF CachedUntilSnapshot, KeepsCached
=============================================================================
