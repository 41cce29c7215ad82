# firestore-tabularis in TLA+

Models, model-checking runs and machine-checked proofs for the Firestore driver
plugin of Tabularis, whose source is in `src/` (paths below such as `cache.rs`
or `handlers/query.rs` are relative to `src/src/`; `PROJECT.json` gives full
paths and lines for every definition).

The plugin is one process that a database GUI starts. It reads JSON-RPC requests
from stdin, one per line, answers each on stdout, and talks to Firestore over
gRPC. Its own logic, and where it can go wrong, is in what it keeps *between*
requests: cached counts, cached page cursors, cached columns, an overrides file
loaded once. Firestore has no page numbers, so a grid that asks for "page 7" is
served by remembering where earlier pages ended; everything remembered may be
evicted, expire, be outrun by a write of the plugin's own or of somebody else's,
or have been read by a request that then failed.

## 1. The system

| Component | Source | State | Operations | What makes it correct |
|---|---|---|---|---|
| TTL cache, oldest entry out first (`TtlLruCache`) | `cache.rs` | `entries` (value, time) and `order`, capacity, time to live | `new`, `get`, `insert`, `remove`, `keys` | order and entries agree; never more than the capacity; never answers after the time to live, nor with an older value than the last; forgets early only when capacity newer keys came |
| Shared state | `state.rs` | `COUNT_CACHE`, `CURSOR_CACHE`, `SCHEMA_CACHE`, `SCHEMA_OVERRIDES`, `SETTINGS`, `CLIENTS` | `invalidate_table_caches`, `resolve_for`, `get_or_build_client` | nothing of a table survives a finished write to it |
| Query handler | `handlers/query.rs` | none of its own; reads and writes both caches | `execute_query`: page/size against LIMIT/OFFSET, cursor lookup, data beside COUNT, what it caches | a page holds the rows OFFSET and LIMIT would give, however it is reached; totals and cursors are exact as of their reading; a failed request leaves nothing behind |
| Write handlers | `handlers/crud.rs` | none | `insert_record`, `update_record`, `delete_record`, `rename_document` | finished writes stand; a rename loses nothing; creating never overwrites; caches are dropped after each |
| Schema metadata | `handlers/metadata.rs` | `SCHEMA_CACHE` | `get_columns`, `get_schema_snapshot`, `get_all_columns_batch`; listings without state | the cache, the rows shown and what the host was told agree; every table asked for is reported |
| Overrides and inference | `schema_overrides.rs`, `schema_infer.rs` | the overrides cell | `resolve_path`, `load`, `validate`, `apply`; `infer`, `classify_set` | the overrides in force are those of the settings in force; inserts are refused only for what the file declares |
| Request loop | `main.rs`, `rpc.rs` | the line in hand | `handle_line` | a serial server: every request answered once, in order, under its id; notifications never |
| Clients and settings | `client.rs`, `state.rs`, `models.rs` | `CLIENTS`, `SETTINGS` | `initialize`, `ping`, `test_connection`, `resolve_for`, `get_or_build_client` | the first accepted settings stay; every client speaks to their project; a ping vouches for the configured database |
| Error mapping, discovery, stubs | `firestore_error.rs`, `error.rs`, `admin.rs`, `ddl.rs` | none | `classify`, `map_message`, `list_databases` | an answer carries a code of JSON-RPC, and the link to a missing index |
| SQL parser | `query_parser.rs` | none | `tokenize`, `parse` | every text of the grammar parses to its meaning, others to an error |
| Filter translation | `firestore_filter.rs` | none | `validate`, `rewrite_doc_id`, `build_filter` | accepts what Firestore accepts; keeps the meaning; the cache keys of different filters differ |
| Value coercion | `coercion.rs`, `serialize_value` of `handlers/query.rs` | none | `json_to_proto`, `coerce_string` | an edit reaches one cell; what was typed is what is shown; a cell saved as it stands keeps its value where the column's type allows it |

How they interact. `main.rs` reads a line, awaits the handler to its end, writes
the answer and only then reads on. Requests therefore do not interleave with one
another; what interleaves is, *within* one request, the several calls it makes
(data and COUNT side by side; up to eight samples at once; the four calls of a
rename), and around them the other writers of the database and the clock. A call
may fail, and a write may take effect without its answer arriving. The handlers
share the caches: `execute_query` fills counts and cursors that the write
handlers drop; the metadata handlers fill the columns that `execute_query` shows
and `insert_record` checks against. Nothing is persisted, so there is no crash
recovery to model: after a restart the plugin is in its initial state and so are
its caches.

The behaviours that are hard to test, each at the line where it bites, are the
`hazards` of `PROJECT.json`, with the properties that cover them.

## 2. The modules

| Module | Models | Kind |
|---|---|---|
| `TtlLruCacheOps` | `cache.rs` as operators on a cache value `[entries, order]` | operators, used by both state machines below |
| `TtlLruCache` | the cache as a component: `Get`, `Insert`, `Remove`, `Tick` | state machine |
| `LossyTtlMap` | what a cache promises: a map that may forget any key at any time, answers only with the last value stored, and never past the time to live | abstract specification |
| `Firestore` | what the handlers rely on in the database: matching, ordering, OFFSET and LIMIT, start-after, COUNT | external |
| `PluginState` | the two caches of `state.rs` with their keys, `invalidate_table_caches`, the collections, the other writers, the clock, and the history the properties compare with | shared state |
| `ExecuteQuery` | `execute_query` of `handlers/query.rs`: `StartQuery`, `FetchData`, `FetchCount`, `FailQuery`, `AnswerQuery` | actions |
| `Crud` | `handlers/crud.rs`: `StartWrite`, `InsertRecord`, `UpdateRecord`, `DeleteRecord`, `RenameGet`, `RenameCheck`, `RenameCreate`, `RenameDelete` | actions |
| `Plugin` | their composition under the request loop, and all properties about it | composition |
| `SchemaInfer` | `schema_infer.rs` and `schema_overrides.rs` as operators on samples and files | operators |
| `SchemaCache` | `initialize`, the three metadata handlers that fill `SCHEMA_CACHE`, and its two readers | state machine |
| `QuerySyntax` | the types of `query_parser.rs`: literals, conditions, filters up to a depth, `ParsedQuery`; and what it is to reorder a filter | data |
| `Tokenizer` | `tokenize` of `query_parser.rs`, from characters to tokens | operators |
| `QueryParser` | `query_parser.rs` from tokens on: one operator per production of the recursive descent | operators |
| `QueryGrammar` | what a text means by the documented grammar, said by cutting it into parts; meanings that only the parser gives are marked | reference definition |
| `FilterRules` | `firestore_filter.rs` and `canonical_filter` of `handlers/query.rs`, on filter trees | operators |
| `QuerySession` | a text's way through `execute_query` and `explain_query`, and the user's changes of it between them; what the parser makes of a text is a parameter | state machine |
| `QueryReading` | `QuerySession` with the parser and the grammar put together | composition |
| `SerialServer` | what a host may rely on: lines served in order, each request answered once | abstract specification |
| `RpcLoop` | `main.rs`, `rpc.rs`, `initialize`, `ping`, `test_connection`, `client.rs`, `get_or_build_client`, `firestore_error.rs`; implements `SerialServer` | state machine |
| `CellValues` | `coercion.rs` and `serialize_value`, one level of a value at a time; what they say of what is inside is a parameter | operators |
| `Cells` | the values of one collection under edits of cells and inserts, with the columns taken for hints | state machine |
| `TtlLruCacheProofs`, `RpcLoopProofs`, `SchemaCacheProofs`, `CellsProofs` | theorems about the module of the same name | proofs |
| `QuerySessionProofs` | theorems about `QuerySession` and the filters of `FilterRules` | proofs |
| `PluginProofs`, `PagingProofs` | theorems about `Plugin`: caches, counts and writes; cursors, pages and errors, over lemmas about the rows of `Firestore` | proofs |
| `SchemaInferProofs` | lemmas about the operators of `SchemaInfer`, which two others cite | proofs |
| `MC*` | TLC instances | |

### How state and actions correspond to the code

*Cache.* A cache value is the `HashMap` (`entries`) beside the `VecDeque`
(`order`). `CacheInsert` pops the front of `order` while the map is full and
the key is new; `CacheGet` removes an entry that has expired. The clock is a natural
number; an entry hits up to and including its time to live, as `elapsed() > ttl`
says. `TtlLruCache` adds two history variables, when each key was last stored
and which keys came after it, that only the properties read.

*Query.* One `execute_query` is several steps, because another writer may commit
between any two of its calls. `StartQuery` is everything before the calls: the
offset from page and size or from the SQL, the lookups in both caches (which may
remove expired entries), the cursor to start after and how many rows to skip,
and whether a COUNT is needed. `FetchData` and `FetchCount` are the two calls,
in either order. `AnswerQuery` is everything behind them: the total, the merge
of the page's closing cursor into the entry, both inserts, the reply. `FailQuery`
is the error path. A document is an id and a rank; a filter is the set of ranks
it lets through; a query orders by id or by rank, and ranks may tie.

*Writes.* Every call to the database is one step with one of three outcomes:
`ok`, `failed` (nothing happened), `lost` (it happened and the answer did not
arrive). `rename_document` is get, existence check, create, delete, and the
guards between them; the check that fails goes on to the create as the code
does. A handler whose last call was confirmed drops the caches of the table and
answers; the error paths answer without dropping them. Rejections (missing
parameters, a field that cannot be coerced) are `RejectWrite`, and `RejectQuery`
for a query that does not parse or breaks a filter rule.

*Schema.* A document is a function from its fields to their types (and, for a
reference, the collection it points to); a settings record carries what the two
candidate files for each database hold: nothing, an invalid file, or a file.
`initialize` fails before it sets anything. The snapshot and the batch keep their
tables as a sequence and the places in it that are still `pending`, of which the first
`Width` are under way; any of these may come back next, with any sample of the table
as it is then, or fail and count as empty (`unwrap_or_default`).

*Queries.* A text is a sequence of characters; letters that stay together (a
keyword, a field's name) are one character. `Tokenize` and `Parse` read from the left as the
code does, each production answering what it read and where it stopped, or
`Fail`; `Readings` and `Statements` say the same by cutting the text in every
possible way and giving each part its meanings, so that
they never read past anything. The grammar of `Statements` is that of the head of `query_parser.rs`, `README.md:57`
and the Phase 2 notes, with two differences to the parser that are kept apart and not smoothed over: NOT
before any condition is in the grammar (`Negates`, a `Node` that no `ParsedQuery` can hold), and a text whose
clauses stand in another order than the head gives, or twice, is marked as not `documented`. A filter is a tree of up to `MaxDepth` levels; `Rewrite` and
`Canonical` walk it, `Valid` looks at its conditions wherever they are placed, and `Built` is what one
of them is sent as. A key is a sequence of pieces of text; how a number is written in it is the
parameter `Decimal`. `QuerySession` takes as `Read` what the parser makes of a text and as `Means` what
a text means, so that it can be reasoned about without their recursion: `QueryReading`
has both, and the runs give `Read` and `Means` their values (`Parse`, `Meanings`). That the parser gives
nothing but a `ParsedQuery` or an error (`ReadAssumption`) is checked of every text. `Answer` of `QuerySession` composes them in the order of
`execute_query` (rewritten, then validated, then the key taken from the rewritten
filter), over a few documents and with one remembered count; `Explain` does so
for `explain_query`, which takes the LIMIT of the text, and neither its OFFSET nor a default. Numbers
have `Width` bits and wrap where the code computes an offset; limits and offsets
lose bits on their way to Firestore, `as u32` the one and `min(u32::MAX)` the
other. The same handler
is modelled twice, from two sides: `ExecuteQuery` has its calls, caches and
other writers and takes filters as sets of ranks; `QuerySession` has its texts
and filters, and documents that stand still.

*Request loop.* A line is blank, not UTF-8, not JSON, JSON that is no object, or an
object with or without an id. The loop of `main.rs` is `Skip`, `ReadLine`, `Stop` and
`WriteReply`; between reading and writing, `hand` says how far the handler is:
`parsed`, `resolve` (it has a database and wants a client), `call`, `done`. Methods
that do the same to settings and clients are one (`call` for the thirteen that resolve a
client for their schema, `listing`, `fixed`). The host may close either pipe at any
time; a write to a closed stdout may fail at once or only later. What a handler
does with its client is in the other modules.

*Cells.* A value is a pair of Firestore's type and a content; the JSON of a cell is
one of JSON's kinds; a text is told by what it spells (an instant, bytes, a path,
JSON, or a word), in the plugin's own spelling or another, because
coercion decides by what a text parses as. `Show` puts a cell on the screen as
`execute_query` gives it, with the columns cached or those of the page; `SaveAsShown`,
`SaveTyped` and `Insert` are `update_record` and `insert_record` with their hints;
`Learn` is `get_columns` with any sample. What Firestore takes is `Storable`. Saves of a
cell as it stands are not bounded, since they are what may never settle. `serialize_value`
and `json_to_proto` call themselves on what is inside an array or a map; in the model
that is `SerializeInner`, `UnhintedInner` and `StorableInner`, which `ValuesAssumption` and
`JsonsAssumption` require to agree with `SerializeValue`, `Unhinted` and `Storable` on every
value and all JSON there is, so that they are those functions. `Values` and `Jsons` are any
sets closed under showing, saving and looking inside; `MCCells` computes the least that
contain what its documents and users begin with, and TLC checks both assumptions of them.

A definition whose comment begins with "The slip" is how the operator below it
could have been written wrongly. Nothing uses it: it is put in that operator's
place to see that the property named in `PROJECT.json` notices.

## 3. The runs

| Run | Instance | Distinct states | Shows |
|---|---|---|---|
| `cache` | 3 keys, 2 values, capacity 2, time to live 1, clock to 3 | 56,110 | the invariants of the cache and that it implements `LossyTtlMap` |
| `paging` | 1 collection of up to 3 documents, ranks 1..3, 2 queries, 5 pagings, both capacities 1, time to live 1, clock to 2, one change by another writer | 776,521 | `CountsExact`, `CursorsExact`, `PagesExact`, `ErrorsCacheNothing`, `TypeOK` |
| `crud` | 2 collections, insert with and without an id, update, delete, three renames (one onto itself, one onto a document that exists), outcomes ok/failed/lost, two changes, room for two counts and for the cursors of one query | 390,117 | `ReadYourWrites`, `DoneWritesStand`, `RenameLosesNothing`, `CreatesNeverOverwrite`, `EveryRequestAnswered` |
| `schema` | 2 databases, 2 tables, 3 documents, files good/invalid/missing/no directory, samples of 1, 2 under way, batches that name a table twice | 32,718 | what `SCHEMA_CACHE`, the host and the file say of columns agrees; `EveryRequestAnswered` |
| `queries` | 13 texts of up to 30 characters, every text that differs from one of them by a character dropped, put in (of 18), replaced or swapped with its neighbour; 4 pagings, 5 documents | 61,282 | `ReadsItsSpelling`, `ReadsItsGrammar`, `AnswersItsText`, `OrderDoesNotMatter` |
| `rpc` | 15 lines: one of each form, four setups (two projects, an empty one, a bad file), requests with an id, with null and without; 3 lines sent, both pipes closed at any time | 141,808 | `FirstAcceptedRules`, `ClientsSpeakToOneProject`, `PingVouchesForDefault`, and that the loop implements `SerialServer` |
| `cells` | a field that takes 23 values (each type, nested arrays and maps, strings that spell something else, three of them deep), 2 documents, 2 files, 4 values typed, one change besides saves as shown | 376,010 | `OneCellAtATime`, `ShowsWhatWasTyped`, `UneditedKeptIffSurvives`, `SavesSettle` |
| the five others | small | stop at the counterexample | where a comment or a document says otherwise than the code, see section 5 |

What the properties mean is stated above each of them in its module. The central
ones of `Plugin`:

- `PagesExact`. A page may be read from the start with an offset, from the
  cursor of its own offset, or from the cursor of an earlier offset with the rest
  skipped, and each page leaves a cursor that later ones build on. Whatever the
  chain, whatever expired or was evicted on the way, the rows are those that
  OFFSET and LIMIT give, if nobody wrote since the oldest link of the chain
  was read (a cursor carries the version it stems from) and the order has no ties.
- `CountsExact`, `CursorsExact`. What is cached is true of the version it was
  read at, though data and COUNT of one request may be of different versions.
- `ReadYourWrites`. Nothing cached, being cached, or answered predates a
  write the plugin has reported done.
- `RenameLosesNothing`, `CreatesNeverOverwrite`, `DoneWritesStand`. What each of
  the four calls of a rename and each other write may do to documents, with
  failures and lost answers; the first and the last as long as no other writer
  interferes, the second whoever interferes.

Those of `QuerySession` compare the whole chain with definitions that do not use
it:

- `ReadsItsSpelling`. The tokenizer cuts a text where its spelling says, strings with
  quotes and backslashes in them above all, and there is never a second way.
- `ReadsItsGrammar`. The parser takes a text for what it means if a `ParsedQuery` can say that, and
  refuses it else; no text has two meanings. Two things the documents and the code disagree on are visible
  in its definitions and are not decided here: a text that *negates* a filter has a meaning, which `Sayable`
  leaves out, so all that is shown is that it is refused and never taken for another; and a text whose *clauses*
  stand in another order or twice is compared with the meaning in which the last of each kind counts. That
  reading is the parser's own. It is in no document but for the outer clauses of a subquery
  (`query_parser.rs:350-354`) and for LIMIT and OFFSET, which a test has in either order. `ReadsDocumentedGrammar`
  (section 5) is the property without either allowance, and fails.
- `AnswersItsText`. Whatever was asked before, the reply is an error exactly
  when the text has no meaning that can be said or breaks a restriction, and else the number
  of rows and the total that the documents *as the grid shows them* have: the id
  is a string column there, a reference to `__name__` on the wire. The window is not the code's but the
  Phase 2 notes' (`AskedOffset`, `Limit`): the host's page and size, else OFFSET and LIMIT of the text, else
  0 and the default. A plan that was run reports the rows that running the text gives. Where the code departs from
  that window nothing is shown, and the property names it: `PageOneAtText`, the host's page one of a text
  with an OFFSET; `ExplainedApart`, a plan for a text with an OFFSET, or without LIMIT and with more rows than
  the default. `WindowAsDesigned` (section 5) is the property of rows without these exceptions, and fails.
  An order by id is left to `IdOrderKeepsRows`. Windows that do not fit the bits they travel in
  are left out, as nothing says what they should give.
- `OrderDoesNotMatter`. Reordering terms or list values at any depth keeps the key.

Of `RpcLoop`, the refinement says what a host sees; the invariants what the cells of
`state.rs` hold among themselves. `initialize` writes two cells that can be set once, after
a step that may fail, and answers success whether or not it set them: the settings are
nevertheless those of the first that was accepted, and no client is of another project.

Of `Cells`:

- `UneditedKeptIffSurvives`. The users' most frequent edit changes nothing, and
  coercion is to keep it so. The property says for each value and each type the
  column may be taken for whether it does: exactly then. Where it does
  not (an instant in a string column of a file that says timestamp, a geopoint
  anywhere, an array in an inferred column) is part of the statement.
- `SavesSettle`. Saving a cell over and over stops changing it after two saves, and no text
  grows by being quoted again. A string that spells JSON in a column of arrays or maps is
  the exception: each save takes off one layer of it (`coercion.rs:67`), as many as there are,
  and the two saves count from the last of them (`Unfolding`).
- `ShowsWhatWasTyped`, `OneCellAtATime`. The grid shows again what was typed; other cells
  stay as other writers left them.

### Bounds, and why they suffice

`MaxTime`, `MaxVersion` and `MaxSize` bound the clock, the number of changes to a
collection and the documents of a table; `Ids` and the documents are finite
sets. The phenomena need few of each. Capacity 1 with two queries makes every
second query evict; with capacity 2 and three keys it matters which
of the two cached keys came first. A time to live of 1 under a clock to 2 (3 in `cache`) has fresh
entries, entries at the edge and expired ones, including one that expires
between the lookup and the merge of one request. Three documents and pages of
one row reach the third page over a chain of two cursors; size 2 beside size 1
mixes offsets and skips. One foreign change is enough for each property about
pages, since each speaks of two moments; the writes need two, one of the
plugin's and one other. In `crud` the clock stands still, because expiry only
removes what might be stale, and `paging` has it; requests find counts there and do not, and
the cursors of one collection push out those of the other, which is all that progress depends on. In `schema` one table of
one database is written to and inserted into; the other database has no file of
its own. `Width` is 2 where the code has 8, and a batch of three tables exceeds
it. In `queries` the texts use every production and every way to write a token between
them; numbers have 4 bits, limits and offsets 3, lists 2 values, and a query without a
limit gets 7, where the code has 64, 32, 30 and 100. A page of 8 rows no longer fits
its 3 bits, the offset of page three at that size wraps to 0, and 9 is
the upper half of the numbers. A slip gives a list a
third value, a filter a second ARRAY_CONTAINS, an inequality a second field, a NOT
its IN, a string an escape. One change (`MaxChanges`) is enough to ask a text and then
another that shares its key or must not. In `rpc` three lines (`MaxLines`) hold an initialize,
another, and a request between or behind them, while the host hangs up. In `cells` one
change besides the saves makes the column's type older than the cell, or newer; two
documents are one that is sampled and one that is not.

### Fairness

`Plugin` assumes `WF(QueryStep)` and `WF(WriteStep)`, `SchemaCache` `WF(Step)`: a
request in hand goes on. `RpcLoop` assumes `WF(Loop)`, the same for the loop around
them, and shows with it that every line is come to. `main.rs` awaits each handler to its end and there is
nothing else it could run; that a call *ends* is tonic's, which answers or
reports an error. The code has no time limit of its own, so without that assumption
one call that hangs blocks the plugin for good; it is listed as a hazard. No
fairness is assumed of the host, the other writers or the clock, and none is
needed. `CHECK_DEADLOCK FALSE` is set for `rpc` alone, whose process really stops at the
end of its input; elsewhere a host can always send something.

`MCDocumented` uses `PromptSpec`, in which the clock only moves between requests.
It restricts the behaviours, so each counterexample found under it is one of
`Spec`, and it excludes the uninteresting counterexample in which a call just
took long.

## 4. What is proved

For every set of keys, values, tables, ids, ranks, queries, pagings and
commands, every capacity of at least one, every time to live and every bound,
under the assumptions named in the modules (`CapacityAssumption`,
`TtlsAssumption`, `IdsAssumption`, ...; ids and ranks are naturals, the set of ids is
finite, a query names a table of the set).

**The cache** (`TtlLruCacheProofs`). `Typing`, `CapacityBound`, `OrderAgreement`,
`Retention`, and `Refinement`: the cache implements `LossyTtlMap`.
The invariant is that a cache value is *well formed*: the order is a sequence
without repetition whose elements are exactly the cached keys. The capacity
alone is not inductive: that the eviction loop makes room depends on the
order listing what the map holds, for a front that is not in the map frees
nothing. Retention strengthens this with the history: whatever is behind a key in the
order entered after it. The lemmas on sequences (what dropping a
position, joining halves and appending do to repetition and membership) come
first, then one lemma per operation, then one per action.

**The plugin** (`PluginProofs`). `IInv` is the conjunction of

- `TypedState`, the types the steps need;
- `CacheInv`, of what is cached *and of what the request in hand has already
  read*: it is no older than the last write reported done, and what carries the
  present version is exact. That half of the state is needed because a
  request caches at its end what it read in its middle;
- `WriteInv`, of a write in hand, stage by stage: what the source held when it was
  read is under one id or the other.

Each action has a lemma `...Step == IInv /\ action => IInv'`; `NextInv` puts them
together and `Invariant` is `Spec => []IInv`. From it follow `ReadYourWritesHolds`,
`CountsExactHolds`, `DoneWritesStandHolds`, `RenameLosesNothingHolds`, and, of
steps, `CreatesNeverOverwriteHolds`. `CursorForFacts` (that the cursor chosen is of
the greatest offset not past the wanted one) needs a greatest element of a set of
naturals; it is obtained from well-foundedness by `WFMin`, since the induction
theorems of the library take an operator.

**The request loop** (`RpcLoopProofs`). For every sequence of lines, and every set of
projects, databases and error texts: `Typing`, which follows a line stage by stage
(what is known of it once it is parsed, has a database, has a client);
`FirstAcceptedRulesHolds` and `ClientsSpeakToOneProjectHolds`, which are inductive over it;
`PingVouchesForDefaultHolds`, which is not: it speaks of the answer alone, and needs
`ProbesDefault`, that a ping in the making asks for the database of the settings and
has a client for it by the time it calls. `ImplementsSerialServerSafely` maps the loop to
`SerialServer`: reading, dispatching and calling are stutters, an answer written is the
server's answer to the first request not yet answered. The other half, that every request
is answered while the host reads, TLC checks (`ImplementsSerialServer` has both).

**The schema cache** (`SchemaCacheProofs`). For any databases, tables (finitely many),
documents, files and lists of tables, any sample size and any number of samples
under way. First what the operators of `SchemaInfer` return (`ClassifyType`, `InferType`,
`ApplyType`: well-typed columns, none of them required unless the file says so, but for
the id). `Inv` then adds to the checked properties

- `NothingBeforeInitialize`: without settings the cache is empty and nothing is under way,
  so overrides never change under columns that were made without them;
- `CacheAsTold`: what the host was told of a table is what is cached now. `RowsMatchTold`
  is about the rows alone and says nothing until a query runs;
- `FetchRequest`: each table of a list is cached, fetched or pending, what was
  found cached when the request began is cached still, and a batch fetches only what is not.

`QuietStep` does the actions that leave the cache alone, `LearningStep` the two that
add to it. From `Inv` follow `Typing`, `OverridesFollowSettings`, `RowsFollowColumns`,
`RefusalsAreDeclared` and `AnswersAreComplete`, and, of steps, `CacheStays`. The proof
assumes of files what `validate` checks (`SetupsAssumption`) and that a
reference points into a table of the set (`DocumentsAssumption`).

**Paging** (`PagingProofs`). That a page is the same by whichever way it was
reached is a fact about orders first and about the plugin second.

The lemmas on rows are the first half, for any finite collection and any query. The order of a
query is a strict total one (`NotBeforeItself`, `BeforeTransitive`, `BeforeTotal`), so a
document's place, the number of documents before it, is its own (`PlacesDiffer`) and every
place below their number is taken (`PlacesTaken`: an injection between finite sets of one size);
that is what makes `Rows`, which chooses at each place the document that has it, list each
document once (`RowsType`, `RowAtPlace`). Without ties, what start_after the document of row
`o` leaves is as many rows fewer (`RowsBehindCount`), each of them `o` rows further up
(`RowsBehind`). `CursorPageIsOffsetPage` concludes: after the cursor of row `o`, skipping
`skip`, a page is the page of OFFSET `o + skip`.

The second is an invariant beside `IInv`, `PlacesInv`:

- `CursorsPlaced`: a cursor cached for an offset, if it stems from the collection's present
  version and nothing ties, *is* the document of that row. `CursorsExact` says this;
- `QueryPlaced`: the cursor a request has taken stands at the request's offset less what is
  still to be skipped, though its cache entry may have gone meanwhile, and once the data
  are there they are the page of the offset. Without it `PagesExact` is not inductive: the
  answer is made from `req`, and neither cache nor reply says where `req.cursor` stood;
- `PagePlaced`: the page answered, which is `PagesExact`;
- `BoundsInv` and `CountsTyped`, which complete `TypeOK`.

A request carries the version of the *oldest* link of its chain, so that every
writer's step makes these statements vacuous or leaves the collection as it is (`Forward`,
`CursorStays`, `PageStays`). `StartQueryKeeps`, `FetchDataKeeps` and `AnswerQueryKeeps` are the
steps that matter: a cursor looked up, a page read from it (`FetchedPage`), and the cursor that
closes the page (`LastRowStands`: page of offset `n` with `k` rows ends at row `n + k`). From `Invariant`
and `PlacesInv` follow `TypeCorrect`, `CursorsExactHolds` and `PagesExactHolds`;
`ErrorsCacheNothingHolds` looks at the steps that end in an error. These proofs
need that `None` is neither a number nor a cursor (`NoneAssumption`).

**Cells** (`CellsProofs`). For values and JSON nested to any depth, any texts, fields, documents,
files and samples. That arrays contain arrays does not call for induction: what a save makes of a
value, and whether it is the same, is decided by the value and the kinds of what is
directly inside it, because everything inside an array or map reaches the cell as one
text. `Again` is what a save as shown makes of a value; `RoundTrip` proves
`Again(v, hint) = v <=> Survives(v, hint)` by the kind of `v`, numbers, stamps (instants, bytes,
references), strings and nested ones apart, and `TypedShownAgain` the way from JSON
to a value and back. The direction that finds *no* other survivors needs that a piece of JSON
is not itself the text that spells it (`IsJson`), which is true of finite texts.

`UneditedIsKeptIffItSurvives`, `TypedIsShownAgain` and `EditsStayInTheirCell` are about one step and
need `Typing` only, that every value stored is one of `Values` that Firestore takes and every
cell shown is one of `Jsons`. `SavingSettles` is about many and needs an invariant of
its own, `StreakSettles`: while a cell is being saved as it stands, what it holds is one save
from standing, and after two it stands. `SettlesInTwo` proves that by kind again: a geopoint becomes
a map, the map a text, or in a column of maps a map whose text is read back;
NaN becomes null; an instant in a column of strings its text. The attempt to
prove it for all values showed that an earlier form, two saves for any text within text, held
of the instance only, whose texts were two deep; with one three deep TLC found the third save,
and the property now says what the code does.

`SchemaInferProofs` holds the lemmas on inference and overrides that this proof (the hints
are types that are reported) and that of the schema cache share.

**Queries** (`QuerySessionProofs`). For filters of any depth, any texts, documents, windows and
widths, whatever the parser is, as long as it gives a `ParsedQuery` or an error. Filters are
built up in `MaxDepth` levels, so that each of the functions on them is a well-defined one
(`RewriteDef`, `CanonicalDef`, `MatchedDef`, ...: there is one for each level), and what
holds of all filters is shown level by level (`FilterInduction`, `LayerInduction`): an induction over the depth
whose statement is a set, obtained from the least level at which it would fail (`CountingUp`). There are four parts.

*The order of terms.* `OneKeyForAllOrders`: each reordering of a filter, of terms and of
lists at any depth, has the filter's key. Two reorderings share their rearrangements (`ShuffledFacts`), of
which the key takes the sorted one (`SortedSame`). There is one and no other (`SortedIsTheOneInOrder`), so that
choosing it is sorting: the order of texts is strict and total, as it compares behind the longest common
beginning (`BeforeTransitive`, `BeforeTotal`), and two arrangements that part would hold a text a different
number of times.
Rewriting a reordered filter reorders the rewritten one (`PromotedShuffled`, `RewrittenBranch`).
`OrderDoesNotMatterHolds` is that for every text of a session.

*What is accepted, and what it finds.* `AcceptedIffLegal`: `validate` and Firestore take
the rewritten filter exactly if what was typed breaks no restriction. The restrictions are pairs of
conditions at two places, the code keeps sets and counts; so the proof goes over
cardinalities, and over the fact that rewriting keeps the places (`PlacedRewritten`).
`LegalMatchesRows`: the documents matched on the wire are those for whose rows the filter as typed
holds, by levels again, down to a condition on the id, which is a string in the row and
a reference on the wire. It needs what `DocsAssumption` says, that no array hides
behind the column of the id, since an ARRAY_CONTAINS on `id` is sent unrewritten.

*Keys that differ.* `KeysTellApart`: filters with one key match the same documents, if their names have
no blanks, their strings no quotes, and instants and ids none of `,` `]` `)`. A key is read from the left:
`Reads(w, a, x, r)` says that `w` begins with `a`, then `x`, and goes on with `r`, and a lemma
for each kind of part says that two readings of the same text agree on it (`LiteralRead`, `LeafRead`,
`ListRead`, `WithinRead`). Lists and terms are sorted, so all that follows is that both have the same members
(`SameMembers`), and that is enough, as AND, OR and IN ask for no more. `Tells` is the statement
on two filters with anything behind them, and goes up by levels. The condition on
the parts (`Plain`) is a real one: nothing in the code ensures it (`query.rs:742` is a hazard for that reason).

*The answers.* `AnswersFollowReadings` is `AnswersItsText` under two hypotheses that it names. `KeysTellTextsApart`:
no two texts that ask for different documents share a key; `PlainTextsKeyApart` derives it for plain
texts from `KeysTellApart`. `[]ReadsItsGrammar`: the parser takes each text for what it means, which TLC
checks. The invariant `AnswerInv` adds that a cached count is that of some text that has the cached key
(`CountInv`), and that the text at hand means what was read (`MeaningInv`, of the meanings in `Sayable`), as `ReadsItsGrammar` speaks only of
texts not yet answered. That a window which fits its bits arrives as the notes have it, whatever the widths and outside
`PageOneAtText`, is `WindowFacts`; the rest is the second part.

**Only model-checked.** Liveness (`EveryRequestAnswered`, and the half of
`ImplementsSerialServer` that says every request is answered), which is out of the prover's
reach; and `ReadsItsSpelling` and `ReadsItsGrammar`: tokenizer, parser and grammar are recursive
operators, and what they compute of every text is an induction over texts, for which the library's theorems
take an operator.

## 5. Where the code differs from what is said of it

Each is a run that TLC finds violated, with the trace; `findings` quotes the lines.

1. `TotalKeptOnLaterPages`: a page behind the first, without a cached count,
   reports the number of its rows as the total.
2. `PagesExactWithTies`: a cursor carries the ordered value and not the document, so
   rows that tie with the last one of a page are skipped by the next.
3. `IdOrderKeepsRows`: a filter on the id column is rewritten to `__name__`, an order by
   it is not; Firestore leaves out documents that lack the ordered field, so a grid
   sorted by its id column is empty, under a total that counts the documents.
4. `ReadsDocumentedGrammar`: the head of `query_parser.rs` ("WHERE supports AND/OR/NOT"), `README.md:57` and the
   Phase 2 notes ("NOT > AND > OR") have NOT in the grammar, `docs/ROADMAP.md:19` and the parser's own error
   text NOT IN alone. In the trace a user puts NOT before a condition; the parser refuses the text. The property
   also fails, without NOT, on clauses in another order or repeated, which the head's grammar does not have
   and the parser takes, the last of each kind counting.
5. `WindowAsDesigned`: the Phase 2 notes (lines 160-168) have the host's page before the text's OFFSET. In the trace
   the host asks for page one, of two rows, of `LIMIT 2 OFFSET 4` and is given the fifth document; its page two
   begins at the third. The total of that page one is the number of its rows, as no COUNT runs beside a window that
   does not begin at 0. The property also fails, with `Pagings` that ask for nothing, on
   `explain_query`: by the notes (line 303) it explains the query that `execute_query` would run, and it leaves out
   OFFSET (`handlers/query.rs:525-539`), as well as the limit of 100 of a text without LIMIT.

Some divergences are in the models and `hazards` and have no run of their own: a page
served from the cached count stores it again, so its 30 seconds begin anew; a
rename whose delete failed keeps the caches; rows queried before any metadata
request show columns the file hides; an insert before any metadata request is not checked for
required fields, where `README.md:60` claims a pre-insert check; the file of the configured database
is applied to all others; a whole number from
2^63 becomes a rounded double where a comment announces text (`coercion.rs:37`); inference calls a column of
arrays or maps `json`, coercion parses text for `array` and `map` only, so that saving such a cell as the grid
shows it stores a string, where `coercion.rs:3-9` calls itself the inverse of `serialize_value`
(`UneditedKeptIffSurvives` says of every value and every type of a column whether it survives).

## 6. Limits of the models

- `CountKey` and `QueryKey` of `PluginState` are injective. In the code they contain a
  canonical form of the filter (`handlers/query.rs:693`), of which `KeysTellApart` proves that for names
  without blanks, strings without quotes, and ids and instants without `,` `]` `)`. It is not so of all: the
  form puts quotes around a string and leaves those inside it alone, so that IN with
  the one string `a','b` has the key of IN with `a` and `b`. The texts of `queries` do hold
  quotes and blanks; none of them has the key of another that asks for different documents.
- `QuerySession` bounds the depth of filters by `MaxDepth`, the code by its stack. The proofs hold
  for every bound; the texts that are checked stay within 3.
- The whole numbers of a text are any set of integers (`Wholes`) that are written differently
  (`DecimalAssumption`); a float has its whole part and the digits behind the dot, as `{:?}` writes it while
  it needs no exponent.
- Tokens do not tell a quoted name from a bare word, in the code as in the model. A column called NOT
  can therefore be asked about with IN only; elsewhere its name negates, in the grammar too.
- Keywords are one character each and upper case; other ways to spell them, and letters that
  run together into one, are left out. What
  else Firestore may refuse in a filter than what is said in `Refused` is left out, and what
  it does with a limit whose upper bit is set.
- A filter lets through a set of ranks: equality and IN. How Firestore orders
  the result of an inequality without ORDER BY cannot be read off the source.
- `ExecuteQuery` counts pages without a bound; that `(page - 1) * limit` wraps, and
  what the narrowing to 32 bits does, is in `QuerySession`.
- In `RpcLoop` a call is one step that ends in an error text or not; of Firestore's errors
  the names they contain and whether they carry a link. `CLIENTS` is built under no race, as requests
  are sequential; the comment at `state.rs:31` speaks of concurrent callers.
- In `Cells` the host sends a cell as JSON of the kind it was shown in; what else a grid's
  editor may make of it is among the values typed. Numbers are names: rounding of doubles is left out.
- In `SchemaCache` a create that took effect without an answer is not
  distinguished from another client's write, and a batch of no tables before
  `initialize` is left out. Column order, comments and raw type names are layout.
- Two equal documents of a table are one element of its set; a sample of
  `SampleSize` of them may therefore be smaller than in the database.

Not modelled, as it keeps no state or decides nothing: the wording of errors, the
layout of plans and columns, connection options other than project and database
(`client.rs:25-46`) and the defaults of optional settings, the helpers of `utils/` that
nothing calls, and the test client.

## 7. Plan

Done, in this order: the cache and its promise; the caches of `state.rs` and the
query handler; the write handlers; the composition and its runs; the
proofs of the cache and of the plugin; inference, overrides and `SCHEMA_CACHE`;
parser, filters and keys; cells and coercion; the request loop, clients and the serial
server, with proofs; characters, windows in bounded width and plans; the proofs of `SCHEMA_CACHE`;
the proofs of paging, over lemmas on ordered enumerations; cells without recursion, with proofs;
filters without recursive operators, with the proofs of their keys, their rules and the answers to them.

To come, most important first:

1. The calls of `RpcLoop` replaced by the handlers of `Plugin` and `SchemaCache`, which would
   show in one composition that an initialize between them leaves the caches right.
2. What a page holds when rows tie: `PlacesInv` excludes ties, as cursors carry the ordered value
   alone (section 5); that a page then misses rows and never repeats one is a conjecture.

A smaller counterexample run gives way where one of these needs its place.
