------------------------------ MODULE RpcLoop -------------------------------
(***************************************************************************)
(* The process around the handlers: the loop of src/src/main.rs, the       *)
(* dispatch of rpc.rs, initialize, ping and test_connection, the client    *)
(* each handler asks client.rs and state.rs for, and the error it answers  *)
(* when Firestore reports one (firestore_error.rs).  What handlers do with *)
(* the client is the business of Plugin and SchemaCache: here a method is  *)
(*                                                                         *)
(*   "initialize", "ping", "test_connection", or                           *)
(*   "call"     any other that resolves a client for its schema,           *)
(*   "listing"  get_databases, list_databases, get_schemas,                *)
(*   "fixed"    always the same answer, or none implemented.               *)
(***************************************************************************)
EXTENDS Naturals, Sequences

CONSTANTS
  None,
  Null,       \* the id null, which is an id like another
  Ids,        \* ids of requests, Null perhaps among them
  Projects,   \* project ids, NoProject perhaps among them
  NoProject,  \* the empty text
  Databases,
  Lines,      \* what the host writes
  ErrorTexts, \* what errors of Firestore say: [names, link]
  MaxLines    \* bound on the lines sent

Tokens == {"FAILED_PRECONDITION", "UNAUTHENTICATED", "PERMISSION_DENIED", "NOT_FOUND",
           "RESOURCE_EXHAUSTED", "DEADLINE_EXCEEDED", "UNAVAILABLE"}

Setups == [project : Projects, database : Databases, fileOk : BOOLEAN]

\* A line is blank, not UTF-8, not JSON ("garbled"), JSON but no object, or an
\* object; an object without an id is a notification.
AllLines ==
  [form : {"blank", "undecodable", "garbled", "foreign"}]
  \cup [form : {"object"}, id : Ids \cup {None}, method : {"initialize"}, setup : Setups]
  \cup [form : {"object"}, id : Ids \cup {None}, method : {"call"}, schema : Databases \cup {None}]
  \cup [form : {"object"}, id : Ids \cup {None},
        method : {"ping", "test_connection", "listing", "fixed"}]

\* An answer, and a line in hand with how far its handler is.
Codes == {0, 32700, 32601, 32602, 32603}
Replies == [code : Codes, link : BOOLEAN]
Stages == {"parsed", "resolve", "call", "done"}
Hands == [line : Lines, stage : Stages, target : Databases \cup {None},
          reply : Replies \cup {None}]

ASSUME LinesAssumption == Lines \subseteq AllLines
ASSUME NoneAssumption ==
  /\ None \notin Ids \cup Databases /\ None \notin Setups
  /\ None \notin Replies /\ None \notin Hands
ASSUME TextsAssumption == ErrorTexts \subseteq [names : SUBSET Tokens, link : BOOLEAN]
ASSUME MaxLinesAssumption == MaxLines \in Nat

VARIABLES
  inbox,      \* lines in the pipe
  sent,       \* how many were sent
  stdin,      \* "open" until the host closes it
  stdout,
  running,
  hand,       \* the line in hand: [line, stage, target, reply]
  settings,   \* SETTINGS, None until set
  clients,    \* CLIENTS: database -> the project its client is for
  out,        \* the answers written: [id, code, link], code 0 is a result
  took        \* history: the setups of initializes that were accepted

vars == <<inbox, sent, stdin, stdout, running, hand, settings, clients, out, took>>

Init ==
  /\ inbox = <<>> /\ sent = 0 /\ stdin = "open" /\ stdout = "open"
  /\ running = TRUE /\ hand = None
  /\ settings = None /\ clients = [d \in {} |-> None]
  /\ out = <<>> /\ took = <<>>
-----------------------------------------------------------------------------
(* Answers.  The codes are those of JSON-RPC, without their sign.          *)

Ok == [code |-> 0, link |-> FALSE]
Fault(code) == [code |-> code, link |-> FALSE]
ParseError == Fault(32700)
NotImplemented == Fault(32601)
InvalidParams == Fault(32602)
Internal == Fault(32603)

\* classify: the first of these names that the text contains.
Classify(names) ==
  CASE "FAILED_PRECONDITION" \in names -> "FAILED_PRECONDITION"
    [] "FAILED_PRECONDITION" \notin names /\ "UNAUTHENTICATED" \in names -> "UNAUTHENTICATED"
    [] names \cap {"FAILED_PRECONDITION", "UNAUTHENTICATED"} = {}
       /\ "PERMISSION_DENIED" \in names -> "PERMISSION_DENIED"
    [] names \cap {"FAILED_PRECONDITION", "UNAUTHENTICATED", "PERMISSION_DENIED"} = {}
       /\ "NOT_FOUND" \in names -> "NOT_FOUND"
    [] OTHER -> "transient or other"

\* map_message: a link to the index that is missing goes along as data; what
\* the user can mend is reported as a wrong parameter.
MapError(text) ==
  LET kind == Classify(text.names)
  IN IF kind = "FAILED_PRECONDITION" /\ text.link THEN [code |-> Internal.code, link |-> TRUE]
     ELSE IF kind \in {"UNAUTHENTICATED", "PERMISSION_DENIED", "NOT_FOUND"} THEN InvalidParams
     ELSE Internal

Asks(l) == l.form = "garbled" \/ (l.form = "object" /\ l.id # None)
ReplyId(l) == IF l.form = "object" THEN l.id ELSE Null
-----------------------------------------------------------------------------
(* The host.                                                               *)

Send(l) ==
  /\ running /\ stdin = "open" /\ sent < MaxLines
  /\ inbox' = Append(inbox, l)
  /\ sent' = sent + 1
  /\ UNCHANGED <<stdin, stdout, running, hand, settings, clients, out, took>>

HangUp ==
  /\ \/ stdin = "open" /\ stdin' = "closed" /\ stdout' = stdout
     \/ stdout = "open" /\ stdout' = "closed" /\ stdin' = stdin
  /\ UNCHANGED <<inbox, sent, running, hand, settings, clients, out, took>>
-----------------------------------------------------------------------------
(* The loop of main.rs.                                                    *)

\* The slip takes a line that does not parse for one that says nothing.
SkipGarbled ==
  /\ running /\ hand = None /\ inbox # <<>> /\ Head(inbox).form \in {"blank", "garbled"}
  /\ inbox' = Tail(inbox)
  /\ UNCHANGED <<sent, stdin, stdout, running, hand, settings, clients, out, took>>
Skip ==
  /\ running /\ hand = None /\ inbox # <<>> /\ Head(inbox).form = "blank"
  /\ inbox' = Tail(inbox)
  /\ UNCHANGED <<sent, stdin, stdout, running, hand, settings, clients, out, took>>

ReadLine ==
  /\ running /\ hand = None /\ inbox # <<>>
  /\ Head(inbox).form \notin {"blank", "undecodable"}
  /\ inbox' = Tail(inbox)
  /\ hand' = [line |-> Head(inbox), stage |-> "parsed", target |-> None, reply |-> None]
  /\ UNCHANGED <<sent, stdin, stdout, running, settings, clients, out, took>>

\* next_line answers an error at a line that is not UTF-8, and None at the end.
Stop ==
  /\ running /\ hand = None
  /\ \/ inbox # <<>> /\ Head(inbox).form = "undecodable"
     \/ inbox = <<>> /\ stdin = "closed"
  /\ running' = FALSE
  /\ UNCHANGED <<inbox, sent, stdin, stdout, hand, settings, clients, out, took>>

At(stage) == running /\ hand # None /\ hand.stage = stage

\* The slip answers notifications too.
WriteEveryReply ==
  /\ At("done") /\ stdout = "open"
  /\ out' = Append(out, [id |-> ReplyId(hand.line), code |-> hand.reply.code,
                         link |-> hand.reply.link])
  /\ hand' = None
  /\ UNCHANGED <<inbox, sent, stdin, stdout, running, settings, clients, took>>
\* Nobody reads stdout any more: the write fails, or only a later one does.
WriteReply ==
  /\ At("done")
  /\ \/ /\ Asks(hand.line) /\ stdout = "open"
        /\ out' = Append(out, [id |-> ReplyId(hand.line), code |-> hand.reply.code,
                               link |-> hand.reply.link])
        /\ hand' = None
        /\ UNCHANGED running
     \/ /\ Asks(hand.line) /\ stdout = "closed"
        /\ \/ running' = FALSE /\ UNCHANGED hand
           \/ hand' = None /\ UNCHANGED running
        /\ UNCHANGED out
     \/ /\ ~Asks(hand.line)
        /\ hand' = None
        /\ UNCHANGED <<out, running>>
  /\ UNCHANGED <<inbox, sent, stdin, stdout, settings, clients, took>>
-----------------------------------------------------------------------------
(* Dispatch, and the handlers that answer without a client.                *)

Method(m) == At("parsed") /\ hand.line.form = "object" /\ hand.line.method = m

Reply(r) == hand' = [hand EXCEPT !.stage = "done", !.reply = r]
GoFor(database) == hand' = [hand EXCEPT !.stage = "resolve", !.target = database]

Rest == UNCHANGED <<inbox, sent, stdin, stdout, running, out>>

\* Garbled lines, and what dispatches to no method: JSON that is no object.
Refuse ==
  /\ At("parsed") /\ hand.line.form # "object"
  /\ Reply(IF hand.line.form = "garbled" THEN ParseError ELSE NotImplemented)
  /\ Rest /\ UNCHANGED <<settings, clients, took>>

\* The slip sets the settings before it has read the file.
InitializeEagerly ==
  /\ Method("initialize")
  /\ settings' = IF settings = None THEN hand.line.setup ELSE settings
  /\ IF hand.line.setup.fileOk
       THEN took' = Append(took, hand.line.setup) /\ Reply(Ok)
       ELSE took' = took /\ Reply(InvalidParams)
  /\ Rest /\ UNCHANGED clients
\* The slip lets a later initialize replace the settings, and keeps the clients.
InitializeAgain ==
  /\ Method("initialize")
  /\ IF hand.line.setup.fileOk
       THEN /\ settings' = hand.line.setup
            /\ took' = Append(took, hand.line.setup)
            /\ Reply(Ok)
       ELSE Reply(InvalidParams) /\ UNCHANGED <<settings, took>>
  /\ Rest /\ UNCHANGED clients
\* initialize: a bad file of overrides fails it; SETTINGS can be set once, and
\* an initialize after that changes nothing and is accepted all the same.
Initialize ==
  /\ Method("initialize")
  /\ IF hand.line.setup.fileOk
       THEN /\ settings' = IF settings = None THEN hand.line.setup ELSE settings
            /\ took' = Append(took, hand.line.setup)
            /\ Reply(Ok)
       ELSE Reply(InvalidParams) /\ UNCHANGED <<settings, took>>
  /\ Rest /\ UNCHANGED clients

\* Only the configuration is listed, so nothing here can fail.
Listing ==
  /\ Method("listing")
  /\ Reply(IF settings = None THEN InvalidParams ELSE Ok)
  /\ Rest /\ UNCHANGED <<settings, clients, took>>

Fixed ==
  /\ Method("fixed")
  /\ Reply(Ok) \/ Reply(NotImplemented)
  /\ Rest /\ UNCHANGED <<settings, clients, took>>
-----------------------------------------------------------------------------
(* The handlers that need a client.                                        *)

\* test_connection, and ping unless the configured database has a client: then
\* the slip looks whether any database has one.
PingAnyClient ==
  /\ Method("ping")
  /\ IF settings = None THEN Reply(InvalidParams)
     ELSE IF DOMAIN clients # {} THEN Reply(Ok)
     ELSE GoFor(settings.database)
  /\ Rest /\ UNCHANGED <<settings, clients, took>>
Ping ==
  /\ Method("ping")
  /\ IF settings = None THEN Reply(InvalidParams)
     ELSE IF settings.database \in DOMAIN clients THEN Reply(Ok)
     ELSE GoFor(settings.database)
  /\ Rest /\ UNCHANGED <<settings, clients, took>>

TestConnection ==
  /\ Method("test_connection")
  /\ IF settings = None THEN Reply(InvalidParams) ELSE GoFor(settings.database)
  /\ Rest /\ UNCHANGED <<settings, clients, took>>

\* Handlers may answer before they ask for a client: parameters that are
\* missing, a text that does not parse, columns that are cached.
CallEndsEarly ==
  /\ Method("call")
  /\ Reply(Ok) \/ Reply(InvalidParams)
  /\ Rest /\ UNCHANGED <<settings, clients, took>>

\* resolve_for: the schema asked for, else the configured database.
CallResolves ==
  /\ Method("call")
  /\ IF settings = None THEN Reply(InvalidParams)
     ELSE GoFor(IF hand.line.schema = None THEN settings.database ELSE hand.line.schema)
  /\ Rest /\ UNCHANGED <<settings, clients, took>>

\* get_or_build_client and build: a client is built when there is none, which
\* may fail, and never without a project.
UseClient ==
  /\ At("resolve") /\ hand.target \in DOMAIN clients
  /\ hand' = [hand EXCEPT !.stage = "call"]
  /\ Rest /\ UNCHANGED <<settings, clients, took>>

BuildFails ==
  /\ At("resolve") /\ hand.target \notin DOMAIN clients
  /\ Reply(IF settings.project = NoProject THEN InvalidParams ELSE Internal)
  /\ Rest /\ UNCHANGED <<settings, clients, took>>

Build ==
  /\ At("resolve") /\ hand.target \notin DOMAIN clients
  /\ settings.project # NoProject
  /\ clients' = [d \in DOMAIN clients \cup {hand.target} |->
                   IF d \in DOMAIN clients THEN clients[d] ELSE settings.project]
  /\ hand' = [hand EXCEPT !.stage = "call"]
  /\ Rest /\ UNCHANGED <<settings, took>>

CallEnds ==
  /\ At("call")
  /\ Reply(Ok) \/ \E text \in ErrorTexts : Reply(MapError(text))
  /\ Rest /\ UNCHANGED <<settings, clients, took>>
-----------------------------------------------------------------------------
Handle ==
  \/ Refuse \/ Initialize \/ Listing \/ Fixed
  \/ Ping \/ TestConnection \/ CallEndsEarly \/ CallResolves
  \/ UseClient \/ BuildFails \/ Build \/ CallEnds

Loop == Skip \/ ReadLine \/ Stop \/ WriteReply \/ Handle

Next == (\E l \in Lines : Send(l)) \/ HangUp \/ Loop

Spec == Init /\ [][Next]_vars /\ WF_vars(Loop)
-----------------------------------------------------------------------------
\* Types, and what of a line in hand is filled in at which stage.
TypeOK ==
  /\ inbox \in Seq(Lines) /\ sent \in 0..MaxLines
  /\ stdin \in {"open", "closed"} /\ stdout \in {"open", "closed"} /\ running \in BOOLEAN
  /\ hand \in Hands \cup {None}
  /\ hand # None =>
       /\ hand.line.form \in {"garbled", "foreign", "object"}
       /\ hand.stage = "done" <=> hand.reply # None
       /\ hand.stage \in {"resolve", "call"} => settings # None /\ hand.target \in Databases
  /\ settings \in Setups \cup {None}
  /\ clients \in [DOMAIN clients -> Projects] /\ DOMAIN clients \subseteq Databases
  /\ out \in Seq([id : Ids \cup {Null}, code : Codes, link : BOOLEAN])
  /\ took \in Seq(Setups)

\* The settings in force are those of the first initialize that was accepted:
\* one that was refused leaves nothing behind for a later one to trip over, and
\* one that comes later does not change them under the clients and caches made
\* for them (handlers/query.rs:7-26).
FirstAcceptedRules == settings = IF took = <<>> THEN None ELSE took[1]

\* Whatever was initialized in between: every client speaks to the project of
\* the settings, so that no request reads or writes another project through a
\* client kept under a database name both projects have (state.rs:29-31,
\* where "a project switch requires a new connection").
ClientsSpeakToOneProject ==
  \A d \in DOMAIN clients :
    settings # None /\ settings.project # NoProject /\ clients[d] = settings.project

\* A ping or test answered with success vouches for the database that requests
\* without a schema go to: a client for it stands, whatever else is connected
\* (handlers/query.rs:28-36).
PingVouchesForDefault ==
  (hand # None /\ hand.stage = "done" /\ hand.reply = Ok
     /\ hand.line.form = "object" /\ hand.line.method \in {"ping", "test_connection"})
    => settings # None /\ settings.database \in DOMAIN clients

\* The loop with all its stages is a serial server: the line in hand counts as
\* not yet served until its answer is written.
Unserved == (IF hand = None THEN <<>> ELSE <<hand.line>>) \o inbox

Server == INSTANCE SerialServer WITH
  Lines <- Lines,
  Asking <- {l \in Lines : Asks(l)},
  Unreadable <- {l \in Lines : l.form = "undecodable"},
  IdOf <- [l \in Lines |-> ReplyId(l)],
  pending <- Unserved,
  answered <- [i \in 1..Len(out) |-> out[i].id],
  serving <- running,
  hungUp <- stdin = "closed",
  deaf <- stdout = "closed"

\* Whatever the handlers do, and however their calls end: each request is
\* answered once, in order and under its id, a notification never, and the
\* loop comes to every line unless it stops at one that is not UTF-8 or
\* because the host is gone (main.rs:28-48, rpc.rs:13-82).
ImplementsSerialServer == Server!Spec
=============================================================================
