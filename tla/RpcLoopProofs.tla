--------------------------- MODULE RpcLoopProofs ----------------------------
(***************************************************************************)
(* Theorems about RpcLoop, for every set of lines, ids, projects and       *)
(* databases: types, the three invariants, and that the loop implements    *)
(* what SerialServer says may happen.  Each invariant is inductive beside  *)
(* TypeOK; the one about pings needs to know for which database a ping in  *)
(* the making resolves its client.                                         *)
(***************************************************************************)
EXTENDS RpcLoop, SequenceTheorems, TLAPS

\* What an object says under the members its method has.
LEMMA ObjectMembers ==
  ASSUME NEW l \in Lines, l.form = "object"
  PROVE  /\ l.id \in Ids \cup {None}
         /\ l.method = "initialize" => l.setup \in Setups
         /\ l.method = "call" => l.schema \in Databases \cup {None}
BY LinesAssumption DEF AllLines

LEMMA SetupMembers ==
  ASSUME NEW s \in Setups
  PROVE  s.project \in Projects /\ s.database \in Databases /\ s # None
BY NoneAssumption DEF Setups

\* The fixed answers are answers, and only Ok is a success.
LEMMA Answers ==
  /\ Ok \in Replies
  /\ {ParseError, NotImplemented, InvalidParams, Internal} \subseteq Replies \ {Ok}
BY DEF Ok, ParseError, NotImplemented, InvalidParams, Internal, Fault, Replies, Codes

\* Whatever Firestore's error says, it is reported as one.
LEMMA MappedErrors == \A text : MapError(text) \in Replies \ {Ok}
<1> TAKE text
<1>1. [code |-> Internal.code, link |-> TRUE] \in Replies \ {Ok}
  BY DEF Internal, Fault, Ok, Replies, Codes
<1> QED BY <1>1, Answers DEF MapError

\* A line in hand, taken apart.
LEMMA HandMembers ==
  ASSUME TypeOK, hand # None
  PROVE  /\ hand \in Hands /\ hand.line \in Lines
         /\ hand.stage \in Stages /\ hand.target \in Databases \cup {None}
BY DEF TypeOK, Hands

\* What the three ways to go on with it make of it.
LEMMA Replied ==
  ASSUME TypeOK, hand # None, NEW r \in Replies, Reply(r)
  PROVE  /\ hand' \in Hands /\ hand' # None
         /\ hand'.line = hand.line /\ hand'.stage = "done" /\ hand'.reply = r /\ r # None
BY HandMembers, NoneAssumption DEF Reply, Hands, Stages

LEMMA WentFor ==
  ASSUME TypeOK, hand # None, hand.stage = "parsed", NEW d \in Databases, GoFor(d)
  PROVE  /\ hand' \in Hands /\ hand' # None
         /\ hand'.line = hand.line /\ hand'.stage = "resolve"
         /\ hand'.target = d /\ hand'.reply = None
BY HandMembers, NoneAssumption DEF GoFor, Hands, Stages, TypeOK

LEMMA Resolved ==
  ASSUME TypeOK, hand # None, hand.stage = "resolve", hand' = [hand EXCEPT !.stage = "call"]
  PROVE  /\ hand' \in Hands /\ hand' # None
         /\ hand'.line = hand.line /\ hand'.stage = "call"
         /\ hand'.target = hand.target /\ hand'.reply = None
BY HandMembers, NoneAssumption DEF Hands, Stages, TypeOK
-----------------------------------------------------------------------------
(* Types.                                                                  *)

LEMMA InitTypes == Init => TypeOK
BY MaxLinesAssumption, EmptySeq DEF Init, TypeOK

\* A handler that has nothing more to do but answer.
LEMMA RepliedTypes ==
  ASSUME TypeOK, hand # None, NEW r \in Replies, Reply(r), Rest,
         UNCHANGED <<settings, clients, took>>
  PROVE  TypeOK'
<1>1. /\ hand' \in Hands /\ hand' # None
      /\ hand'.line = hand.line /\ hand'.stage = "done" /\ hand'.reply # None
  BY Replied
<1> QED BY <1>1 DEF TypeOK, Rest

\* A handler that needs a client.
LEMMA WentForTypes ==
  ASSUME TypeOK, hand # None, hand.stage = "parsed", settings # None,
         NEW d \in Databases, GoFor(d), Rest, UNCHANGED <<settings, clients, took>>
  PROVE  TypeOK'
<1>1. /\ hand' \in Hands /\ hand' # None
      /\ hand'.line = hand.line /\ hand'.stage = "resolve"
      /\ hand'.target = d /\ hand'.reply = None
  BY WentFor
<1> QED BY <1>1 DEF TypeOK, Rest

LEMMA InitializeTypes == TypeOK /\ Initialize => TypeOK'
<1> SUFFICES ASSUME TypeOK, Initialize PROVE TypeOK'
  OBVIOUS
<1> DEFINE setup == hand.line.setup
<1>1. hand # None /\ setup \in Setups
  BY HandMembers, ObjectMembers DEF Initialize, Method, At
<1>2. CASE setup.fileOk
  <2>1. /\ hand' \in Hands /\ hand' # None
        /\ hand'.line = hand.line /\ hand'.stage = "done" /\ hand'.reply # None
    BY <1>1, <1>2, Replied, Answers DEF Initialize
  <2>2. settings' = (IF settings = None THEN setup ELSE settings)
        /\ took' = Append(took, setup)
    BY <1>2 DEF Initialize
  <2>3. settings' \in Setups /\ took' \in Seq(Setups)
    BY <1>1, <2>2, AppendProperties DEF TypeOK
  <2>4. Rest /\ UNCHANGED clients
    BY DEF Initialize
  <2> QED BY <1>1, <2>1, <2>3, <2>4, NoneAssumption DEF TypeOK, Rest
<1>3. CASE ~setup.fileOk
  BY <1>1, <1>3, RepliedTypes, Answers DEF Initialize
<1> QED BY <1>2, <1>3

LEMMA PingTypes == TypeOK /\ (Ping \/ TestConnection) => TypeOK'
<1> SUFFICES ASSUME TypeOK, Ping \/ TestConnection PROVE TypeOK'
  OBVIOUS
<1>1. hand # None /\ hand.stage = "parsed" /\ Rest /\ UNCHANGED <<settings, clients, took>>
  BY DEF Ping, TestConnection, Method, At
<1>2. \/ Reply(InvalidParams) \/ Reply(Ok)
      \/ settings # None /\ GoFor(settings.database)
  BY DEF Ping, TestConnection
<1>3. settings # None => settings.database \in Databases
  BY SetupMembers DEF TypeOK
<1> QED BY <1>1, <1>2, <1>3, RepliedTypes, WentForTypes, Answers

LEMMA CallTypes == TypeOK /\ (CallEndsEarly \/ CallResolves) => TypeOK'
<1> SUFFICES ASSUME TypeOK, CallEndsEarly \/ CallResolves PROVE TypeOK'
  OBVIOUS
<1>1. hand # None /\ hand.stage = "parsed" /\ Rest /\ UNCHANGED <<settings, clients, took>>
  BY DEF CallEndsEarly, CallResolves, Method, At
<1> DEFINE target == IF hand.line.schema = None THEN settings.database ELSE hand.line.schema
<1>2. \/ Reply(InvalidParams) \/ Reply(Ok)
      \/ settings # None /\ GoFor(target)
  BY DEF CallEndsEarly, CallResolves
<1>3. settings # None => target \in Databases
  BY HandMembers, ObjectMembers, SetupMembers
  DEF TypeOK, CallEndsEarly, CallResolves, Method, At
<1> QED BY <1>1, <1>2, <1>3, RepliedTypes, WentForTypes, Answers

LEMMA ClientTypes == TypeOK /\ (UseClient \/ Build) => TypeOK'
<1> SUFFICES ASSUME TypeOK, UseClient \/ Build PROVE TypeOK'
  OBVIOUS
<1>1. /\ hand # None /\ hand.stage = "resolve" /\ hand' = [hand EXCEPT !.stage = "call"]
      /\ UNCHANGED <<settings, took>> /\ Rest
  BY DEF UseClient, Build, At
<1>2. /\ hand' \in Hands /\ hand' # None
      /\ hand'.line = hand.line /\ hand'.stage = "call"
      /\ hand'.target = hand.target /\ hand'.reply = None
  BY <1>1, Resolved
<1>3. settings # None /\ hand.target \in Databases
  BY <1>1 DEF TypeOK
<1>4. clients' \in [DOMAIN clients' -> Projects] /\ DOMAIN clients' \subseteq Databases
  BY <1>3, SetupMembers DEF UseClient, Build, TypeOK
<1> QED BY <1>1, <1>2, <1>3, <1>4 DEF TypeOK, Rest

LEMMA OtherHandlersTypes ==
  TypeOK /\ (Refuse \/ Listing \/ Fixed \/ BuildFails \/ CallEnds) => TypeOK'
<1> SUFFICES ASSUME TypeOK, Refuse \/ Listing \/ Fixed \/ BuildFails \/ CallEnds PROVE TypeOK'
  OBVIOUS
<1>1. hand # None /\ Rest /\ UNCHANGED <<settings, clients, took>>
  BY DEF Refuse, Listing, Fixed, BuildFails, CallEnds, Method, At
<1>2. \E r \in Replies : Reply(r)
  BY Answers, MappedErrors DEF Refuse, Listing, Fixed, BuildFails, CallEnds
<1> QED BY <1>1, <1>2, RepliedTypes

LEMMA HandleTypes == TypeOK /\ Handle => TypeOK'
BY InitializeTypes, PingTypes, CallTypes, ClientTypes, OtherHandlersTypes DEF Handle

LEMMA WriteReplyTypes == TypeOK /\ WriteReply => TypeOK'
<1> SUFFICES ASSUME TypeOK, WriteReply PROVE TypeOK'
  OBVIOUS
<1>1. hand # None /\ hand \in Hands /\ hand.line \in Lines /\ hand.reply \in Replies
  BY HandMembers DEF WriteReply, At, TypeOK, Hands
<1>2. Asks(hand.line) => ReplyId(hand.line) \in Ids \cup {Null}
  BY <1>1, ObjectMembers DEF Asks, ReplyId
<1> DEFINE Given == [id : Ids \cup {Null}, code : Codes, link : BOOLEAN]
           answer == [id |-> ReplyId(hand.line), code |-> hand.reply.code,
                      link |-> hand.reply.link]
<1>3. Asks(hand.line) => answer \in Given
  BY <1>1, <1>2 DEF Replies
<1>4. out' = out \/ (Asks(hand.line) /\ out' = Append(out, answer))
  BY DEF WriteReply
<1>5. out \in Seq(Given)
  BY DEF TypeOK
<1>6. out' \in Seq(Given)
  <2> HIDE DEF Given, answer
  <2> QED BY <1>3, <1>4, <1>5, AppendProperties
<1> QED BY <1>6 DEF WriteReply, TypeOK

LEMMA NextTypes == TypeOK /\ [Next]_vars => TypeOK'
<1> SUFFICES ASSUME TypeOK, [Next]_vars PROVE TypeOK'
  OBVIOUS
<1>1. ASSUME NEW l \in Lines, Send(l) PROVE TypeOK'
  BY <1>1, MaxLinesAssumption DEF Send, TypeOK
<1>2. CASE HangUp
  BY <1>2 DEF HangUp, TypeOK
<1>3. CASE Skip
  BY <1>3 DEF Skip, TypeOK
<1>4. CASE ReadLine
  <2> DEFINE line == Head(inbox)
  <2>1. line \in Lines /\ Tail(inbox) \in Seq(Lines)
    BY <1>4 DEF ReadLine, TypeOK
  <2>2. hand' \in Hands /\ hand'.line = line /\ hand'.stage = "parsed" /\ hand'.reply = None
    BY <1>4, <2>1 DEF ReadLine, Hands, Stages
  <2>3. line.form \in {"garbled", "foreign", "object"}
    BY <1>4, <2>1, LinesAssumption DEF ReadLine, AllLines
  <2> QED BY <1>4, <2>1, <2>2, <2>3 DEF ReadLine, TypeOK
<1>5. CASE Stop
  BY <1>5 DEF Stop, TypeOK
<1>6. CASE UNCHANGED vars
  BY <1>6 DEF vars, TypeOK
<1> QED BY <1>1, <1>2, <1>3, <1>4, <1>5, <1>6, WriteReplyTypes, HandleTypes DEF Next, Loop

\* The types of RpcLoop hold, stage by stage, whatever the host writes.
THEOREM Typing == Spec => []TypeOK
<1> QED BY InitTypes, NextTypes, PTL DEF Spec
-----------------------------------------------------------------------------
(* Settings and clients.  Only initialize writes settings and history, and *)
(* only Build the clients.                                                 *)

LEMMA OnlyInitializeSets ==
  ASSUME [Next]_vars
  PROVE  Initialize \/ UNCHANGED <<settings, took>>
BY DEF Next, vars, Loop, Handle, Send, HangUp, Skip, ReadLine, Stop, WriteReply, Refuse,
       Listing, Fixed, Ping, TestConnection, CallEndsEarly, CallResolves, UseClient,
       BuildFails, Build, CallEnds

LEMMA OnlyBuildConnects ==
  ASSUME [Next]_vars
  PROVE  Build \/ UNCHANGED clients
BY DEF Next, vars, Loop, Handle, Send, HangUp, Skip, ReadLine, Stop, WriteReply, Refuse,
       Initialize, Listing, Fixed, Ping, TestConnection, CallEndsEarly, CallResolves,
       UseClient, BuildFails, CallEnds

LEMMA FirstAcceptedStep == TypeOK /\ FirstAcceptedRules /\ [Next]_vars => FirstAcceptedRules'
<1> SUFFICES ASSUME TypeOK, FirstAcceptedRules, [Next]_vars PROVE FirstAcceptedRules'
  OBVIOUS
<1>1. CASE UNCHANGED <<settings, took>>
  BY <1>1 DEF FirstAcceptedRules
<1>2. CASE Initialize /\ ~UNCHANGED <<settings, took>>
  <2> DEFINE setup == hand.line.setup
  <2>1. setup \in Setups
    BY <1>2, HandMembers, ObjectMembers DEF Initialize, Method, At
  <2>2. /\ settings' = (IF settings = None THEN setup ELSE settings)
        /\ took' = Append(took, setup)
    BY <1>2 DEF Initialize
  <2>3. took \in Seq(Setups)
    BY DEF TypeOK
  <2>4. CASE took = <<>>
    <3>1. settings = None /\ took' = <<setup>>
      BY <2>2, <2>4 DEF FirstAcceptedRules
    <3> QED BY <2>2, <3>1 DEF FirstAcceptedRules
  <2>5. CASE took # <<>>
    <3>1. settings = took[1] /\ took[1] \in Setups /\ Len(took) >= 1
      BY <2>3, <2>5 DEF FirstAcceptedRules
    <3>2. took'[1] = took[1] /\ took' # <<>>
      BY <2>1, <2>2, <2>3, <3>1, AppendProperties
    <3>3. settings' = settings
      BY <2>2, <3>1, SetupMembers
    <3> QED BY <3>1, <3>2, <3>3 DEF FirstAcceptedRules
  <2> QED BY <2>4, <2>5
<1> QED BY <1>1, <1>2, OnlyInitializeSets

\* An accepted initialize rules until the process ends, whatever is initialized
\* or refused after it.
THEOREM FirstAcceptedRulesHolds == Spec => []FirstAcceptedRules
<1>1. Init => FirstAcceptedRules
  BY DEF Init, FirstAcceptedRules
<1> QED BY <1>1, Typing, FirstAcceptedStep, PTL DEF Spec

LEMMA ClientsStep ==
  TypeOK /\ ClientsSpeakToOneProject /\ [Next]_vars => ClientsSpeakToOneProject'
<1> SUFFICES ASSUME TypeOK, ClientsSpeakToOneProject, [Next]_vars
             PROVE  ClientsSpeakToOneProject'
  OBVIOUS
<1>1. settings # None => settings' = settings
  BY OnlyInitializeSets DEF Initialize
<1>2. CASE UNCHANGED clients
  BY <1>1, <1>2 DEF ClientsSpeakToOneProject
<1>3. CASE Build
  <2>1. settings # None
    BY <1>3 DEF Build, At, TypeOK
  <2>2. settings.project # NoProject /\ settings' = settings
    BY <1>3 DEF Build
  <2>3. \A d \in DOMAIN clients' :
          clients'[d] = IF d \in DOMAIN clients THEN clients[d] ELSE settings.project
    BY <1>3 DEF Build
  <2> QED BY <2>1, <2>2, <2>3 DEF ClientsSpeakToOneProject
<1> QED BY <1>2, <1>3, OnlyBuildConnects

\* No client of another project is ever used or kept, however often the host
\* initializes and with whatever projects.
THEOREM ClientsSpeakToOneProjectHolds == Spec => []ClientsSpeakToOneProject
<1>1. Init => ClientsSpeakToOneProject
  BY DEF Init, ClientsSpeakToOneProject
<1> QED BY <1>1, Typing, ClientsStep, PTL DEF Spec
-----------------------------------------------------------------------------
(* Pings.  A ping in the making resolves the configured database, and has a *)
(* client for it once it calls.                                             *)

Probing ==
  hand # None /\ hand.line.form = "object" /\ hand.line.method \in {"ping", "test_connection"}

ProbesDefault ==
  Probing =>
    /\ hand.stage \in {"resolve", "call"} => hand.target = settings.database
    /\ hand.stage = "call" => hand.target \in DOMAIN clients

PingInv == TypeOK /\ ProbesDefault /\ PingVouchesForDefault

\* A step that leaves the line in hand alone, or puts it down.
LEMMA PingKept ==
  ASSUME PingInv, UNCHANGED <<settings, clients>>, hand' = hand \/ hand' = None
  PROVE  ProbesDefault' /\ PingVouchesForDefault'
BY DEF PingInv, ProbesDefault, PingVouchesForDefault, Probing

\* A step of a handler that is neither of the two.
LEMMA PingElsewhere ==
  ASSUME PingInv, ~Probing, hand # None, hand'.line = hand.line
  PROVE  ProbesDefault' /\ PingVouchesForDefault'
BY DEF PingInv, ProbesDefault, PingVouchesForDefault, Probing

LEMMA PingFails ==
  ASSUME PingInv, hand # None, NEW r \in Replies \ {Ok}, Reply(r)
  PROVE  ProbesDefault' /\ PingVouchesForDefault'
<1>1. hand'.stage = "done" /\ hand'.reply # Ok
  BY Replied DEF PingInv
<1> QED BY <1>1 DEF ProbesDefault, PingVouchesForDefault

LEMMA PingSucceeds ==
  ASSUME PingInv, hand # None, Reply(Ok), settings # None,
         settings.database \in DOMAIN clients, UNCHANGED <<settings, clients>>
  PROVE  ProbesDefault' /\ PingVouchesForDefault'
<1>1. hand'.stage = "done"
  BY Replied, Answers DEF PingInv
<1> QED BY <1>1 DEF ProbesDefault, PingVouchesForDefault

LEMMA PingGoesOn ==
  ASSUME PingInv, hand # None, hand.stage = "parsed", settings # None,
         GoFor(settings.database), UNCHANGED <<settings, clients>>
  PROVE  ProbesDefault' /\ PingVouchesForDefault'
<1>1. settings.database \in Databases
  BY SetupMembers DEF PingInv, TypeOK
<1>2. hand'.stage = "resolve" /\ hand'.target = settings.database
  BY <1>1, WentFor DEF PingInv
<1> QED BY <1>2 DEF ProbesDefault, PingVouchesForDefault

LEMMA PingConnects ==
  ASSUME PingInv, UseClient \/ Build
  PROVE  ProbesDefault' /\ PingVouchesForDefault'
<1>1. /\ hand # None /\ hand.stage = "resolve" /\ hand' = [hand EXCEPT !.stage = "call"]
      /\ settings' = settings /\ hand.target \in DOMAIN clients'
  BY DEF UseClient, Build, At
<1>2. hand'.line = hand.line /\ hand'.stage = "call" /\ hand'.target = hand.target
  BY <1>1, Resolved DEF PingInv
<1> QED BY <1>1, <1>2 DEF PingInv, ProbesDefault, PingVouchesForDefault, Probing

LEMMA PingCalled ==
  ASSUME PingInv, CallEnds
  PROVE  ProbesDefault' /\ PingVouchesForDefault'
<1>1. hand # None /\ hand.stage = "call" /\ UNCHANGED <<settings, clients>>
  BY DEF CallEnds, At
<1>2. CASE Reply(Ok)
  <2>1. CASE Probing
    <3>1. settings # None /\ settings.database \in DOMAIN clients
      BY <1>1, <2>1 DEF PingInv, TypeOK, ProbesDefault
    <3> QED BY <1>1, <1>2, <3>1, PingSucceeds
  <2>2. CASE ~Probing
    <3>1. hand'.line = hand.line
      BY <1>1, <1>2, Replied, Answers DEF PingInv
    <3> QED BY <1>1, <2>2, <3>1, PingElsewhere
  <2> QED BY <2>1, <2>2
<1>3. CASE \E text \in ErrorTexts : Reply(MapError(text))
  BY <1>1, <1>3, MappedErrors, PingFails
<1> QED BY <1>2, <1>3 DEF CallEnds

LEMMA PingStep == PingInv /\ [Next]_vars => PingInv'
<1> SUFFICES ASSUME PingInv, [Next]_vars PROVE ProbesDefault' /\ PingVouchesForDefault'
  BY NextTypes DEF PingInv
<1>1. CASE \/ \E l \in Lines : Send(l)
           \/ HangUp \/ Skip \/ Stop \/ WriteReply \/ UNCHANGED vars
  <2>1. UNCHANGED <<settings, clients>> /\ (hand' = hand \/ hand' = None)
    BY <1>1 DEF Send, HangUp, Skip, Stop, WriteReply, vars
  <2> QED BY <2>1, PingKept
<1>2. CASE ReadLine
  <2>1. hand'.stage = "parsed"
    BY <1>2 DEF ReadLine
  <2> QED BY <2>1 DEF ProbesDefault, PingVouchesForDefault
<1>3. CASE Refuse \/ Initialize \/ Listing \/ Fixed \/ CallEndsEarly
  <2>1. hand # None /\ ~Probing
    BY <1>3 DEF Refuse, Initialize, Listing, Fixed, CallEndsEarly, Method, At, Probing
  <2>2. \E r \in Replies : Reply(r)
    BY <1>3, Answers DEF Refuse, Initialize, Listing, Fixed, CallEndsEarly
  <2>3. hand'.line = hand.line
    BY <2>1, <2>2, Replied DEF PingInv
  <2> QED BY <2>1, <2>3, PingElsewhere
<1>4. CASE CallResolves
  <2>1. hand # None /\ ~Probing
    BY <1>4 DEF CallResolves, Method, At, Probing
  <2>2. hand'.line = hand.line
    BY <1>4, <2>1, HandMembers DEF CallResolves, Reply, GoFor, PingInv, Hands
  <2> QED BY <2>1, <2>2, PingElsewhere
<1>5. CASE Ping \/ TestConnection
  <2>1. hand # None /\ hand.stage = "parsed" /\ UNCHANGED <<settings, clients>>
    BY <1>5 DEF Ping, TestConnection, Method, At
  <2>2. \/ Reply(InvalidParams)
        \/ settings # None /\ settings.database \in DOMAIN clients /\ Reply(Ok)
        \/ settings # None /\ GoFor(settings.database)
    BY <1>5 DEF Ping, TestConnection
  <2> QED BY <2>1, <2>2, PingFails, PingSucceeds, PingGoesOn, Answers
<1>6. CASE BuildFails
  <2>1. hand # None /\ \E r \in Replies \ {Ok} : Reply(r)
    BY <1>6, Answers DEF BuildFails, At
  <2> QED BY <2>1, PingFails
<1> QED BY <1>1, <1>2, <1>3, <1>4, <1>5, <1>6, PingConnects, PingCalled DEF Next, Loop, Handle

\* A ping that succeeds has a client for the database of the settings.
THEOREM PingVouchesForDefaultHolds == Spec => []PingVouchesForDefault
<1>1. Init => PingInv
  BY InitTypes DEF Init, PingInv, ProbesDefault, PingVouchesForDefault, Probing
<1>2. PingInv => PingVouchesForDefault
  BY DEF PingInv
<1> QED BY <1>1, <1>2, PingStep, PTL DEF Spec
-----------------------------------------------------------------------------
(* The serial server.                                                      *)

IdsOf(answers) == [i \in 1..Len(answers) |-> answers[i].id]
Answered == [id : Ids \cup {Null}, code : Codes, link : BOOLEAN]

\* Reading a line into the hand, or putting it down, is taking nothing or one
\* from what is unserved.
LEMMA UnservedSplit ==
  ASSUME TypeOK
  PROVE  /\ Unserved \in Seq(Lines)
         /\ hand = None => Unserved = inbox
         /\ hand # None => /\ Unserved # <<>> /\ Head(Unserved) = hand.line
                          /\ Tail(Unserved) = inbox
<1>1. inbox \in Seq(Lines)
  BY DEF TypeOK
<1>2. CASE hand = None
  BY <1>1, <1>2, ConcatEmptySeq DEF Unserved
<1>3. CASE hand # None
  <2>1. hand.line \in Lines /\ Unserved = <<hand.line>> \o inbox
    BY <1>3, HandMembers DEF Unserved
  <2>2. /\ Unserved \in Seq(Lines) /\ Len(Unserved) = Len(inbox) + 1
        /\ Unserved[1] = hand.line
        /\ \A i \in 1..Len(inbox) : Unserved[i + 1] = inbox[i]
    BY <1>1, <2>1, ConcatProperties
  <2>3. Tail(Unserved) = inbox
    BY <1>1, <2>2, HeadTailProperties, SeqEqual
  <2> QED BY <1>1, <1>3, <2>2, <2>3
<1> QED BY <1>2, <1>3

LEMMA IdsOfTypes ==
  ASSUME NEW s \in Seq(Answered)
  PROVE  IdsOf(s) \in Seq(Ids \cup {Null}) /\ Len(IdsOf(s)) = Len(s)
<1>1. Len(s) \in Nat /\ \A i \in 1..Len(s) : s[i].id \in Ids \cup {Null}
  <2>1. Len(s) \in Nat
    BY LenProperties
  <2>2. ASSUME NEW i \in 1..Len(s) PROVE s[i].id \in Ids \cup {Null}
    <3>1. s[i] \in Answered
      BY ElementOfSeq
    <3> QED BY <3>1 DEF Answered
  <2> QED BY <2>1, <2>2
<1>2. IdsOf(s) \in [1..Len(s) -> Ids \cup {Null}]
  BY <1>1 DEF IdsOf
<1>3. IdsOf(s) \in Seq(Ids \cup {Null})
  BY <1>1, <1>2, SeqDef
<1>4. DOMAIN IdsOf(s) = 1..Len(s)
  BY DEF IdsOf
<1> QED BY <1>1, <1>3, <1>4, LenProperties

\* Another answer is another id.
LEMMA IdsOfAppend ==
  ASSUME NEW s \in Seq(Answered), NEW a \in Answered
  PROVE  IdsOf(Append(s, a)) = Append(IdsOf(s), a.id)
<1> DEFINE t == Append(s, a)
<1>1. IdsOf(s) \in Seq(Ids \cup {Null}) /\ Len(IdsOf(s)) = Len(s)
  BY IdsOfTypes
<1>2. IdsOf(t) \in Seq(Ids \cup {Null}) /\ Len(IdsOf(t)) = Len(s) + 1
  BY AppendProperties, IdsOfTypes
<1>3. \A i \in 1..Len(s) + 1 : IdsOf(t)[i] = Append(IdsOf(s), a.id)[i]
  BY <1>1, AppendProperties DEF IdsOf, Answered
<1> QED BY <1>1, <1>2, <1>3, AppendProperties, SeqEqual DEF Answered

\* A handler answers, asks for a client, or has got it.
LEMMA WaysOn ==
  ASSUME TypeOK, Handle
  PROVE  \/ \E r \in Replies : Reply(r)
         \/ hand.stage = "parsed" /\ \E d \in Databases : GoFor(d)
         \/ hand.stage = "resolve" /\ hand' = [hand EXCEPT !.stage = "call"]
<1>1. CASE Refuse \/ Initialize \/ Listing \/ Fixed \/ CallEndsEarly \/ BuildFails \/ CallEnds
  BY <1>1, Answers, MappedErrors
  DEF Refuse, Initialize, Listing, Fixed, CallEndsEarly, BuildFails, CallEnds
<1>2. CASE Ping \/ TestConnection \/ CallResolves
  <2>1. settings # None => settings.database \in Databases
    BY SetupMembers DEF TypeOK
  <2>2. hand.stage = "parsed"
    BY <1>2 DEF Ping, TestConnection, CallResolves, Method, At
  <2>3. CallResolves => hand.line.schema \in Databases \cup {None}
    BY HandMembers, ObjectMembers DEF CallResolves, Method, At
  <2> QED BY <1>2, <2>1, <2>2, <2>3, Answers DEF Ping, TestConnection, CallResolves
<1>3. CASE UseClient \/ Build
  BY <1>3 DEF UseClient, Build, At
<1> QED BY <1>1, <1>2, <1>3 DEF Handle

\* Steps of a handler are no step of the server.
LEMMA HandlersAreInside ==
  ASSUME TypeOK, Handle
  PROVE  Unserved' = Unserved /\ UNCHANGED <<inbox, stdin, stdout, running, out>>
<1>1. hand # None /\ Rest
  BY DEF Handle, Refuse, Initialize, Listing, Fixed, Ping, TestConnection, CallEndsEarly,
         CallResolves, UseClient, BuildFails, Build, CallEnds, Method, At
<1>2. hand'.line = hand.line /\ hand' # None
  BY <1>1, WaysOn, Replied, WentFor, Resolved
<1> QED BY <1>1, <1>2 DEF Unserved, Rest
LEMMA ReplyIsServed ==
  ASSUME TypeOK, WriteReply
  PROVE  Server!GoOn
<1>1. /\ hand # None /\ hand \in Hands /\ hand.line \in Lines /\ hand.reply \in Replies
      /\ hand.line.form # "undecodable" /\ running
  BY HandMembers DEF WriteReply, At, TypeOK, Hands
<1>2. Unserved # <<>> /\ Head(Unserved) = hand.line /\ Tail(Unserved) = inbox
  BY <1>1, UnservedSplit
<1>3. inbox' = inbox /\ stdin' = stdin /\ stdout' = stdout
  BY DEF WriteReply
<1>4. hand' = None => Unserved' = inbox
  BY <1>3, ConcatEmptySeq DEF Unserved, TypeOK
<1>5. CASE Asks(hand.line) /\ stdout = "open"
  <2> DEFINE answer == [id |-> ReplyId(hand.line), code |-> hand.reply.code,
                        link |-> hand.reply.link]
  <2>1. out' = Append(out, answer) /\ hand' = None /\ running' = running
    BY <1>5 DEF WriteReply
  <2>2. answer \in Answered
    BY <1>1, <1>5, ObjectMembers DEF Answered, Replies, Asks, ReplyId
  <2>3. out \in Seq(Answered)
    BY DEF TypeOK, Answered
  <2>4. IdsOf(out') = Append(IdsOf(out), ReplyId(hand.line))
    BY <2>1, <2>2, <2>3, IdsOfAppend
  <2> QED BY <1>1, <1>2, <1>3, <1>4, <1>5, <2>1, <2>4 DEF Server!GoOn, Server!Serve, IdsOf
<1>6. CASE Asks(hand.line) /\ stdout = "closed"
  <2>1. /\ out' = out
        /\ \/ running' = FALSE /\ hand' = hand
           \/ hand' = None /\ running' = running
    BY <1>6 DEF WriteReply
  <2> QED BY <1>1, <1>2, <1>3, <1>4, <1>6, <2>1
          DEF Server!GoOn, Server!Drop, Server!Stop, Unserved
<1>7. CASE ~Asks(hand.line)
  <2>1. out' = out /\ hand' = None /\ running' = running
    BY <1>7 DEF WriteReply
  <2> QED BY <1>1, <1>2, <1>3, <1>4, <1>7, <2>1 DEF Server!GoOn, Server!Serve
<1> QED BY <1>5, <1>6, <1>7 DEF TypeOK

LEMMA ServerStep ==
  ASSUME TypeOK, [Next]_vars
  PROVE  [Server!Next]_(Server!serverVars)
<1> USE DEF Server!serverVars
<1>1. ASSUME NEW l \in Lines, Send(l) PROVE Server!Next
  <2>1. inbox' = Append(inbox, l) /\ hand' = hand
        /\ UNCHANGED <<stdin, stdout, running, out>> /\ stdin = "open"
    BY <1>1 DEF Send
  <2>2. Unserved' = Append(Unserved, l)
    <3> DEFINE first == IF hand = None THEN <<>> ELSE <<hand.line>>
    <3>1. first \in Seq(Lines) /\ inbox \in Seq(Lines)
      BY HandMembers DEF TypeOK
    <3>2. inbox' = inbox \o <<l>>
      BY <2>1, <3>1, AppendIsConcat
    <3>3. Unserved \in Seq(Lines) /\ Append(Unserved, l) = Unserved \o <<l>>
      BY UnservedSplit, AppendIsConcat
    <3>4. <<l>> \in Seq(Lines)
      OBVIOUS
    <3>5. first \o (inbox \o <<l>>) = (first \o inbox) \o <<l>>
      BY <3>1, <3>4, ConcatAssociative
    <3> QED BY <2>1, <3>2, <3>3, <3>5 DEF Unserved
  <2> QED BY <2>1, <2>2 DEF Server!Next, Server!Send
<1>2. CASE HangUp
  BY <1>2 DEF HangUp, Server!Next, Server!HangUp, Server!TurnDeaf, Unserved
<1>3. CASE Skip
  <2>1. /\ Unserved = inbox /\ Unserved' = Tail(inbox) /\ inbox # <<>>
        /\ Head(inbox) \in Lines /\ Head(inbox).form = "blank"
    BY <1>3, UnservedSplit, HeadTailProperties, ConcatEmptySeq DEF Skip, Unserved, TypeOK
  <2>2. ~Asks(Head(inbox))
    BY <2>1 DEF Asks
  <2> QED BY <1>3, <2>1, <2>2 DEF Skip, Server!Next, Server!GoOn, Server!Serve
<1>4. CASE ReadLine
  <2>1. inbox \in Seq(Lines) /\ inbox # <<>> /\ Unserved = inbox
    BY <1>4, UnservedSplit DEF ReadLine, TypeOK
  <2>2. hand' # None /\ hand'.line = Head(inbox) /\ inbox' = Tail(inbox)
    <3>1. /\ hand' = [line |-> Head(inbox), stage |-> "parsed", target |-> None, reply |-> None]
          /\ inbox' = Tail(inbox)
      BY <1>4 DEF ReadLine
    <3>2. hand' \in Hands
      BY <2>1, <3>1, HeadTailProperties DEF Hands, Stages
    <3> QED BY <3>1, <3>2, NoneAssumption
  <2>3. Unserved' = <<Head(inbox)>> \o Tail(inbox)
    BY <2>2 DEF Unserved
  <2>4. <<Head(inbox)>> \o Tail(inbox) = inbox
    BY <2>1, HeadTailProperties, ConcatProperties, SeqEqual
  <2> QED BY <1>4, <2>1, <2>3, <2>4 DEF ReadLine
<1>5. CASE Stop
  <2>1. Unserved = inbox /\ Unserved' = Unserved /\ (inbox # <<>> => Head(inbox) \in Lines)
    BY <1>5, UnservedSplit DEF Stop, Unserved, TypeOK
  <2> QED BY <1>5, <2>1 DEF Stop, Server!Next, Server!GoOn, Server!Stop
<1>6. CASE WriteReply
  BY <1>6, ReplyIsServed DEF Server!Next
<1>7. CASE Handle
  BY <1>7, HandlersAreInside
<1>8. CASE UNCHANGED vars
  BY <1>8 DEF vars, Unserved
<1> QED BY <1>1, <1>2, <1>3, <1>4, <1>5, <1>6, <1>7, <1>8 DEF Next, Loop

\* Whatever lines the host writes, and however the calls of handlers end: every
\* answer is the next one due, under the id of its request, and no request is
\* passed over but by stopping.
THEOREM ImplementsSerialServerSafely == Spec => Server!SafetySpec
<1>1. Init => Server!Init
  BY ConcatEmptySeq DEF Init, Server!Init, Unserved
<1> QED BY <1>1, Typing, ServerStep, PTL DEF Spec, Server!SafetySpec
=============================================================================
