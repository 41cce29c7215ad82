----------------------------- MODULE MCRpcLoop ------------------------------
\* TLC instance of RpcLoop: one line of every form, requests under one id and
\* under null, a notification that changes state, two projects and none.
EXTENDS RpcLoop

Object(id, method) == [form |-> "object", id |-> id, method |-> method]
Setup(project, database, fileOk) ==
  [project |-> project, database |-> database, fileOk |-> fileOk]
Init1(id, setup) == [form |-> "object", id |-> id, method |-> "initialize", setup |-> setup]
CallFor(id, schema) == [form |-> "object", id |-> id, method |-> "call", schema |-> schema]

MCLines ==
  {[form |-> f] : f \in {"blank", "undecodable", "garbled", "foreign"}}
  \cup {Init1("7", Setup("p1", "d1", TRUE)), Init1(None, Setup("p2", "d1", TRUE)),
        Init1("7", Setup("p2", "d2", FALSE)), Init1("7", Setup(NoProject, "d1", TRUE))}
  \cup {Object("7", "ping"), Object(Null, "test_connection"), Object("7", "listing"),
        Object(Null, "fixed"), CallFor(None, None), CallFor("7", None), CallFor("7", "d2")}

MCErrorTexts ==
  {[names |-> {"FAILED_PRECONDITION", "NOT_FOUND"}, link |-> TRUE],
   [names |-> {"NOT_FOUND", "UNAVAILABLE"}, link |-> FALSE],
   [names |-> {"UNAVAILABLE"}, link |-> FALSE]}
=============================================================================
