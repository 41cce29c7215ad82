-------------------------------- MODULE Crud --------------------------------
(***************************************************************************)
(* The write handlers of src/src/handlers/crud.rs: insert_record,          *)
(* update_record, delete_record and rename_document, which an edit of the  *)
(* id cell turns into read, check, create, delete.  Every call to the      *)
(* database is a step, others write between them, and a call               *)
(*                                                                         *)
(*   - succeeds ("ok"), or                                                 *)
(*   - is refused or never arrives ("failed"), or                          *)
(*   - takes effect, but its answer does not come back ("lost").           *)
(*                                                                         *)
(* What the handler does with an answer reads nothing but that answer, so  *)
(* it belongs to the step of the call.                                     *)
(***************************************************************************)
EXTENDS PluginState

CONSTANTS
  Commands,  \* the writes the host asks for
  Outcomes   \* how calls may end, "failed" among them

WriteCommands ==
  [kind : {"insert"}, table : Tables, id : Ids \cup {None}, rank : Ranks]
  \cup [kind : {"update"}, table : Tables, id : Ids, rank : Ranks]
  \cup [kind : {"delete"}, table : Tables, id : Ids]
  \cup [kind : {"rename"}, table : Tables, id : Ids, new : Ids, rank : {None}, stage : {None}]

ASSUME CommandsAssumption == Commands \subseteq WriteCommands
ASSUME OutcomesAssumption ==
  "failed" \in Outcomes /\ Outcomes \subseteq {"ok", "failed", "lost"}

\* One writing call.  It can only fail when the database would refuse it, or
\* when the bound on versions is reached.
Call(t, accepted, docs, out) ==
  IF out = "failed" THEN UNCHANGED <<store, version>>
                    ELSE accepted /\ Write(t, docs)

\* create_doc refuses an id that exists; update_doc is sent without a
\* precondition; delete_by_id succeeds on what is not there.
\* The slip creates with a write that replaces.
CallReplace(t, i, rank, out) == Call(t, TRUE, WithDoc(store[t], i, rank), out)
CallCreate(t, i, rank, out) ==
  Call(t, i \notin DOMAIN store[t], WithDoc(store[t], i, rank), out)
CallUpdate(t, i, rank, out) == Call(t, TRUE, WithDoc(store[t], i, rank), out)
CallDelete(t, i, out) == Call(t, TRUE, WithoutDoc(store[t], i), out)

\* The answers a write gets: what was asked, and how it went.
Done(r) == [kind |-> "done", of |-> r]
GaveUp(r) == [kind |-> "failed", of |-> r]

\* The handlers' common end: on success alone the caches forget the table.
Conclude(r, out) ==
  LET t == r.table
  IN IF out = "ok"
       THEN /\ InvalidateTable(t)
            /\ acked' = [acked EXCEPT ![t] = version'[t]]
            /\ Answer(Done(r))
       ELSE /\ Answer(GaveUp(r))
            /\ UNCHANGED <<counts, cursors, acked>>

\* A missing parameter or required field, an empty new id, no client.
RejectWrite ==
  /\ req = Idle
  /\ Answer(Error)
  /\ UNCHANGED <<store, counts, cursors, now, history>>

\* Renaming a document to the id it has is answered without a call.
StartWrite(c) ==
  /\ req = Idle
  /\ IF c.kind = "rename" /\ c.new = c.id
       THEN Answer(Done(c))
       ELSE /\ reply' = None
            /\ req' = IF c.kind = "rename"
                        THEN [c EXCEPT !.stage = "get"]
                        ELSE c
  /\ foreign' = Undisturbed
  /\ UNCHANGED <<store, counts, cursors, now, version, acked>>

\* Without an explicit id the database picks one that is not in use.
InsertRecord ==
  /\ req.kind = "insert"
  /\ \E out \in Outcomes, i \in IF req.id = None THEN Ids ELSE {req.id} :
       /\ CallCreate(req.table, i, req.rank, out)
       /\ Conclude([req EXCEPT !.id = i], out)
  /\ UNCHANGED <<now, foreign>>

UpdateRecord ==
  /\ req.kind = "update"
  /\ \E out \in Outcomes :
       /\ CallUpdate(req.table, req.id, req.rank, out)
       /\ Conclude(req, out)
  /\ UNCHANGED <<now, foreign>>

DeleteRecord ==
  /\ req.kind = "delete"
  /\ \E out \in Outcomes :
       /\ CallDelete(req.table, req.id, out)
       /\ Conclude(req, out)
  /\ UNCHANGED <<now, foreign>>

\* rename_document reads the source ...
RenameGet ==
  /\ req.kind = "rename" /\ req.stage = "get"
  /\ \/ /\ req.id \in DOMAIN store[req.table]
        /\ req' = [req EXCEPT !.stage = "check", !.rank = store[req.table][req.id]]
        /\ UNCHANGED reply
     \/ Answer(GaveUp(req))
  /\ UNCHANGED <<store, counts, cursors, now, history>>

\* The slip waits for the new id to be free.
RenameCheckAgain ==
  /\ req.kind = "rename" /\ req.stage = "check"
  /\ \/ req.new \in DOMAIN store[req.table] /\ req' = [req EXCEPT !.stage = "get"]
     \/ req' = [req EXCEPT !.stage = "create"]
  /\ UNCHANGED <<store, counts, cursors, now, reply, history>>

\* ... and looks at the new id: only a document found there stops it, a call
\* that fails does not ...
RenameCheck ==
  /\ req.kind = "rename" /\ req.stage = "check"
  /\ \/ req.new \in DOMAIN store[req.table] /\ Answer(GaveUp(req))
     \/ req' = [req EXCEPT !.stage = "create"] /\ UNCHANGED reply
  /\ UNCHANGED <<store, counts, cursors, now, history>>

\* The slip goes on to the delete whatever became of the copy.
RenameCreateUnchecked ==
  /\ req.kind = "rename" /\ req.stage = "create"
  /\ \E out \in Outcomes : CallCreate(req.table, req.new, req.rank, out)
  /\ req' = [req EXCEPT !.stage = "delete"]
  /\ UNCHANGED <<counts, cursors, now, reply, acked, foreign>>

\* ... writes the copy, and stops where it stands when that fails ...
RenameCreate ==
  /\ req.kind = "rename" /\ req.stage = "create"
  /\ \E out \in Outcomes :
       /\ CallCreate(req.table, req.new, req.rank, out)
       /\ IF out = "ok"
            THEN /\ req' = [req EXCEPT !.stage = "delete"]
                 /\ UNCHANGED reply
            ELSE Answer(GaveUp(req))
  /\ UNCHANGED <<counts, cursors, now, acked, foreign>>

\* The slip takes the source for deleted whatever the call answered.
RenameDeleteUnchecked ==
  /\ req.kind = "rename" /\ req.stage = "delete"
  /\ \E out \in Outcomes : CallDelete(req.table, req.id, out)
  /\ Conclude(req, "ok")
  /\ UNCHANGED <<now, foreign>>

\* ... and deletes the source.
RenameDelete ==
  /\ req.kind = "rename" /\ req.stage = "delete"
  /\ \E out \in Outcomes :
       /\ CallDelete(req.table, req.id, out)
       /\ Conclude(req, out)
  /\ UNCHANGED <<now, foreign>>

WriteStep ==
  \/ InsertRecord \/ UpdateRecord \/ DeleteRecord
  \/ RenameGet \/ RenameCheck \/ RenameCreate \/ RenameDelete
CrudNext == RejectWrite \/ (\E c \in Commands : StartWrite(c)) \/ WriteStep
=============================================================================
