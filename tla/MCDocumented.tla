----------------------------- MODULE MCDocumented ----------------------------
\* Small TLC instance of Plugin for what comments and the design notes say of
\* it: three documents, two of which tie, a query by rank, one rename, and no
\* other writer.
EXTENDS Plugin, TLC

MCQueries == {[table |-> "t", where |-> {1, 2}, order |-> "rank"]}
MCPagings == {[page |-> p, size |-> 1, limit |-> None, offset |-> None] : p \in {1, 2}}
MCInitialDocs == {(1 :> 1) @@ (2 :> 1) @@ (3 :> 2)}
MCCommands == {[kind |-> "rename", table |-> "t", id |-> 1, new |-> 4, rank |-> None, stage |-> None]}
MCMaxVersion == [t \in {"t"} |-> 1]

\* Requests are answered before the clock moves on: an entry's age is then the
\* time since it was cached and not the time the calls took.
PromptSpec == Init /\ [][Next /\ (now' # now => req = Idle)]_vars
=============================================================================
