------------------------------- MODULE MCCrud -------------------------------
\* TLC instance of Plugin for writes: every write handler beside queries over
\* the same collection and over another one, and other writers.
EXTENDS Plugin, TLC

MCQueries == {[table |-> t, where |-> {1, 2}, order |-> "rank"] : t \in {"t", "u"}}
MCPagings == {[page |-> p, size |-> 1, limit |-> None, offset |-> None] : p \in {1, 2}}

MCInitialDocs == {(1 :> 2) @@ (2 :> 1)}

MCCommands ==
  {[kind |-> "insert", table |-> "t", id |-> i, rank |-> 2] : i \in {None, 2}}
  \cup {[kind |-> "update", table |-> "t", id |-> 2, rank |-> 1],
        [kind |-> "delete", table |-> "t", id |-> 1]}
  \cup {[kind |-> "rename", table |-> "t", id |-> 1, new |-> i, rank |-> None, stage |-> None] :
          i \in {1, 2, 3}}

MCMaxVersion == [t |-> 2, u |-> 0]
=============================================================================
