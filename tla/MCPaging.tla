------------------------------- MODULE MCPaging ------------------------------
\* TLC instance of Plugin for paging: queries over one collection that others
\* write to, no writes of the plugin's own.
EXTENDS Plugin, TLC

MCQueries == {[table |-> "t", where |-> {1, 2, 3}, order |-> "rank"],
              [table |-> "t", where |-> {1, 2}, order |-> "id"]}

\* Pages of one row, one jump that skips, and a page given by the SQL alone.
MCPagings == {[page |-> p, size |-> 1, limit |-> None, offset |-> None] : p \in 1..3}
              \cup {[page |-> 2, size |-> 2, limit |-> None, offset |-> None],
                    [page |-> None, size |-> None, limit |-> 2, offset |-> 1]}

MCInitialDocs == {(1 :> 2) @@ (2 :> 3) @@ (3 :> 1)}
NoCommands == {}

MCMaxVersion == [t \in {"t"} |-> 1]
=============================================================================
