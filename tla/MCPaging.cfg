SPECIFICATION Spec
CONSTANTS
  Tables = {"t"}
  Ids = {1, 2, 3}
  Ranks = {1, 2, 3}
  Queries <- MCQueries
  Pagings <- MCPagings
  InitialDocs <- MCInitialDocs
  Commands <- NoCommands
  Outcomes = {"ok", "failed"}
  CountCapacity = 1
  CountTtl = 1
  CursorCapacity = 1
  CursorTtl = 1
  MaxTime = 2
  MaxVersion <- MCMaxVersion
  None = None
INVARIANTS
  TypeOK
  CountsExact
  CursorsExact
  PagesExact
PROPERTY ErrorsCacheNothing
