SPECIFICATION Spec
CONSTANTS
  Tables = {"t", "u"}
  Ids = {1, 2, 3}
  Ranks = {1, 2}
  Queries <- MCQueries
  Pagings <- MCPagings
  InitialDocs <- MCInitialDocs
  Commands <- MCCommands
  Outcomes = {"ok", "failed", "lost"}
  CountCapacity = 2
  CountTtl = 1
  CursorCapacity = 1
  CursorTtl = 1
  MaxTime = 0
  MaxVersion <- MCMaxVersion
  None = None
INVARIANTS
  ReadYourWrites
  DoneWritesStand
  RenameLosesNothing
PROPERTIES
  CreatesNeverOverwrite
  EveryRequestAnswered
