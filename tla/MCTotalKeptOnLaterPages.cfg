SPECIFICATION PromptSpec
CONSTANTS
  Tables = {"t"}
  Ids = {1, 2, 3, 4}
  Ranks = {1, 2}
  Queries <- MCQueries
  Pagings <- MCPagings
  InitialDocs <- MCInitialDocs
  Commands <- MCCommands
  Outcomes = {"ok", "failed"}
  CountCapacity = 1
  CountTtl = 1
  CursorCapacity = 1
  CursorTtl = 1
  MaxTime = 2
  MaxVersion <- MCMaxVersion
  None = None
INVARIANT TotalKeptOnLaterPages
