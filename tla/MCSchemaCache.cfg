SPECIFICATION Spec
CONSTANTS
  None = None
  NotADirectory = NotADirectory
  Invalid = Invalid
  Databases = {"d1", "d2"}
  Tables = {"t", "u"}
  Documents <- MCDocuments
  InitialStores <- MCInitialStores
  Setups <- MCSetups
  Batches <- MCBatches
  Bodies <- MCBodies
  Shared <- MCShared
  SampleSize = 1
  Width = 2
  MaxSize = 2
INVARIANTS
  TypeOK
  OverridesBelongToSettings
  RowsMatchTold
  RefusedOnlyForDeclared
  EveryTableReported
PROPERTIES
  CachedUntilSnapshot
  EveryRequestAnswered
