SPECIFICATION Spec
CONSTANTS
  None = None
  NotADirectory = NotADirectory
  Invalid = Invalid
  Docs = {"d1", "d2"}
  Fields = {"a", "b"}
  Table = "t"
  InitialStores <- MCInitialStores
  Files <- MCFiles
  Others <- MCOthers
  Typed <- MCTyped
  Values <- MCValues
  Jsons <- MCJsons
  SerializeInner <- MCSerializeInner
  UnhintedInner <- MCUnhintedInner
  StorableInner <- MCStorableInner
  MaxChanges = 1
INVARIANTS
  TypeOK
PROPERTIES
  OneCellAtATime
  ShowsWhatWasTyped
  UneditedKeptIffSurvives
  SavesSettle
