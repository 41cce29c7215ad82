SPECIFICATION Spec
CONSTANTS
  None = None
  Rfc3339 <- MCRfc3339
  Letters <- MCLetters
  Wide <- MCWide
  Width = 4
  MaxU64 = 15
  MaxU32 = 7
  MaxDepth = 3
  Wholes <- MCWholes
  Decimal <- MCDecimal
  Read <- Parse
  Means <- Meanings
  DefaultLimit = 7
  Pagings <- MCPagings
  MaxValues = 2
  Alphabet <- MCAlphabet
  Texts <- MCTexts
  Typed <- MCTyped
  Docs <- MCDocs
  MaxChanges = 1
INVARIANT IdOrderKeepsRows
