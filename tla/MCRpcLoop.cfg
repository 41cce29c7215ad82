SPECIFICATION Spec
CONSTANTS
  None = None
  Null = Null
  NoProject = NoProject
  Ids = {"7", Null}
  Projects = {"p1", "p2", NoProject}
  Databases = {"d1", "d2"}
  Lines <- MCLines
  ErrorTexts <- MCErrorTexts
  MaxLines = 3
INVARIANTS
  TypeOK
  FirstAcceptedRules
  ClientsSpeakToOneProject
  PingVouchesForDefault
PROPERTIES
  ImplementsSerialServer
CHECK_DEADLOCK FALSE
