SPECIFICATION Spec
CONSTANTS
  Answers <- MCAnswers
  Urls = {1, 2}
  ReadSizes = {1, 4}
  MaxRedirects = 1
  Timeouts = TRUE
  MaxCalls = 2
INVARIANTS
  TypeOK
  BufferCounted
  InOrder
  OwnAnswer
  WholeAnswer
  FreshConnection
  NothingOwed
  RedirectsBounded
  RequestIsWhole
PROPERTIES
  KeepAlive
CHECK_DEADLOCK FALSE
