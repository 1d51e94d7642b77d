SPECIFICATION Spec
CONSTANTS
  Answers <- MCChunked
  Urls = {1}
  ReadSizes = {1, 4}
  MaxRedirects = 1
  Timeouts = TRUE
  MaxCalls = 1
PROPERTIES
  CloseIsThrown
CHECK_DEADLOCK FALSE
