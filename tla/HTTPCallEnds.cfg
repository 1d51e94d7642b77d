SPECIFICATION Spec
CONSTANTS
  Answers <- MCAnswers
  Urls = {1}
  ReadSizes = {2}
  MaxRedirects = 1
  Timeouts = FALSE
  MaxCalls = 2
PROPERTIES
  CallEndsUnless
CHECK_DEADLOCK FALSE
