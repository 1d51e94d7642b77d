\* Two administrators and one request at a time; at most two updates, two
\* requests and one restart.
SPECIFICATION Spec
CONSTANTS
  Names = {1, 2}
  Libs = {1, 2}
  Cells = {1, 2, 3}
  Documents <- MCDocuments
  FirstFile <- MCFirstFile
  Admins = {a1, a2}
  Requests = {1}
  MaxUpdates = 2
  MaxRequests = 2
  MaxRestarts = 1
SYMMETRY MCSymmetry
INVARIANTS
  TypeOK
  OwnLibraryUnless
  NamedUnless
PROPERTIES
  RemovedOnlyByUndeployment
  SurvivesRestart
\* The bounds end every behaviour, and a descriptor that cannot be read ends
\* the program.
CHECK_DEADLOCK FALSE
