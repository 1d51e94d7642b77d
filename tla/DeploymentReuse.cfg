\* One administrator and one request at a time: a service is undeployed and
\* another one, in another library, deployed.
SPECIFICATION Spec
CONSTANTS
  Names = {1, 2}
  Libs = {1, 2}
  Cells = {1, 2, 3, 4}
  Documents <- MCReplace
  FirstFile <- MCFirstFile
  Admins = {a1}
  Requests = {1}
  MaxUpdates = 2
  MaxRequests = 2
  MaxRestarts = 0
INVARIANTS
  OwnLibrary
CHECK_DEADLOCK FALSE
