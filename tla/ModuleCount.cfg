SPECIFICATION Spec
CONSTANTS
  host = host
  app = app
  Calls = {c1, c2}
  Programs = {host, app}
  IsServer <- MCIsServer
  MaxStarts = 4
INVARIANTS
  TypeOK
  CountExact
  HoldersServed
  RunningHasGlobals
CHECK_DEADLOCK FALSE
