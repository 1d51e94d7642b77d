SPECIFICATION Spec
CONSTANTS
  None = None
  Sessionless = Sessionless
  hd = hd
  app = app
  bad = bad
  Threads = {t1, t2}
  Insts = {i1, i2, i3, i4, i5}
  Chains = {c1, c2, c3, c4, c5, c6}
  Libs = {hd, app, bad}
  KindOf <- MCKindOf
  Sessions = {key}
  Services = {"calc", "odd"}
  GlobalList <- NoCommon
  ServiceList <- CallsServices
  Faulty = {hd}
  MaxCalls = 3
INVARIANTS
  OwnChainsOnly
CHECK_DEADLOCK FALSE
