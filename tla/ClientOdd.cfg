SPECIFICATION FairSpec
CONSTANTS
  None = None
  Sessionless = Sessionless
  hd = hd
  app = app
  bad = bad
  Threads = {t1, t2}
  Insts = {i1, i2, i3, i4, i5, i6}
  Chains = {c1, c2, c3, c4, c5, c6, c7, c8, c9}
  Libs = {hd, app, bad}
  KindOf <- MCKindOf
  Sessions = {key}
  Services = {"calc", "odd"}
  GlobalList <- OddCommon
  ServiceList <- OddServices
  Faulty = {hd}
  MaxCalls = 2
PROPERTIES
  LossOnlyWhere
  ResponsesMirror
  CallsEnd
CHECK_DEADLOCK FALSE
