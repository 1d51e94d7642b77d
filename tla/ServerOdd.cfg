SPECIFICATION FairSpec
CONSTANTS
  None = None
  Sessionless = Sessionless
  sv = sv
  hd = hd
  hd2 = hd2
  cc = cc
  bad = bad
  Threads = {t1, t2}
  Insts = {i1, i2, i3, i4, i5, i6}
  Chains = {c1, c2, c3, c4}
  Libs = {sv, hd, hd2, cc, bad}
  KindOf <- MCKindOf
  Sessions = {temp}
  Services = {"plain", "c", "bad", "two"}
  ServiceEntry <- OddService
  FlowList <- OddFlows
  Faulty = {hd}
  Spoilers = {hd}
  MaxRequests = 2
PROPERTIES
  ServicesKept
  LossOnlyWhere
  RequestsEnd
CHECK_DEADLOCK FALSE
