SPECIFICATION Spec
CONSTANTS
  None = None
  Sessionless = Sessionless
  sv = sv
  hd = hd
  hd2 = hd2
  cc = cc
  bad = bad
  Threads = {t1, t2}
  Insts = {i1, i2, i3, i4, i5}
  Chains = {c1, c2, c3}
  Libs = {sv, hd, hd2}
  KindOf <- MCKindOf
  Sessions = {temp}
  Services = {"plain"}
  ServiceEntry <- PoolsService
  FlowList <- PoolsFlows
  Faulty = {}
  Spoilers = {}
  MaxRequests = 3
INVARIANTS
  TypeOK
  ExclusiveUse
  ChainExclusive
  ApplicationSingleton
  ServiceReady
  MutexDiscipline
PROPERTIES
  LossOnlyWhere
  LeaseSpec
CHECK_DEADLOCK FALSE
