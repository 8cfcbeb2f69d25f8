SPECIFICATION FairClientSpec
CONSTANTS
  n1 = n1  n2 = n2  a4 = a4  b4 = b4  a6 = a6  old = old  new = new
  m1 = m1  m2 = m2  g1 = g1  g2 = g2  w1 = w1  w2 = w2
  Names <- mc_Names  IPv4 <- mc_IPv4  IPv6 <- mc_IPv6
  Hosts <- mc_Hosts  Manual = {m1}
  Calls <- mc_OpenAndClose  Workers = {w1, w2}  Guests = {g1}  InitLists <- ManualList
  CreateAt = "head"  FaultKinds = {"rejected", "lost"}  MaxFaults = 1  MaxEdits = 1
INVARIANT ClientTypeOK
INVARIANT MutexGuardsFetch
INVARIANT CacheCoherent
PROPERTY EveryCallReturns
