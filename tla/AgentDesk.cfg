SPECIFICATION Spec
CONSTANTS
  Scenarios <- Stories
  Files = {f1}
  Tags = {t1}
  People = {p1}
  MaxLog = 5
  MaxCalls = 3
  MaxDrafts = 1
  MaxFaults = 1
  Tickets = {k1, k2, k3}
  PageSize = 2
  MaxUpdates = 2
  MaxLoads = 2
  Notices = {n1, n2}
  MaxSignIns = 3
  MaxChains = 2
  MaxSeen = 2
  MaxBreaks = 1
INVARIANTS TypeOK SentOnce OneStream
 
CHECK_DEADLOCK FALSE
