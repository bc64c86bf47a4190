SPECIFICATION FairSpec
CONSTANTS
  Workers = {w1, w2}
  Users = {u1}
  Clients = {c1}
  Jobs = {}
  MaxRuns = 2
  MaxPersonal = 1
  MaxConcurrency = 1
  DailyLimit = 1
  MaxRetries = 3
  MaxFaults = 0
PROPERTIES
  FirstRefreshEnds
  QueuedRunEnds
