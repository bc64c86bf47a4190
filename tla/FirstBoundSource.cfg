SPECIFICATION Spec
CONSTANTS
  Workers = {w1, w2}
  Users = {u1}
  Clients = {c1}
  Jobs = {}
  MaxRuns = 1
  MaxPersonal = 1
  MaxConcurrency = 1
  DailyLimit = 2
  MaxRetries = 3
  MaxFaults = 1
SYMMETRY Symmetry
INVARIANT BoundSourceIsSuccessful
