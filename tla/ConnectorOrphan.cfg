SPECIFICATION FairSpec
CONSTANTS
  Workers = {w1}
  MaxRuns = 2
  MaxConcurrency = 1
  MaxFaults = 1
PROPERTY OrphansAreClosed
