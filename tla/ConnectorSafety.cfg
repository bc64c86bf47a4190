SPECIFICATION Spec
CONSTANTS
  Workers = {w1, w2}
  MaxRuns = 2
  MaxConcurrency = 1
  MaxFaults = 1
SYMMETRY WorkerSymmetry
INVARIANTS
  PublicationPathOwned
  OneOwnerPerRun
  OneScheduledActive
  SuccessIsBacked
PROPERTY NeverRunAgain
