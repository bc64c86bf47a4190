SPECIFICATION Spec
CONSTANTS
  Workers = {w1, w2}
  Users = {u1}
  Clients = {c1, c2}
  Sources = {1}
  Jobs = {j1}
  MaxPersonal = 2
  MaxConcurrency = 1
  DailyLimit = 1
  MaxFaults = 2
SYMMETRY Symmetry
INVARIANTS
  WorkerOwnsRunning
  OneWorkerPerUser
  OneCurrentResult
  CurrentRowsPublished
PROPERTIES
  EndedRunsStay
  ResultsOnlyMoveForward
