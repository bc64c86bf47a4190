SPECIFICATION Spec
CONSTANTS
  Workers = {w1}
  Users = {u1}
  Clients = {c1}
  Jobs = {}
  MaxRuns = 2
  MaxPersonal = 2
  MaxConcurrency = 1
  DailyLimit = 2
  MaxRetries = 3
  MaxFaults = 2
SYMMETRY Symmetry
INVARIANTS
  HandOffReady
  WorkflowConstraints
PROPERTIES
  ImplementsConnectorRefresh
  ImplementsPersonalRuns
  ImplementsPromise
