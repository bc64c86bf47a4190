SPECIFICATION Spec
CONSTANTS
  Users = {u1}
  Jobs = {j1, j2}
  Clients = {c1, c2}
  MaxDay = 2
  MaxChanges = 3
  MaxRefreshes = 3
  MaxFaults = 1
SYMMETRY JobAndClientSymmetry
INVARIANTS
  FunnelIsLive
  TrendIsExact
  StatusHistoryChains
CHECK_DEADLOCK FALSE
