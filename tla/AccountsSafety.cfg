SPECIFICATION Spec
CONSTANTS
  Users = {u1}
  Clients = {c1, c2}
  Emails = {e1, e2}
  ActivationDays = 2
  AdjustDays = 1
  DirectDates = {0, 3}
  MaxTime = 2
  MaxEvents = 2
  MaxFaults = 1
SYMMETRY Symmetry
INVARIANTS
  LedgerReplays
  AccessRulesAgree
  ActivatedCanReturn
  EmailsAgree
PROPERTY DeletedStays
