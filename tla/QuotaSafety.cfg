SPECIFICATION Spec
CONSTANTS
  Clients = {c1}
  MaxRuns = 4
  MaxResets = 1
  DailyLimit = 1
  Standard <- Eastern
  Spring <- SecondDay2AM
  Fall <- FourthDay2AM
  Instants <- AroundSixAM
INVARIANTS
  WindowIsLocalDay
  DayOverrunBounded
PROPERTY ResetsAsPromised
CHECK_DEADLOCK FALSE
