CONSTANTS
  Openings = {"o1", "o2", "o3"}
  Categories = {"analyst", "engineer"}
  Locations = {"nyc", "sf"}
  Titles = {"analyst", "coder", "tester"}
  Anywhere = "anywhere"
  SearchTitles <- MCSearchTitles
  Topic <- MCTopic
  Terms <- MCTerms
  Place <- MCPlace
  Carries <- MCCarries
  Rank <- MCRank
  Similar <- MCSimilar
  Platform <- MCPlatform
  QueryLimit = 2
  Window = 1
  Users = {"u1", "u2"}
  Snapshots <- MCSnapshots
  Retention = 1
  MaxAttempts = 2
  MaxRuns = 2
  MaxTime = 3
  MaxEvents = 2
  MaxFaults = 2
SPECIFICATION Spec
INVARIANTS WantedJobsPublished StoredDetailCurrent PostingsAreTraceable
PROPERTY WithdrawnWhenUnseen
CHECK_DEADLOCK FALSE
