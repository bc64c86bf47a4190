SPECIFICATION Spec
CONSTANTS
  ConfigTypes = {jobs_config, skill_taxonomy}
  BuiltOnCurrent = {jobs_config}
  Clients = {c1, c2}
  Fields <- MCFields
  Values = {0, 1}
  Preferences <- MCPreferences
  Edits <- MCEdits
  Releases <- MCReleases
  MaxBundles = 3
  MaxEdits = 2
SYMMETRY Symmetry
PROPERTIES
  StaleUpdateRejected
