SPECIFICATION ProgressSpec
CHECK_DEADLOCK FALSE
CONSTANTS
  PlainJobs = {}
  MaxRuns = 2
  MaxAsks = 1
  MaxUpsets = 1
  MaxBacklog = 2
  MaxCycles = 2
  MaxStreak = 1
  Requests = {r1}
  MaxTokens = 3
  MaxOutages = 1
  MaxPages = 2
  MaxRevs = 2
  DeadAfter = 1
  PageBudget = 1
  ValveShare = 2
  MaxFaults = 1
  Titles = {g1, g2}
  Locations = {a, b}
  MaxExports = 2
  LastSecond = 2
  DayLength = 2
  PageCap = 1
  ReconcileShare = 2
  MaxMishaps = 1
INVARIANTS
  ProgressTypeOK
  OneRunPerJob
  JobRowsTellTruth
  TokenKept
  RowTellsTruth
  NoForgottenChange
  MergedIsImported
  DeltaWillTell
PROPERTIES
  JobsEnd
  TokenHeals
  MissingPagesAreTried
  BundlesArrive
