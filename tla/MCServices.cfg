SPECIFICATION ServicesSpec
CHECK_DEADLOCK FALSE
CONSTANTS
  PerUser = 1
  BufferSize = 1
  MaxConns = 2
  MaxPushes = 2
  Pushing = {d1}
  Pushes = {p1, p2}
  QueueCap = 1
  InboxCap = 1
  MaxStores = 2
  MaxRefusals = 2
  Kept = {s1}
  Sealed = {2}
  KeepNewest = 1
  MaxUploads = 2
  MaxBackups = 2
  MaxDamages = 1
  Browsers = {b1}
  Devices = {d2}
  CodeSteps = {1}
  MaxTicks = 2
  MaxPasswords = 2
  MaxSecrets = 1
  MaxCodes = 1
  MaxTroubles = 1
  Attempts = {a1, a2}
  LockAfter = 2
  LockWindow = 2
  LockAtMost = 3
  MaxMinutes = 5
  MaxFailures = 4
  Owners = {o1, o2}
  OldKeys = {"linux", "windows"}
  MergeStep = 1
  LastStep = 2
  MaxFalls = 2
  Platforms = {"linux", "darwin", "windows"}
  Askers = {tray, page}
  MaxReleases = 2
  MaxMisfortunes = 2
  Requests = {q1, q2}
  MaxAccounts = 2
  MaxMishaps = 1
  MaxLoops = 2
  MaxClicks = 2
  MaxEdits = 1
  MaxSetbacks = 1
  Games = {g1}
  Updaters = {w1, w2}
  MaxUpdates = 2
  Forms = {f1, f2}
  MaxForms = 2
  MaxLapses = 1
  MaxChanges = 1
  MaxRuns = 2
  MaxFaults = 1
  Places = {x1, x2}
  MaxWrites = 1
  MaxSpoils = 1
  Viewers = {v1, v2}
  MaxViews = 3
  MaxOlder = 1
  MaxBroken = 1
INVARIANTS
  ServicesTypeOK
  EventsGetThrough
  RefusedIsListed
  DamageIsRepairable
  SpentStaysSpent
  LockHasCause
  MigrationKeepsSaves
  UpdateLeavesAClient
  DeletionIsWhole
  ResumeCatchesUp
  MenuTellsOfConflicts
  SettingsInForce
  PlaintextOnlyWhenTold
  ArchiveKeepsMeaning
  CachedIsServed
