CONSTANTS
  Procs = {p1, p2}
  NumManaged = 1
  NumServices = 1
  Files = {original, package}
  Original = original
  Aliens = {}
  OrphanCommands = TRUE
  TornWrites = FALSE
  MaxLocks = 2
  MaxCrashes = 1
  MaxFaults = 0
CHECK_DEADLOCK FALSE
SPECIFICATION FairSpec
PROPERTIES LockReleased
INVARIANTS BackupNamed
