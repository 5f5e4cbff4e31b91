SPECIFICATION Spec
CONSTANTS
  Required = 1
  MaxFree = 1
  RecordsOnWork = FALSE
  Residues = {"mountJournal", "chrootLock"}
  MaxChanges = 0
  MaxSessions = 1
  MaxStops = 0
INVARIANTS StaleLockRefused
CHECK_DEADLOCK FALSE
