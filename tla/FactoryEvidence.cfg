SPECIFICATION Spec
CONSTANTS
  Required = 1
  MaxFree = 2
  RecordsOnWork = FALSE
  Residues = {"chrootLock", "mountJournal", "chrootJournal", "candidate",
              "fileMissing", "nodeMissing", "rootMissing"}
  MaxChanges = 1
  MaxSessions = 2
  MaxStops = 1
INVARIANTS TypeOK EvidenceCoincides NothingOutstanding UnchangedWhenConsumed UndisturbedNotRevoked
CHECK_DEADLOCK FALSE
