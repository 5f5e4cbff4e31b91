CONSTANTS
  NumRequests = 2
  Recursive = {2}
  Missing = {2}
  Kinds = {"hook", "shell", "clean"}
  TornWrites = TRUE
  MaxCrashes = 2
  MaxFaults = 1
  MaxHost = 1
  MaxTrouble = 2
SPECIFICATION FairSpec
INVARIANTS TypeOK ResourcesNamed SessionsHandOver UndisturbedClean
PROPERTIES OnlyOwnUnmounted JournalSettles
