CONSTANTS
  NumRequests = 2
  Recursive = {2}
  Missing = {2}
  Kinds = {"hook", "shell", "clean"}
  TornWrites = FALSE
  MaxCrashes = 0
  MaxFaults = 0
  MaxHost = 0
  MaxTrouble = 0
SPECIFICATION Spec
INVARIANTS SessionSettles
