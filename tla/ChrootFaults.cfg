CONSTANTS
  Procs = {p1}
  NumManaged = 1
  NumServices = 2
  Files = {original, package}
  Original = original
  Aliens = {"dir"}
  OrphanCommands = FALSE
  TornWrites = TRUE
  MaxLocks = 2
  MaxCrashes = 1
  MaxFaults = 2
CHECK_DEADLOCK FALSE
SPECIFICATION Spec
INVARIANTS WriteAhead
PROPERTIES RetiredRestored
