CONSTANTS
  Procs = {p1, p2}
  NumManaged = 1
  NumServices = 1
  Files = {original, package}
  Original = original
  Aliens = {"link", "dir"}
  OrphanCommands = FALSE
  TornWrites = TRUE
  MaxLocks = 2
  MaxCrashes = 2
  MaxFaults = 0
SPECIFICATION Spec
SYMMETRY ProcessSymmetry
INVARIANTS TypeOK MutualExclusion OwnerUndisturbed NoResidueWithoutLock StaleRecoverable
PROPERTIES ReplacementKept
CHECK_DEADLOCK FALSE
