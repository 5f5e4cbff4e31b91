CONSTANTS
  Procs = {p1, p2}
  Grants = {g1, g2}
  NoGrant = NoGrant
  NumCommands = 2
  TornWrites = TRUE
  MaxCrashes = 2
  MaxFaults = 1
SPECIFICATION FairSpec
INVARIANTS TypeOK OutcomeTruthful RecordsReconcilable
PROPERTIES ImplementsLifecycle ConsumedEnds
