CONSTANTS
  Kinds = {"build", "finish", "other"}
  TornWrites = TRUE
  MaxBuilds = 2
  MaxCrashes = 2
  MaxFaults = 2
SPECIFICATION FairSpec
INVARIANTS TypeOK FinalsMatch SessionsHandOver
PROPERTIES PairSurvives ReadyPublishes
