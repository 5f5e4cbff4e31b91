CONSTANTS
  OutputLimit = 3
  ReadChunk = 2
  MaxOutput = 2
  Offspring = {"grouped"}
  SignalsFail = TRUE
SPECIFICATION FairSpec
CHECK_DEADLOCK FALSE
INVARIANTS TypeOK StatusTruthful LimitExact NothingLeftUnreported
PROPERTIES ReturnsWhenReleased
