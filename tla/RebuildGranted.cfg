SPECIFICATION Spec
CONSTANTS
  r1 = r1
  Runs = {r1}
  Executors = {TRUE}
  None = None
  Undeletable = {"manifest", "squashfs"}
  BootFiles = TRUE
  MaxEdits = 0
  MaxDeaths = 0
  MaxFaults = 0
INVARIANTS GrantedSucceeds
CHECK_DEADLOCK FALSE
