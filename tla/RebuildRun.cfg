SPECIFICATION Spec
CONSTANTS
  r1 = r1
  r2 = r2
  Runs = {r1, r2}
  Executors = {TRUE, FALSE}
  None = None
  Undeletable = {"manifest", "squashfs"}
  BootFiles = TRUE
  MaxEdits = 1
  MaxDeaths = 2
  MaxFaults = 1
INVARIANTS TypeOK ImageWhole KernelCurrent DirectSucceeds
CHECK_DEADLOCK FALSE
