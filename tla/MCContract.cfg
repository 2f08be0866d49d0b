SPECIFICATION Spec
CONSTANTS
  MaxBytes = 1
  Lines = {"v"}
  MayFork = TRUE
  MaxFaults = 1
  FaultKinds = {"supervisor_crash", "engine_crash", "path", "store"}
PROPERTIES
  ImplementsContract
  ImplementsJournal
