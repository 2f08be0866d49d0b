SPECIFICATION Spec
CONSTANTS
  MaxBytes = 1
  Lines = {"m"}
  MayFork = FALSE
  MaxFaults = 1
  FaultKinds = {"engine_crash"}
INVARIANTS
  CleanupRequiredNeverCompletes
