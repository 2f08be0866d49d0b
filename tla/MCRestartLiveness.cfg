SPECIFICATION FairSpec
CONSTANTS
  MaxBytes = 1
  Lines = {}
  MayFork = FALSE
  MaxFaults = 1
  FaultKinds = {"engine_crash"}
PROPERTIES
  RestartedRunsFinish
