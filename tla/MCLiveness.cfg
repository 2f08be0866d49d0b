SPECIFICATION FairSpec
CONSTANTS
  MaxBytes = 1
  Lines = {"m"}
  MayFork = FALSE
  MaxFaults = 1
  FaultKinds = {"supervisor_crash"}
INVARIANTS
  CleanupRequiredNeverCompletes
PROPERTIES
  ExitedRunsFinish
  CancelledRunsFinish
  FinishedChildIsReaped
