SPECIFICATION Spec
CONSTANTS
  MaxBytes = 1
  Lines = {"v"}
  MayFork = FALSE
  MaxFaults = 1
  FaultKinds = {"kevent"}
INVARIANTS
  AbandonedMeansSupervisorDead
