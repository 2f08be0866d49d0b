SPECIFICATION Spec
CONSTANTS
  MaxBytes = 2
  Lines = {"v"}
  MayFork = FALSE
  MaxFaults = 2
  FaultKinds = {"engine_crash", "cleanup"}
INVARIANTS
  EventsExactlyOnce
