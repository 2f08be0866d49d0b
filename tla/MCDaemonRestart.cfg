SPECIFICATION Spec
CONSTANTS
  MaxBytes = 2
  Lines = {"v", "m"}
  MayFork = FALSE
  MaxFaults = 1
  FaultKinds = {"engine_crash", "path", "store"}
INVARIANTS
  LifecycleTypeOK
  CorruptionRecorded
  NoEventLost
  EventsExactlyOnce
  AbandonedMeansSupervisorDead
