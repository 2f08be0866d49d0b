SPECIFICATION Spec
CONSTANTS
  MaxBytes = 2
  Lines = {"m"}
  MayFork = TRUE
  MaxFaults = 1
  FaultKinds = {"supervisor_crash", "bootstrap", "cleanup", "reap", "kevent", "path", "store"}
INVARIANTS
  TerminalMeansQuiescent
  SealedMeansFrozen
  AnnouncedIsDurable
  CompletedMeansSuccess
  CorruptionRecorded
PROPERTIES
  SignalOnlyWhilePinned
  ReleasedWithAuthority
\* After a kevent error the daemon can block in cmd.Wait on a supervisor that
\* waits for an outbox row the daemon abandoned: neither ever moves again.
CHECK_DEADLOCK FALSE
