---------------------------- MODULE RunLifecycle ----------------------------
(***************************************************************************)
(* One run from launch to finalization: the worker's process group, its    *)
(* supervisor, the daemon, and the journal between them.                   *)
(***************************************************************************)
EXTENDS Engine

vars == <<row, identityFile, sup, faults, eng, procVars>>

Init == SupInit /\ ProcInit /\ EngInit

\* The worker's processes run on their own.
Workload ==
  /\ \/ \E b \in Lines \cup {"n"} : WorkerWrite(b)
     \/ WorkerFork
     \/ DescendantExit
     \/ \E code \in {0, 1} : WorkerExit(code)
     \/ ~Alive /\ OrphanReap
  /\ UNCHANGED engVars

\* The transcript's path is lost, once there is a file, and found again.
Disturbance ==
  /\ \/ Exists(row) /\ row.ident = ThisFile /\ TranscriptLost /\ Fault("path")
     \/ TranscriptRestored /\ NoFault
  /\ UNCHANGED <<row, identityFile, sup, eng>>

Supervise == (SupStep \/ SupCrash) /\ UNCHANGED eng

Next ==
  \/ Workload \/ Disturbance \/ Supervise \/ EngineTick \/ EngineApi
  \/ EngineCrash

Spec == Init /\ [][Next]_vars

-----------------------------------------------------------------------------
(***************************************************************************)
(* Fairness.  Each process runs, and the daemon is restarted after a       *)
(* crash.  A worker may ignore SIGTERM and never exit by itself: only      *)
(* SIGKILL ends it for certain, and an orphan, which nobody may signal, is *)
(* assumed to end.  A command that can be delivered and answered again and *)
(* again is, some time: the code sets no limit to its retries.             *)
(***************************************************************************)
WorkerEnds ==
  /\ signal = "kill" \/ ~Alive
  /\ DescendantExit \/ WorkerExit(1) \/ (~Alive /\ OrphanReap)
  /\ UNCHANGED engVars

Fairness ==
  /\ WF_vars(SupStep /\ UNCHANGED eng)
  /\ WF_vars(EngineTick)
  /\ WF_vars(WorkerEnds)
  /\ WF_vars(WatcherExit)
  /\ SF_vars(DeliverCancel /\ eng'.asked)
  /\ SF_vars((TickInspect \/ TickCancel) /\ eng'.ins # "ambiguous")
  /\ SF_vars(ReconcileAcknowledge)

FairSpec == Spec /\ Fairness

-----------------------------------------------------------------------------
(***************************************************************************)
(* Properties.                                                             *)
(***************************************************************************)
EndOfLines(kind) ==
  {i + 1 : i \in {j \in 1..Size - 1 : transcript[j] = kind}}
    \cup {i \in {Size} : i > 0 /\ transcript[i] = kind}

\* Every variable keeps to the values the code gives it, and the bounds of the
\* model do.
LifecycleTypeOK ==
  /\ worker \in {"none", "paused", "live", "zombie", "gone"}
  /\ descendant \in BOOLEAN /\ exitCode \in {0, 1} /\ named \in BOOLEAN
  /\ transcript \in Seq(Bytes) /\ Size <= MaxBytes
  /\ row.state \in States \cup {"none"}
  /\ sup.pc \in SupPcs
  /\ eng.pc \in EngPcs
  /\ eng.tail \in -1..MaxBytes
  /\ faults \in 0..MaxFaults

\* CommitTerminal and CommitNoProcessFailure are reached only when the leader
\* has been reaped (or never existed) and no member of its group is alive.
TerminalMeansQuiescent ==
  TerminalRow(row) => worker \in {"none", "gone"} /\ ~descendant

\* SealTranscript, whoever calls it, happens when nobody can write any more:
\* the seal is the size of the file from then on.
SealedMeansFrozen ==
  Exists(row) /\ row.final >= 0 => row.final = Size /\ GroupEmpty

\* Tailing never skips a complete valid line: every one below the consumed
\* offset is in the event log, across restarts and rewinds.
NoEventLost ==
  Exists(row) /\ row.ident # 0 =>
    \A off \in EndOfLines("v") :
      off <= row.consumed => \E i \in 1..Len(row.events) : row.events[i] = off

\* A transcript line is one event: the log never holds two events for the same
\* offset, so a reader that resumes after a sequence number sees each line once.
EventsExactlyOnce ==
  Exists(row) =>
    \A i, j \in 1..Len(row.events) : row.events[i] = row.events[j] => i = j

\* A malformed line that has been consumed leaves its mark: AdvanceTranscript-
\* Consumed follows the transition to cleanup_required, never precedes it.
CorruptionRecorded ==
  Exists(row) /\ (\E off \in EndOfLines("m") : off <= row.consumed) =>
    \E i \in 1..Len(row.trans) : row.trans[i] = "cleanup_required"

\* A run that has ever been cleanup_required does not complete.
CleanupRequiredNeverCompletes ==
  row.state = "completed" =>
    \A i \in 1..Len(row.trans) : row.trans[i] # "cleanup_required"

\* reconcileConfirmedDeadOutbox abandons an outbox row only when the supervisor
\* that owed the acknowledgement is gone.
AbandonedMeansSupervisorDead ==
  Exists(row) /\ row.outbox.ack = "abandoned" => ~Alive

\* A terminal state the supervisor has announced on its socket is the durable
\* one: the announcement follows the commit, is not made for a commit that was
\* refused or failed, and nothing the daemon does later contradicts it.
AnnouncedIsDurable ==
  sup.final # "none" => row.state = sup.final

\* A run is reported completed only if the leader exited with status zero
\* before any cancellation was accepted.
CompletedMeansSuccess ==
  row.state = "completed" => worker = "gone" /\ exitCode = 0 /\ ~row.cancel

\* SIGTERM is sent on the way to the grace period and SIGKILL at its end.
Signalled ==
  \/ sup.pc = "cleanup" /\ sup'.pc = "grace"
  \/ sup.pc = "grace" /\ sup'.pc = "killed"

\* A group is signalled, for the first time or again, only while its leader is
\* unreaped, so its id cannot name another group (cleanupGroup comes before
\* reapOwnedWorker).
SignalOnlyWhilePinned ==
  [][Signalled \/ signal' # signal => WorkerPresent]_vars

\* The worker is released only after all of its authority is published: identity
\* file, process ids, transcript identity, socket, and a transition to running
\* that the journal accepted (Supervisor.Run gives up when Transition fails).
ReleasedWithAuthority ==
  [][worker # "live" /\ worker' = "live" =>
       /\ identityFile /\ row.proc = ThisProcess /\ row.ident = ThisFile /\ sup.socket
       /\ \E i \in 1..Len(row.trans) : row.trans[i] = "running"]_vars

\* Supervisor and daemon use the journal only through its transactions.
JournalOfRun == INSTANCE RunStore WITH
  Runs <- {1}, Identities <- {ThisFile}, Processes <- {ThisProcess},
  MaxOffset <- MaxBytes, MaxEvents <- 100, MaxTransitions <- 100,
  rows <- [r \in {1} |-> row]
ImplementsJournal == JournalOfRun!Spec

\* Supervisor, daemon and worker group together keep the contract of a run.
Contract == INSTANCE RunContract WITH
  phase <- IF ~Exists(row) THEN "unknown"
           ELSE IF ~IsTerminal(row.state) THEN "active"
           ELSE IF row.outbox.ack = "pending" THEN "finished" ELSE "discharged",
  group <- IF worker = "none" THEN "never"
           ELSE IF worker \in {"paused", "live"} \/ descendant THEN "live" ELSE "ended",
  frozen <- Exists(row) /\ row.final >= 0,
  accounted <- Exists(row) /\ row.final >= 0 /\ row.consumed = row.final,
  cancel <- Exists(row) /\ row.cancel,
  result <- IF Exists(row) /\ IsTerminal(row.state) THEN row.state ELSE "none"
ImplementsContract == Contract!Spec

Finished == TerminalRow(row) /\ ~Active(row)

\* Once the worker has exited its run reaches a terminal state and its outbox
\* row is resolved, through a crash of the supervisor: the transcript is handed
\* over, or the daemon takes it over.
ExitedRunsFinish == (worker = "zombie" /\ row.proc # 0) ~> Finished

\* An accepted cancellation ends the run even if the worker never exits by
\* itself: the intent survives lost commands until it is delivered, and a crash of
\* the supervisor on the assumption that the orphan it leaves ends.
CancelledRunsFinish == (worker = "live" /\ row.cancel) ~> Finished

\* Both of the above through a crash of the daemon: Recover finds the run, tails
\* the rest of its transcript and delivers the cancellation it has only on disk.
RestartedRunsFinish ==
  (\/ worker = "zombie" /\ row.proc # 0
   \/ worker = "live" /\ row.cancel) ~> Finished

\* The daemon lets go of its child once the run is finalized.
FinishedChildIsReaped ==
  (TerminalRow(row) /\ eng.handle) ~> ~eng.handle
=============================================================================
