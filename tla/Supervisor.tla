----------------------------- MODULE Supervisor -----------------------------
(***************************************************************************)
(* The per-run supervisor process, internal/supervisor/supervisor.go: New, *)
(* Run and everything they call.  It launches the paused worker, publishes *)
(* its authority, releases the worker, waits for its exit or for a cancel  *)
(* command, empties the process group, reaps the leader, seals the         *)
(* transcript, waits for the daemon to consume it, and commits the         *)
(* terminal state with its outbox row.                                     *)
(*                                                                         *)
(* sup.pc names the next call; between two calls any other process may     *)
(* take steps.  A step makes at most one store transaction.                *)
(***************************************************************************)
EXTENDS Journal, ProcessGroup

CONSTANTS FaultKinds,      \* which of the faults below may happen
          MaxFaults        \* how many may happen

VARIABLES row,             \* the rows of the run
          identityFile,    \* the identity record is on disk
          sup,             \* the memory of the supervisor process
          faults           \* faults so far

supVars == <<row, identityFile, sup, faults>>

\* Errors of the operating system on the way to the release, in cleanup and in
\* the reap, crashes, kevent errors, errors of the database, and a transcript
\* whose path is lost.
Faults == {"bootstrap", "cleanup", "reap", "supervisor_crash", "engine_crash",
           "kevent", "store", "path"}

ASSUME FaultAssumption == FaultKinds \subseteq Faults /\ MaxFaults \in Nat

Fault(kind) ==
  /\ kind \in FaultKinds
  /\ faults < MaxFaults
  /\ faults' = faults + 1
NoFault == UNCHANGED faults

ThisFile == 1              \* the identity of the transcript file
ThisProcess == 1           \* the pids of this supervisor and its worker

(***************************************************************************)
(* persisted is obligationPersisted and recorded cleanupFailureRecorded of *)
(* cleanupGroupUntilProven; seal is finalSize of awaitTranscriptDurability *)
(* (-1 before it) and sealed its flag; token is the one slot of cancelCh.  *)
(***************************************************************************)
SupIdle ==
  [pc |-> "absent", cancelled |-> FALSE, cleanupRequired |-> FALSE,
   final |-> "none", failure |-> FALSE, persisted |-> FALSE,
   recorded |-> FALSE, watched |-> TRUE, seal |-> -1, sealed |-> FALSE,
   target |-> "none", socket |-> FALSE, token |-> FALSE]

SupInit ==
  /\ row = NoRun
  /\ identityFile = FALSE
  /\ sup = SupIdle
  /\ faults = 0

SupPcs ==
  {"absent", "start", "transcript", "launch", "noprocess", "identity",
   "authority", "socket", "publish", "check", "release", "watch", "cancel",
   "obligation", "cleanup", "grace", "killed", "reap", "retain_reap",
   "retain_exit", "stat", "handoff", "seal", "progress", "finalize", "decide",
   "commit", "announce", "ack", "dead"}

Alive == sup.pc \notin {"absent", "dead"}
Go(pc) == sup' = [sup EXCEPT !.pc = pc]

\* The process ends: its socket is closed and its memory is gone.
Exited == [SupIdle EXCEPT !.pc = "dead"]
Exit == sup' = Exited

\* finishOwnedWorker is entered with or without a failure.  Nobody reads
\* cancelCh any more.
Finishing(s, failed) ==
  [s EXCEPT !.pc = IF failed THEN "obligation" ELSE "cleanup",
            !.failure = failed, !.persisted = ~failed, !.token = FALSE]

OnlySup == UNCHANGED <<row, identityFile, faults, procVars>>

-----------------------------------------------------------------------------
(***************************************************************************)
(* Bootstrap.                                                              *)
(***************************************************************************)

\* New refuses a run that has left `created'.
SupNew ==
  /\ sup.pc = "start"
  /\ \/ (IF row.state = "created" THEN Go("transcript") ELSE Exit) /\ NoFault
     \/ Fault("store") /\ Exit
  /\ UNCHANGED <<row, identityFile, procVars>>

\* createTranscript and SetTranscriptIdentity: O_EXCL makes this process the
\* only one that can publish an identity for the run.
SupTranscript ==
  /\ sup.pc = "transcript"
  /\ \/ /\ IdentityOk(row, ThisFile)
        /\ row' = IdentityRow(row, ThisFile)
        /\ Go("launch") /\ NoFault
     \/ Fault("bootstrap") /\ Go("noprocess") /\ UNCHANGED row
  /\ UNCHANGED <<identityFile, procVars>>

\* A positive pid transfers ownership even when its watcher failed.
SupLaunch ==
  /\ sup.pc = "launch"
  /\ \/ LaunchWorker /\ Go("identity") /\ NoFault
     \/ LaunchWorker /\ sup' = [sup EXCEPT !.pc = "identity", !.watched = FALSE]
                     /\ Fault("bootstrap")
     \/ Fault("bootstrap") /\ Go("noprocess") /\ UNCHANGED procVars
  /\ UNCHANGED <<row, identityFile>>

\* finishNoProcessFailure: whether or not the store accepts it, Run returns.
SupNoProcess ==
  /\ sup.pc = "noprocess"
  /\ \/ row' = (IF NoProcessOk(row) THEN NoProcessRow(row) ELSE row) /\ NoFault
     \/ Fault("store") /\ UNCHANGED row
  /\ Exit
  /\ UNCHANGED <<identityFile, procVars>>

SupWriteIdentity ==
  /\ sup.pc = "identity"
  /\ \/ identityFile' = TRUE /\ Go("authority") /\ NoFault
     \/ Fault("bootstrap") /\ sup' = Finishing(sup, TRUE) /\ UNCHANGED identityFile
  /\ UNCHANGED <<row, procVars>>

SupSetRunSupervisor ==
  /\ sup.pc = "authority"
  /\ \/ row' = SupervisorRow(row, ThisProcess) /\ Go("socket") /\ NoFault
     \/ Fault("bootstrap") /\ sup' = Finishing(sup, TRUE) /\ UNCHANGED row
  /\ UNCHANGED <<identityFile, procVars>>

\* ensureSocketAuthority: listen, serve, probe; the probe may fail.
SupListen ==
  /\ sup.pc = "socket"
  /\ \/ sup' = [sup EXCEPT !.pc = "publish", !.socket = TRUE] /\ NoFault
     \/ Fault("bootstrap") /\ sup' = Finishing([sup EXCEPT !.socket = TRUE], TRUE)
  /\ UNCHANGED <<row, identityFile, procVars>>

\* Mutant: a refused or failed transition is logged and forgotten.
SupPublishRegardless ==
  /\ sup.pc = "publish"
  /\ row' = IF TransitionOk(row, "running") THEN Moved(row, "running") ELSE row
  /\ sup' = IF sup.watched THEN [sup EXCEPT !.pc = "check"] ELSE Finishing(sup, TRUE)
  /\ UNCHANGED <<identityFile, faults, procVars>>

\* Transition to running; a worker without a watcher is never released.  The
\* transition is refused when the daemon has moved the run on already.
SupPublish ==
  /\ sup.pc = "publish"
  /\ \/ /\ TransitionOk(row, "running")
        /\ row' = Moved(row, "running")
        /\ sup' = IF sup.watched THEN [sup EXCEPT !.pc = "check"]
                                 ELSE Finishing(sup, TRUE)
        /\ NoFault
     \/ /\ ~TransitionOk(row, "running")
        /\ sup' = Finishing(sup, TRUE)
        /\ UNCHANGED row /\ NoFault
     \/ Fault("store") /\ sup' = Finishing(sup, TRUE) /\ UNCHANGED row
  /\ UNCHANGED <<identityFile, procVars>>

\* A durable cancellation is honoured before the worker runs.
SupCheckCancel ==
  /\ sup.pc = "check"
  /\ \/ /\ sup' = IF row.cancel THEN [sup EXCEPT !.pc = "cancel", !.cancelled = TRUE]
                                ELSE [sup EXCEPT !.pc = "release"]
        /\ NoFault
     \/ Fault("store") /\ sup' = Finishing(sup, TRUE)
  /\ UNCHANGED <<row, identityFile, procVars>>

SupRelease ==
  /\ sup.pc = "release"
  /\ \/ ReleaseWorker /\ Go("watch")
     \/ worker # "paused" /\ sup' = Finishing(sup, TRUE) /\ UNCHANGED procVars
  /\ UNCHANGED <<row, identityFile, faults>>

\* Mutant: the leader is reaped as soon as its exit is seen.
SupWatchReaps ==
  /\ sup.pc = "watch"
  /\ \/ ReapWorker /\ sup' = Finishing(sup, FALSE) /\ NoFault
     \/ /\ sup.token
        /\ sup' = [sup EXCEPT !.pc = "cancel", !.cancelled = TRUE, !.token = FALSE]
        /\ NoFault /\ UNCHANGED procVars
  /\ UNCHANGED <<row, identityFile>>

(***************************************************************************)
(* The select of Run: exact exit, a kevent error that closes the same      *)
(* channel, or a cancel command.                                           *)
(***************************************************************************)
SupWatch ==
  /\ sup.pc = "watch"
  /\ \/ worker = "zombie" /\ sup' = Finishing(sup, FALSE) /\ NoFault
     \/ worker # "zombie" /\ sup' = Finishing(sup, FALSE) /\ Fault("kevent")
     \/ sup.token /\ sup' = [sup EXCEPT !.pc = "cancel", !.cancelled = TRUE,
                                        !.token = FALSE] /\ NoFault
  /\ UNCHANGED <<row, identityFile, procVars>>

\* cancelOwnedWorker: RequestCancellation; a run still `created' is an error.
SupCancel ==
  /\ sup.pc = "cancel"
  /\ \/ /\ row' = IF CancellationOk(row) THEN CancellationRow(row) ELSE row
        /\ sup' = Finishing(sup, IsTerminal(row.state) \/ row'.state = "created")
        /\ NoFault
     \/ Fault("store") /\ sup' = Finishing(sup, TRUE) /\ UNCHANGED row
  /\ UNCHANGED <<identityFile, procVars>>

-----------------------------------------------------------------------------
(***************************************************************************)
(* Cleanup: the group is emptied while the unreaped leader pins its id.    *)
(***************************************************************************)

\* Mutant: the obligation is not written.
RetainedNot == row

\* retainCleanupObligation.
CanRetain == row.state = "cleanup_required" \/ TransitionOk(row, "cleanup_required")
Retained ==
  IF row.state = "cleanup_required" THEN row ELSE Moved(row, "cleanup_required")

\* A failed attempt is retried on the next turn of the loop.
SupObligation ==
  /\ sup.pc = "obligation"
  /\ \/ /\ row' = IF CanRetain THEN Retained ELSE row
        /\ sup' = [sup EXCEPT !.pc = "cleanup", !.persisted = CanRetain,
                              !.cleanupRequired = @ \/ CanRetain]
        /\ NoFault
     \/ Fault("store") /\ Go("cleanup") /\ UNCHANGED row
  /\ UNCHANGED <<identityFile, procVars>>

\* The group was seen empty, or an attempt to empty it failed.
Proven(s) ==
  [s EXCEPT !.pc = IF s.persisted THEN "reap" ELSE "obligation"]
CleanupFailed(s) ==
  LET failed == IF s.recorded THEN s
                ELSE [s EXCEPT !.failure = TRUE, !.recorded = TRUE,
                               !.persisted = FALSE]
  IN  [failed EXCEPT !.pc = IF failed.persisted THEN "cleanup" ELSE "obligation"]

\* Enumerate, then SIGTERM if anyone is left.
SupTerm ==
  /\ sup.pc = "cleanup"
  /\ \/ GroupEmpty /\ sup' = Proven(sup) /\ UNCHANGED procVars /\ NoFault
     \/ ~GroupEmpty /\ SignalGroup("term") /\ Go("grace") /\ NoFault
     \/ sup' = CleanupFailed(sup) /\ UNCHANGED procVars /\ Fault("cleanup")
  /\ UNCHANGED <<row, identityFile>>

\* After the grace period, enumerate again and SIGKILL who is left.
SupKill ==
  /\ sup.pc = "grace"
  /\ \/ GroupEmpty /\ sup' = Proven(sup) /\ UNCHANGED procVars /\ NoFault
     \/ ~GroupEmpty /\ SignalGroup("kill") /\ Go("killed") /\ NoFault
     \/ sup' = CleanupFailed(sup) /\ UNCHANGED procVars /\ Fault("cleanup")
  /\ UNCHANGED <<row, identityFile>>

\* Poll until the group is empty, an enumeration fails or the deadline passes.
SupPoll ==
  /\ sup.pc = "killed"
  /\ \/ GroupEmpty /\ sup' = Proven(sup) /\ NoFault
     \/ sup' = CleanupFailed(sup) /\ Fault("cleanup")
  /\ UNCHANGED <<row, identityFile, procVars>>

\* reapOwnedWorker.
SupReap ==
  /\ sup.pc = "reap"
  /\ \/ ReapWorker /\ Go(IF row.required THEN "stat" ELSE "finalize") /\ NoFault
     \/ /\ sup' = [sup EXCEPT !.pc = "retain_reap", !.failure = TRUE]
        /\ UNCHANGED procVars /\ Fault("reap")
  /\ UNCHANGED <<row, identityFile>>

\* retainCleanupObligationUntilPersisted: it blocks until the store accepts.
\* After a reap error finalization goes on; after a transcript error Run ends.
SupRetain ==
  /\ sup.pc \in {"retain_reap", "retain_exit"}
  /\ CanRetain
  /\ row' = Retained
  /\ sup' = IF sup.pc = "retain_exit" THEN Exited
            ELSE [sup EXCEPT !.pc = "finalize", !.cleanupRequired = TRUE]
  /\ UNCHANGED <<identityFile, faults, procVars>>

-----------------------------------------------------------------------------
(***************************************************************************)
(* Handoff of the transcript: awaitTranscriptDurability.                   *)
(***************************************************************************)
TranscriptAuthority == identityFile /\ row.ident = ThisFile /\ named
HandoffFailed == sup' = [sup EXCEPT !.pc = "retain_exit", !.failure = TRUE]

SupStat ==
  /\ sup.pc = "stat"
  /\ IF TranscriptAuthority THEN sup' = [sup EXCEPT !.pc = "handoff", !.seal = Size]
                            ELSE HandoffFailed
  /\ OnlySup

\* The top of the loop reads the run row.
SupHandoff ==
  /\ sup.pc = "handoff"
  /\ IF IsTerminal(row.state) \/ row.ident # ThisFile THEN HandoffFailed
     ELSE Go(IF sup.sealed THEN "progress" ELSE "seal")
  /\ OnlySup

\* A changed size is permanent and ends the handoff; any other error of the
\* store is retried from the top of the loop.
SupSeal ==
  /\ sup.pc = "seal"
  /\ \/ /\ SealOk(row, sup.seal)
        /\ row' = SealRow(row, sup.seal)
        /\ sup' = [sup EXCEPT !.pc = "progress", !.sealed = TRUE]
        /\ NoFault
     \/ ~SealOk(row, sup.seal) /\ HandoffFailed /\ UNCHANGED row /\ NoFault
     \/ Fault("store") /\ Go("handoff") /\ UNCHANGED row
  /\ UNCHANGED <<identityFile, procVars>>

\* The daemon has consumed the transcript, or the loop starts over.
SupProgress ==
  /\ sup.pc = "progress"
  /\ \/ /\ IF \/ row.final # sup.seal
              \/ row.consumed > sup.seal
              \/ row.consumed = sup.seal /\ ~(TranscriptAuthority /\ Size = sup.seal)
           THEN HandoffFailed
           ELSE Go(IF row.consumed = sup.seal THEN "finalize" ELSE "handoff")
        /\ NoFault
     \/ Fault("store") /\ Go("handoff")
  /\ UNCHANGED <<row, identityFile, procVars>>

-----------------------------------------------------------------------------
(***************************************************************************)
(* Finalization.                                                           *)
(***************************************************************************)

\* ensureFinalizationAuthority republishes identity, row and socket until it
\* reads back its own authority and finds the transcript at its path.
SupFinalize ==
  /\ sup.pc = "finalize"
  /\ row.ident = ThisFile
  /\ identityFile' = TRUE
  /\ row' = SupervisorRow(row, ThisProcess)
  /\ sup' = IF named THEN [sup EXCEPT !.pc = "decide", !.socket = TRUE] ELSE sup
  /\ UNCHANGED <<faults, procVars>>

\* Mutant: the exit code is not looked at.
decideIgnoringExit ==
  IF row.state = "cleanup_required" THEN "failed"
  ELSE IF row.cancel \/ row.state = "cancelling" \/ sup.cancelled THEN "cancelled"
  ELSE "completed"

decideTerminal ==
  IF row.state = "cleanup_required" THEN "failed"
  ELSE IF row.cancel \/ row.state = "cancelling" \/ sup.cancelled THEN "cancelled"
  ELSE IF exitCode = 0 THEN "completed" ELSE "failed"

\* Mutant: the verdict is announced before it is durable.
SupDecideAnnounces ==
  /\ sup.pc = "decide"
  /\ LET target == IF sup.failure THEN "failed" ELSE decideTerminal
     IN  sup' = [sup EXCEPT !.pc = "commit", !.target = target, !.final = target]
  /\ OnlySup

\* A run whose row cannot be read is a failed one.
SupDecide ==
  /\ sup.pc = "decide"
  /\ \/ /\ sup' = [sup EXCEPT !.pc = "commit",
                              !.target = IF sup.failure THEN "failed" ELSE decideTerminal]
        /\ NoFault
     \/ Fault("store") /\ sup' = [sup EXCEPT !.pc = "commit", !.target = "failed"]
  /\ UNCHANGED <<row, identityFile, procVars>>

\* CommitTerminal; a refused completion is committed as a cancellation, and any
\* other error ends the process with the run still active.
SupCommit ==
  /\ sup.pc = "commit"
  /\ \/ /\ CommitTerminalOk(row, sup.target)
        /\ row' = CommitTerminalRow(row, sup.target)
        /\ Go("announce") /\ NoFault
     \/ /\ CancellationRefuses(row, sup.target) /\ ~sup.failure
        /\ sup' = [sup EXCEPT !.target = "cancelled"]
        /\ UNCHANGED row /\ NoFault
     \/ /\ ~CommitTerminalOk(row, sup.target)
        /\ ~(CancellationRefuses(row, sup.target) /\ ~sup.failure)
        /\ Exit
        /\ UNCHANGED row /\ NoFault
     \/ Fault("store") /\ Exit /\ UNCHANGED row
  /\ UNCHANGED <<identityFile, procVars>>

\* Only now do the socket's answers name the terminal state.
SupAnnounce ==
  /\ sup.pc = "announce"
  /\ sup' = [sup EXCEPT !.pc = "ack", !.final = sup.target]
  /\ OnlySup

\* acknowledgeOutboxUntilDurable: an abandoned row is never acknowledged.
SupAcknowledge ==
  /\ sup.pc = "ack"
  /\ row.outbox.ack \in {"pending", "acknowledged"}
  /\ row' = IF ResolveOk(row) THEN ResolveRow(row, "acknowledged") ELSE row
  /\ Exit
  /\ UNCHANGED <<identityFile, faults, procVars>>

SupStep ==
  \/ SupNew \/ SupTranscript \/ SupLaunch \/ SupNoProcess \/ SupWriteIdentity
  \/ SupSetRunSupervisor \/ SupListen \/ SupPublish \/ SupCheckCancel
  \/ SupRelease \/ SupWatch \/ SupCancel \/ SupObligation \/ SupTerm \/ SupKill
  \/ SupPoll \/ SupReap \/ SupRetain \/ SupStat \/ SupHandoff \/ SupSeal
  \/ SupProgress \/ SupFinalize \/ SupDecide \/ SupCommit \/ SupAnnounce
  \/ SupAcknowledge

\* The process is killed.
SupCrash ==
  /\ Alive
  /\ Exit
  /\ Fault("supervisor_crash")
  /\ UNCHANGED <<row, identityFile, procVars>>

-----------------------------------------------------------------------------
(***************************************************************************)
(* The command socket: commandResponse and handleConn.                     *)
(***************************************************************************)
commandResponse ==
  IF sup.final # "none" THEN sup.final
  ELSE IF sup.cleanupRequired THEN "cleanup_required"
  ELSE IF sup.cancelled THEN "cancelling" ELSE "running"

\* The cancel command fills the empty slot of cancelCh, unless the supervisor
\* is cancelling already.  A slot that is filled when the select of Run is over
\* has no reader and is left out.
SelectAhead == sup.pc \in {"publish", "check", "release", "watch"}
CancelCommand == [sup EXCEPT !.token = @ \/ (~sup.cancelled /\ SelectAhead)]
=============================================================================
