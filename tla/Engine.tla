------------------------------- MODULE Engine -------------------------------
(***************************************************************************)
(* The daemon, internal/lifecycle/engine.go, as it serves one run: the API *)
(* goroutines that launch and cancel it, startup recovery (Recover), the   *)
(* periodic tick, transcript tailing, outbox reconciliation, and the       *)
(* delivery of cancel commands.                                            *)
(*                                                                         *)
(* Recover and tick hold recoveryMu, so one program counter serves both.   *)
(* They decide from a snapshot of the run taken by ListActiveRuns; every   *)
(* store transaction and every command exchange is a step of its own.      *)
(***************************************************************************)
EXTENDS Supervisor

VARIABLE eng

(***************************************************************************)
(* mode is down, recover or tick, and pc the next call of the goroutine    *)
(* that holds recoveryMu.  snap is the snapshot, ins the result of         *)
(* inspectRecoverySupervisor (a reported state when it authenticated).     *)
(* handle is the entry of active, watch its exit watcher; tail is the      *)
(* offset of the open transcript tail, -1 without one; asked is the entry  *)
(* of cleanupRequested and sending its delivery goroutine; cont is where   *)
(* the quiescent handoff returns to; api is the launching goroutine.       *)
(***************************************************************************)
NoSnapshot == [state |-> "none", cancel |-> FALSE, proc |-> 0, ident |-> 0,
               consumed |-> 0]
Snapshot == [f \in DOMAIN NoSnapshot |-> row[f]]

Down ==
  [mode |-> "down", pc |-> "idle", snap |-> NoSnapshot, ins |-> "none",
   handle |-> FALSE, watch |-> "none", tail |-> -1, asked |-> FALSE,
   sending |-> FALSE, cont |-> "idle", api |-> "idle"]

EngInit == eng = [Down EXCEPT !.mode = "tick"]

EngPcs ==
  {"idle", "cancel", "inspect", "progress", "adopt", "seal", "bind", "bound",
   "drain", "drain_bad", "handed", "tail", "lines", "lines_bad", "after", "reconcile",
   "local", "list", "examine", "adopted", "reject", "resume", "recovered"}

engVars == <<row, identityFile, sup, faults, eng>>
Unmoved == UNCHANGED <<identityFile, sup, faults, procVars>>
OnlyEng == UNCHANGED row /\ Unmoved

At(pc) == eng.pc = pc
To(pc) == eng' = [eng EXCEPT !.pc = pc]

\* Where the goroutine goes when it is done with the run.
RunDone == IF eng.mode = "recover" THEN "recovered" ELSE "reconcile"

\* The turn of the run is over and its snapshot forgotten.
TurnOver(e, pc) == [e EXCEPT !.pc = pc, !.snap = NoSnapshot, !.ins = "none",
                             !.cont = "idle"]

\* An error ends the run's turn of a tick, and ends Recover with the daemon.
Failed == IF eng.mode = "recover" THEN Down ELSE TurnOver(eng, RunDone)

\* A transaction of the step fails.
StoreError(e) == Fault("store") /\ eng' = e /\ UNCHANGED row

Authenticated(ins) == ins \in {"running", "cancelling", "cleanup_required"}

-----------------------------------------------------------------------------
(***************************************************************************)
(* Evidence about the supervisor.                                          *)
(***************************************************************************)
Tracked == eng.handle /\ eng.snap.proc = ThisProcess
SupervisorExited == eng.watch = "exited"

\* A child of the daemon is judged by its watcher alone, any other process by
\* whether its pid exists.
ConfirmedDead == IF Tracked THEN SupervisorExited ELSE ~Alive
\* Mutant: the probe looks at the worker's pid.
workerAlive == WorkerPresent

supervisorAlive == ~ConfirmedDead
localSupervisorRunning == eng.handle /\ ~SupervisorExited

\* readRecoveryIdentity: the identity file and the row agree on everything.
IdentityValid ==
  identityFile /\ eng.snap.proc = ThisProcess /\ eng.snap.ident = ThisFile

\* inspectRecoverySupervisor.  A command may time out, and status and adopt may
\* disagree, so an attempt to authenticate can always end ambiguous.
Inspections ==
  IF ~IdentityValid THEN {"ambiguous"}
  ELSE IF ConfirmedDead THEN {"dead"}
  ELSE IF sup.socket /\ Authenticated(commandResponse)
       THEN {"ambiguous", commandResponse}
       ELSE {"ambiguous"}

\* Mutant: the members of the group are not enumerated.
WorkerAbsent == ~WorkerPresent

\* The worker is absent and the group is empty; with the supervisor dead nobody
\* can add a member any more.
Quiescent == ~WorkerPresent /\ GroupEmpty

\* requestCleanup: at most one delivery per run is outstanding or done.
Asking(e) == IF e.asked THEN e ELSE [e EXCEPT !.asked = TRUE, !.sending = TRUE]

-----------------------------------------------------------------------------
(***************************************************************************)
(* The API.                                                                *)
(***************************************************************************)
Serving == eng.mode = "tick"

\* handleLaunchRun: CreateRun ...
ApiCreateRun ==
  /\ Serving
  /\ ~Exists(row)
  /\ row' = NewRun(TRUE)
  /\ eng' = [eng EXCEPT !.api = "forking"]
  /\ Unmoved

\* ... and then the fork of the supervisor; its watcher may fail to register.
ApiForkSupervisor ==
  /\ eng.api = "forking"
  /\ sup' = [sup EXCEPT !.pc = "start"]
  /\ \/ eng' = [eng EXCEPT !.api = "idle", !.handle = TRUE, !.watch = "armed"]
        /\ NoFault
     \/ eng' = [eng EXCEPT !.api = "idle", !.handle = TRUE] /\ Fault("kevent")
  /\ UNCHANGED <<row, identityFile, procVars>>

ApiForkFailed ==
  /\ eng.api = "forking"
  /\ Fault("bootstrap")
  /\ row' = IF NoProcessOk(row) THEN NoProcessRow(row) ELSE row
  /\ eng' = [eng EXCEPT !.api = "idle"]
  /\ UNCHANGED <<identityFile, sup, procVars>>

\* handleCancelRun: the intent is durable before anything is delivered.
ApiCancelRun ==
  /\ Serving
  /\ Exists(row) /\ CancellationOk(row)
  /\ row' = CancellationRow(row)
  /\ eng' = Asking(eng)
  /\ Unmoved

\* The delivery goroutine of requestCleanup: delivered and answered, delivered
\* with the answer lost, or not delivered.
DeliverCancel ==
  /\ eng.sending
  /\ sup.socket
  /\ sup' = CancelCommand
  /\ \/ eng' = [eng EXCEPT !.sending = FALSE]
     \/ eng' = [eng EXCEPT !.sending = FALSE, !.asked = FALSE]
  /\ UNCHANGED <<row, identityFile, faults, procVars>>

\* Mutant: a failed delivery is not forgotten, so it is never retried.
DeliverFailedForGood ==
  /\ eng.sending
  /\ eng' = [eng EXCEPT !.sending = FALSE]
  /\ OnlyEng

DeliverFailed ==
  /\ eng.sending
  /\ eng' = [eng EXCEPT !.sending = FALSE, !.asked = FALSE]
  /\ OnlyEng

-----------------------------------------------------------------------------
(***************************************************************************)
(* Exit observation of the local child.                                    *)
(***************************************************************************)
WatcherExit ==
  /\ eng.watch = "armed"
  /\ ~Alive
  /\ eng' = [eng EXCEPT !.watch = "exited"]
  /\ OnlyEng

\* observe closes the same channel when kevent fails.
WatcherError ==
  /\ eng.watch = "armed"
  /\ Alive
  /\ Fault("kevent")
  /\ eng' = [eng EXCEPT !.watch = "exited"]
  /\ UNCHANGED <<row, identityFile, sup, procVars>>

-----------------------------------------------------------------------------
(***************************************************************************)
(* tick: snapshot, cancellation, recovery_unknown, tailing, cleanup or     *)
(* liveness, outbox, finalization of the local child.                      *)
(***************************************************************************)

\* What the loop over the runs does first with a run, once its cancellation has
\* been looked at.
AfterCancel(r) ==
  IF r.state = "recovery_unknown" THEN "inspect"
  ELSE IF IsTerminal(r.state) THEN "reconcile" ELSE "tail"

\* retrySupervisorWatchers (NOTE_EXIT cannot be registered for a zombie),
\* ListActiveRuns and releaseUnneededTranscriptTails.
TickStart ==
  /\ eng.mode = "tick" /\ At("idle")
  /\ LET w == IF eng.handle /\ eng.watch = "none" /\ Alive THEN "armed" ELSE eng.watch
         needed == Exists(row) /\ ~IsTerminal(row.state)
         e == [eng EXCEPT !.watch = w, !.tail = IF needed THEN @ ELSE -1]
     IN  eng' = IF Active(row)
                THEN [e EXCEPT !.snap = Snapshot,
                               !.pc = IF row.cancel THEN "cancel" ELSE AfterCancel(row)]
                ELSE [e EXCEPT !.pc = "local"]
  /\ Exists(row)
  /\ OnlyEng

TickCancel ==
  /\ At("cancel")
  /\ \/ /\ localSupervisorRunning
        /\ eng' = Asking([eng EXCEPT !.pc = AfterCancel(eng.snap)])
     \/ /\ ~localSupervisorRunning
        /\ \E ins \in Inspections :
             LET e == [eng EXCEPT !.ins = ins, !.pc = AfterCancel(eng.snap)]
             IN  eng' = IF Authenticated(ins) THEN Asking(e) ELSE e
  /\ OnlyEng

\* A result of the cancellation step is used again.
TickInspect ==
  /\ At("inspect")
  /\ \E ins \in (IF eng.ins = "none" THEN Inspections ELSE {eng.ins}) :
       eng' = [eng EXCEPT !.ins = ins, !.pc = "progress"]
  /\ OnlyEng

\* markTranscriptAuthorityFailure.
Marked == IF TransitionOk(row, "cleanup_required")
          THEN Moved(row, "cleanup_required") ELSE row

\* Mutants: tailing resumes one byte late, or from the start of the file.
ResumedLate ==
  IF named /\ eng.tail = -1 /\ ~IsTerminal(row.state)
  THEN eng.snap.consumed + 1 ELSE eng.tail
ResumedAtStart ==
  IF named /\ eng.tail = -1 /\ ~IsTerminal(row.state) THEN 0 ELSE eng.tail

\* startTailing at the offset of the snapshot, when authority is established: a
\* file that is not at its path marks the run, and an existing tail is kept.
Resumed ==
  IF named /\ eng.tail = -1 /\ ~IsTerminal(row.state)
  THEN eng.snap.consumed ELSE eng.tail
ResumeRow == row' = IF named \/ IsTerminal(row.state) THEN row ELSE Marked

(***************************************************************************)
(* progressRecoveryUnknown.                                                *)
(***************************************************************************)
ProgressAuthenticated ==
  /\ At("progress") /\ Authenticated(eng.ins)
  /\ LET target == IF eng.snap.cancel /\ eng.ins = "running" THEN "cancelling"
                   ELSE eng.ins
     IN  \/ TransitionOk(row, target) /\ row' = Moved(row, target) /\ To("adopt")
                                      /\ NoFault
         \/ ~TransitionOk(row, target) /\ UNCHANGED row /\ eng' = Failed /\ NoFault
         \/ StoreError(Failed)
  /\ UNCHANGED <<identityFile, sup, procVars>>

\* startTailing at the snapshot's offset, then, in Recover, the cancellation.
\* Tailing does not start when the run cannot be read.
ProgressAdopt ==
  /\ At("adopt")
  /\ LET next(tail) == TurnOver([eng EXCEPT !.tail = tail], RunDone)
         asking(e) == IF eng.mode = "recover" /\ eng.snap.cancel THEN Asking(e) ELSE e
     IN  \/ eng' = asking(next(Resumed)) /\ ResumeRow /\ NoFault
         \/ StoreError(asking(next(eng.tail)))
  /\ UNCHANGED <<identityFile, sup, procVars>>

ProgressDead ==
  /\ At("progress") /\ eng.ins = "dead"
  /\ eng' = IF Quiescent THEN [eng EXCEPT !.pc = "seal", !.cont = RunDone]
            ELSE TurnOver(eng, RunDone)
  /\ OnlyEng

ProgressAmbiguous ==
  /\ At("progress") /\ eng.ins = "ambiguous"
  /\ eng' = TurnOver(eng, RunDone)
  /\ OnlyEng

(***************************************************************************)
(* progressQuiescentTranscriptHandoff and the terminal commit that follows *)
(* it in progressRecoveryUnknown and progressCleanupRequired.              *)
(***************************************************************************)

\* In Recover startTailing, which follows, still uses the snapshot.
HandoffOver(e) == IF e.cont = "resume" THEN [e EXCEPT !.pc = "resume", !.cont = "idle"]
                  ELSE TurnOver(e, e.cont)

\* Only progressRecoveryUnknown hands its errors to Recover.
HandoffError ==
  IF eng.cont = "recovered" THEN Down ELSE HandoffOver(eng)

\* The file is at its path and as long as what was consumed of it: seal it.
HandoffSeal ==
  /\ At("seal")
  /\ LET sealable == named /\ row.consumed <= Size /\ SealOk(row, Size)
     IN  \/ sealable /\ row' = SealRow(row, Size) /\ To("bind") /\ NoFault
         \/ ~sealable /\ UNCHANGED row /\ eng' = HandoffError /\ NoFault
         \/ StoreError(HandoffError)
  /\ UNCHANGED <<identityFile, sup, procVars>>

\* bindTranscriptTail: an open tail is moved to the consumed offset, or one is
\* opened there.  Nothing is read when nothing is left.
HandoffBind ==
  /\ At("bind")
  /\ \/ /\ row.final = Size /\ row.consumed <= Size /\ (eng.tail # -1 \/ named)
        /\ eng' = [eng EXCEPT !.tail = row.consumed,
                              !.pc = IF row.consumed < Size THEN "bound" ELSE "handed"]
        /\ UNCHANGED row /\ NoFault
     \/ /\ ~(row.final = Size /\ row.consumed <= Size /\ (eng.tail # -1 \/ named))
        /\ eng' = HandoffError
        /\ UNCHANGED row /\ NoFault
     \/ StoreError(HandoffError)
  /\ UNCHANGED <<identityFile, sup, procVars>>

\* Mutant: the daemon's terminal commit writes no outbox row.
HandoffCommitBare ==
  /\ At("handed")
  /\ named /\ row.final = Size /\ row.consumed = Size /\ CommitTerminalOk(row, "failed")
  /\ row' = Moved(row, "failed")
  /\ eng' = HandoffOver([eng EXCEPT !.tail = -1])
  /\ Unmoved

\* The file is still at its path and its size the sealed one; the run ends when
\* all of it has been consumed, and waits for the next tick otherwise.
HandoffCommit ==
  /\ At("handed")
  /\ LET unchanged == named /\ row.final = Size
         complete == unchanged /\ row.consumed = Size
     IN  \/ /\ complete /\ CommitTerminalOk(row, "failed")
            /\ row' = CommitTerminalRow(row, "failed")
            /\ eng' = HandoffOver([eng EXCEPT !.tail = -1])
            /\ NoFault
         \/ unchanged /\ ~complete /\ UNCHANGED row /\ eng' = HandoffOver(eng) /\ NoFault
         \/ /\ ~unchanged \/ (complete /\ ~CommitTerminalOk(row, "failed"))
            /\ UNCHANGED row /\ eng' = HandoffError /\ NoFault
         \/ StoreError(HandoffError)
  /\ UNCHANGED <<identityFile, sup, procVars>>

(***************************************************************************)
(* tailTranscript, in tick ("tail") or in the handoff ("bound").           *)
(***************************************************************************)
InHandoff == eng.pc \in {"bound", "drain", "drain_bad"}
LoopEnd == IF InHandoff THEN "handed" ELSE "after"

\* waitingForPrelaunch: the supervisor has not published its process yet.
Prelaunch == row.state = "created" /\ row.proc = 0

\* Without a tail startTailing opens one at offset 0.  A run whose identity is
\* not published yet is left alone before its launch, and so is one whose path
\* cannot be opened; a path that names another file marks even that one.
TailRefused ==
  IF eng.tail # -1 \/ ~Prelaunch THEN {Marked}
  ELSE IF row.ident = ThisFile THEN {row, Marked} ELSE {row}
TickTail ==
  /\ At("tail") \/ At("bound")
  /\ \/ IsTerminal(row.state) /\ To(LoopEnd) /\ UNCHANGED row /\ NoFault
     \/ /\ ~IsTerminal(row.state) /\ row.ident = ThisFile /\ named
        /\ eng' = [eng EXCEPT !.tail = IF @ = -1 THEN 0 ELSE @,
                              !.pc = IF InHandoff THEN "drain" ELSE "lines"]
        /\ UNCHANGED row /\ NoFault
     \/ /\ ~IsTerminal(row.state) /\ ~(row.ident = ThisFile /\ named)
        /\ row' \in TailRefused
        /\ To(LoopEnd) /\ NoFault
     \/ StoreError([eng EXCEPT !.pc = LoopEnd])
  /\ UNCHANGED <<identityFile, sup, procVars>>

\* The line at the tail's offset: the bytes up to and including the next
\* newline, or to the end of the file.
LineAt(off) ==
  IF off >= Size THEN <<>>
  ELSE IF transcript[off + 1] = "n" \/ off + 1 = Size
       THEN SubSeq(transcript, off + 1, off + 1)
       ELSE SubSeq(transcript, off + 1, off + 2)
\* Mutant: a last line without a newline is never complete.
TerminatedLine(line, end) == line # <<>> /\ line[Len(line)] = "n"
CompleteLine(line, end) ==
  line # <<>> /\ (line[Len(line)] = "n" \/ row.final = end)

\* One turn of the read loop.  Whatever is not stored is read again from the
\* tail's offset on the next tick (retryTranscriptLine).
TailLine ==
  /\ At("lines") \/ At("drain")
  /\ LET line == LineAt(eng.tail)
         end == eng.tail + Len(line)
         advanced == eng' = [eng EXCEPT !.tail = end]
         stop == To(LoopEnd) /\ UNCHANGED row
     IN  \/ /\ NoFault
            /\ IF ~CompleteLine(line, end) THEN stop
               ELSE CASE line[1] = "n" ->
                           IF OffsetOk(row, end) THEN row' = ConsumedRow(row, end) /\ advanced
                           ELSE stop
                      [] line[1] = "v" ->
                           IF OffsetOk(row, end) THEN row' = AppendEventRow(row, end) /\ advanced
                           ELSE stop
                      [] line[1] = "m" ->
                           IF IsTerminal(row.state) THEN UNCHANGED row /\ advanced
                           ELSE IF CanRetain
                                THEN /\ row' = Retained
                                     /\ To(IF At("drain") THEN "drain_bad" ELSE "lines_bad")
                                ELSE stop
         \/ CompleteLine(line, end) /\ StoreError([eng EXCEPT !.pc = LoopEnd])
  /\ UNCHANGED <<identityFile, sup, procVars>>

\* A malformed line is accounted for once the run is cleanup_required.
TailBadLine ==
  /\ At("lines_bad") \/ At("drain_bad")
  /\ LET end == eng.tail + Len(LineAt(eng.tail))
         loop == IF At("drain_bad") THEN "drain" ELSE "lines"
     IN  \/ /\ OffsetOk(row, end)
            /\ row' = ConsumedRow(row, end)
            /\ eng' = [eng EXCEPT !.tail = end, !.pc = loop]
            /\ NoFault
         \/ ~OffsetOk(row, end) /\ UNCHANGED row /\ To(LoopEnd) /\ NoFault
         \/ StoreError([eng EXCEPT !.pc = LoopEnd])
  /\ UNCHANGED <<identityFile, sup, procVars>>

(***************************************************************************)
(* After tailing: progressCleanupRequired, or the check that the           *)
(* supervisor is alive.                                                    *)
(***************************************************************************)
TickCleanup ==
  /\ At("after") /\ eng.snap.state = "cleanup_required"
  /\ eng' = IF eng.snap.proc = 0 THEN TurnOver(eng, "reconcile")
            ELSE IF supervisorAlive THEN Asking(TurnOver(eng, "reconcile"))
            ELSE IF Quiescent THEN [eng EXCEPT !.pc = "seal", !.cont = "reconcile"]
            ELSE TurnOver(eng, "reconcile")
  /\ OnlyEng

TickAlive ==
  /\ At("after") /\ eng.snap.state # "cleanup_required"
  /\ \/ /\ row' = IF /\ eng.snap.proc # 0 /\ ~supervisorAlive
                     /\ CanTransition(eng.snap.state, "recovery_unknown")
                     /\ TransitionOk(row, "recovery_unknown")
                  THEN Moved(row, "recovery_unknown") ELSE row
        /\ eng' = TurnOver(eng, "reconcile")
        /\ NoFault
     \/ StoreError(TurnOver(eng, "reconcile"))
  /\ UNCHANGED <<identityFile, sup, procVars>>

(***************************************************************************)
(* reconcilePendingOutbox and finalizeLocalSupervisors.                    *)
(***************************************************************************)
PendingHere ==
  /\ Exists(row) /\ row.outbox.ack = "pending"
  /\ identityFile /\ row.proc = ThisProcess /\ row.ident = ThisFile
  /\ row.outbox.state = row.state
\* Mutant: the absence of the worker is taken for the supervisor's.
WorkerDeadHere == ~WorkerPresent
DeadHere == IF eng.handle THEN SupervisorExited ELSE ~Alive
FinalizeAnswered == sup.socket /\ sup.final = row.state

AfterReconcile == IF eng.mode = "recover" THEN "list" ELSE "local"

ReconcileAbandon ==
  /\ At("reconcile")
  /\ PendingHere /\ DeadHere /\ Quiescent
  /\ row' = ResolveRow(row, "abandoned")
  /\ eng' = TurnOver([eng EXCEPT !.tail = -1], AfterReconcile)
  /\ Unmoved

ReconcileAcknowledge ==
  /\ At("reconcile")
  /\ PendingHere /\ ~DeadHere /\ FinalizeAnswered
  /\ row' = ResolveRow(row, "acknowledged")
  /\ eng' = TurnOver([eng EXCEPT !.tail = -1], AfterReconcile)
  /\ Unmoved

\* Nothing to resolve, or no answer in time.
ReconcileNothing ==
  /\ At("reconcile")
  /\ ~(PendingHere /\ DeadHere /\ Quiescent)
  /\ eng' = TurnOver(eng, AfterReconcile)
  /\ OnlyEng

\* An error ends the tick before the local child is looked at, and ends Recover.
ReconcileError ==
  /\ At("reconcile")
  /\ StoreError(IF eng.mode = "recover" THEN Down ELSE TurnOver(eng, "idle"))
  /\ UNCHANGED <<identityFile, sup, procVars>>

\* Mutant: only acknowledged runs let go of their child.
FinalizeAcknowledged ==
  /\ At("local")
  /\ IF /\ eng.handle /\ SupervisorExited
        /\ TerminalRow(row) /\ row.outbox.ack = "acknowledged"
     THEN /\ ~Alive
          /\ eng' = [eng EXCEPT !.tail = -1, !.handle = FALSE, !.watch = "none",
                                !.pc = "idle"]
     ELSE To("idle")
  /\ OnlyEng

\* cmd.Wait blocks, with recoveryMu held, until the child has exited.
FinalizeLocal ==
  /\ At("local")
  /\ IF /\ eng.handle /\ SupervisorExited
        /\ TerminalRow(row) /\ row.outbox.ack \in {"acknowledged", "abandoned"}
     THEN /\ ~Alive
          /\ eng' = [eng EXCEPT !.tail = -1, !.handle = FALSE, !.watch = "none",
                                !.pc = "idle"]
     ELSE To("idle")
  /\ OnlyEng

-----------------------------------------------------------------------------
(***************************************************************************)
(* Startup: Run opens the API only when Recover has succeeded.             *)
(***************************************************************************)
EngineStart ==
  /\ eng.mode = "down"
  /\ eng' = [Down EXCEPT !.mode = "recover", !.pc = "reconcile"]
  /\ OnlyEng

RecoverList ==
  /\ At("list")
  /\ \/ /\ eng' = IF Active(row) /\ ~IsTerminal(row.state)
                  THEN [eng EXCEPT !.snap = Snapshot, !.pc = "examine"]
                  ELSE [eng EXCEPT !.pc = "recovered"]
        /\ UNCHANGED row /\ NoFault
     \/ StoreError(Down)
  /\ UNCHANGED <<identityFile, sup, procVars>>

\* A `created' run with a cancellation waits for its supervisor to authenticate.
RecoverInspect ==
  /\ At("examine")
  /\ \E ins \in Inspections :
       eng' = [eng EXCEPT !.ins = ins,
                 !.pc = CASE eng.snap.state = "created" /\ eng.snap.cancel
                               /\ ~Authenticated(ins)             -> "recovered"
                          [] eng.snap.state = "recovery_unknown"  -> "progress"
                          [] eng.snap.state # "recovery_unknown"
                               /\ Authenticated(ins)              -> "adopted"
                          [] OTHER                                -> "reject"]
  /\ OnlyEng

\* rejectRecovery: a lost race against a terminal commit is no error.
RecoverReject ==
  /\ At("reject")
  /\ \/ /\ TransitionOk(row, "recovery_unknown")
        /\ row' = Moved(row, "recovery_unknown")
        /\ eng' = TurnOver(eng, "recovered") /\ NoFault
     \/ /\ ~TransitionOk(row, "recovery_unknown")
        /\ eng' = TurnOver(eng, "recovered")
        /\ UNCHANGED row /\ NoFault
     \/ TransitionOk(row, "recovery_unknown") /\ StoreError(Failed)
  /\ UNCHANGED <<identityFile, sup, procVars>>

RecoverAdopted ==
  /\ At("adopted")
  /\ LET e == IF eng.snap.cancel THEN Asking(eng) ELSE eng
     IN  IF eng.snap.state = "cleanup_required" /\ ~supervisorAlive /\ Quiescent
         THEN eng' = [e EXCEPT !.pc = "seal", !.cont = "resume"]
         ELSE IF eng.snap.state = "cleanup_required" /\ supervisorAlive
         THEN eng' = Asking([e EXCEPT !.pc = "resume"])
         ELSE eng' = [e EXCEPT !.pc = "resume"]
  /\ OnlyEng

\* startTailing at the durable consumed offset.
RecoverTail ==
  /\ At("resume")
  /\ \/ eng' = TurnOver([eng EXCEPT !.tail = Resumed], "recovered") /\ ResumeRow /\ NoFault
     \/ StoreError(TurnOver(eng, "recovered"))
  /\ UNCHANGED <<identityFile, sup, procVars>>

Recovered ==
  /\ At("recovered")
  /\ eng' = [TurnOver(eng, "idle") EXCEPT !.mode = "tick"]
  /\ OnlyEng

\* Crash or Close: everything in memory is lost, supervisors go on.
EngineCrash ==
  /\ eng.mode # "down"
  /\ Fault("engine_crash")
  /\ eng' = Down
  /\ UNCHANGED <<row, identityFile, sup, procVars>>

EngineTick ==
  \/ TickStart \/ TickCancel \/ TickInspect \/ ProgressAuthenticated
  \/ ProgressAdopt \/ ProgressDead \/ ProgressAmbiguous \/ HandoffSeal
  \/ HandoffBind \/ HandoffCommit \/ TickTail \/ TailLine \/ TailBadLine \/ TickCleanup
  \/ TickAlive \/ ReconcileAbandon \/ ReconcileAcknowledge \/ ReconcileNothing
  \/ ReconcileError \/ FinalizeLocal \/ EngineStart \/ RecoverList \/ RecoverInspect
  \/ RecoverReject \/ RecoverAdopted \/ RecoverTail \/ Recovered

EngineApi ==
  \/ ApiCreateRun \/ ApiForkSupervisor \/ ApiForkFailed \/ ApiCancelRun
  \/ DeliverCancel \/ DeliverFailed \/ WatcherExit \/ WatcherError
=============================================================================
