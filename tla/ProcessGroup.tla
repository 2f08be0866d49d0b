---------------------------- MODULE ProcessGroup ----------------------------
(***************************************************************************)
(* The worker process group of one run, as internal/lifecycle/backend.go   *)
(* launches, observes, signals and reaps it, and the transcript file its   *)
(* members write.                                                          *)
(*                                                                         *)
(* The group leader is the paused trampoline, which execs the worker in    *)
(* place once released: its pid is the group id, and it stays pinned until *)
(* the leader is reaped.  One flag stands for the other members.           *)
(***************************************************************************)
EXTENDS Naturals, Sequences

CONSTANTS MaxBytes,        \* bound on the bytes of the transcript
          Lines,           \* the bodies of the lines the workload writes
          MayFork          \* whether the workload has a second process

VARIABLES worker,          \* the leader: none, paused, live, zombie, gone
          exitCode,        \* its exit status once it is a zombie: 0 or 1
          descendant,      \* a live member besides the leader exists
          signal,          \* the strongest signal its members have received
          transcript,      \* the bytes of the transcript file
          named            \* the transcript's path names that file

procVars == <<worker, exitCode, descendant, signal, transcript, named>>

(***************************************************************************)
(* A transcript line is one body byte and a newline, or a bare newline.    *)
(* The body is a valid event envelope ("v") or a malformed one ("m"); a    *)
(* body byte whose newline is missing is a partial line.                   *)
(***************************************************************************)
Bytes == {"v", "m", "n"}

ASSUME WorkloadAssumption ==
  MaxBytes \in Nat /\ Lines \subseteq {"v", "m"} /\ MayFork \in BOOLEAN

Size == Len(transcript)
AtLineStart == Size > 0 => transcript[Size] = "n"

ProcInit ==
  /\ worker = "none"
  /\ exitCode = 0
  /\ descendant = FALSE
  /\ signal = "none"
  /\ transcript = <<>>
  /\ named = TRUE

\* Mutant: only the leader is looked at (cancel the parent only).
LeaderGone == worker \notin {"paused", "live"}
\* GroupMembers excludes zombies; ProcessAlive, a kill(pid, 0), does not.
GroupEmpty == worker \notin {"paused", "live"} /\ ~descendant
WorkerPresent == worker \in {"paused", "live", "zombie"}

\* A member that has received SIGKILL runs no more instructions.
CanRun == signal # "kill"

\* Any live member may append to the transcript.
WorkerWrite(b) ==
  /\ worker = "live" \/ descendant
  /\ CanRun
  /\ Size < MaxBytes
  /\ b # "n" => AtLineStart
  /\ transcript' = Append(transcript, b)
  /\ UNCHANGED <<worker, exitCode, descendant, signal, named>>

WorkerFork ==
  /\ MayFork
  /\ worker = "live"
  /\ CanRun
  /\ ~descendant
  /\ descendant' = TRUE
  /\ UNCHANGED <<worker, exitCode, signal, transcript, named>>

\* The trampoline fails before it is released, or the worker exits on its own
\* or by a signal.  A killed leader cannot report success.
WorkerExit(code) ==
  /\ worker \in {"paused", "live"}
  /\ code = 0 => worker = "live" /\ CanRun
  /\ worker' = "zombie"
  /\ exitCode' = code
  /\ UNCHANGED <<descendant, signal, transcript, named>>

DescendantExit ==
  /\ descendant
  /\ descendant' = FALSE
  /\ UNCHANGED <<worker, exitCode, signal, transcript, named>>

\* A signal is gone with the last process that received it.
SignalLeft == IF descendant THEN signal ELSE "none"

\* Without a supervisor the leader's parent is init: it reaps the zombie at
\* once, and the paused trampoline reads end-of-file from the release pipe.
OrphanReap ==
  /\ worker = "zombie"
  /\ worker' = "gone"
  /\ signal' = SignalLeft
  /\ UNCHANGED <<exitCode, descendant, transcript, named>>

\* Somebody removes, renames or replaces the file, and may put it back.  Open
\* descriptors still reach it.
TranscriptLost ==
  /\ named
  /\ named' = FALSE
  /\ UNCHANGED <<worker, exitCode, descendant, signal, transcript>>
TranscriptRestored ==
  /\ ~named
  /\ named' = TRUE
  /\ UNCHANGED <<worker, exitCode, descendant, signal, transcript>>

(***************************************************************************)
(* Calls of the supervisor.                                                *)
(***************************************************************************)
LaunchWorker ==
  /\ worker = "none"
  /\ worker' = "paused"
  /\ UNCHANGED <<exitCode, descendant, signal, transcript, named>>

ReleaseWorker ==
  /\ worker = "paused"
  /\ worker' = "live"
  /\ UNCHANGED <<exitCode, descendant, signal, transcript, named>>

SignalGroup(sig) ==
  /\ signal' = IF signal = "kill" THEN signal ELSE sig
  /\ UNCHANGED <<worker, exitCode, descendant, transcript, named>>

\* wait4 blocks until the leader is a zombie.
ReapWorker ==
  /\ worker = "zombie"
  /\ worker' = "gone"
  /\ signal' = SignalLeft
  /\ UNCHANGED <<exitCode, descendant, transcript, named>>
=============================================================================
