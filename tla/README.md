# TLA+ models of Ananke

Ananke runs coding agents under supervision and keeps everything it decides in
a SQLite journal. This directory models the parts of it that are hard to test:
the journal's transactions, the two processes that drive a run and the process
group they own, and the approval-to-launch pipeline with its handoff to an
external supervisor. TLC checks the models on small instances; TLAPS proves the
journal's invariants for every set of runs and every bound.

`PROJECT.json` maps every definition to the lines it models, and lists the
runs, the hazards they are aimed at and the findings.

## The system

| Part | State | Operations | What must hold |
|---|---|---|---|
| Run journal (`internal/store`: runs, transitions, events, outbox) | runs, state_transitions, events, finalization_outbox | CreateRun, Transition, CommitTerminal, CommitNoProcessFailure, RequestCancellation, AppendEvent, AdvanceTranscriptConsumed, SealTranscript, SetTranscriptIdentity, SetRunSupervisor, AcknowledgeOutbox, AbandonOutbox | terminal state and obligation commit together; a cancelled run never completes; nothing is taken back |
| Supervisor (`internal/supervisor`) | transcript, identity file, socket, worker, cleanup progress | New, Run (bootstrap, release, watch, cleanup, reap, handoff, decide, commit, acknowledge), socket commands | release only with published authority; signal only a pinned group; commit only when the group is empty and the transcript handed over |
| Worker group (`internal/lifecycle/backend.go`) | leader, descendants, transcript file | paused launch, release, signal, enumerate, reap | emptiness means that nobody can write |
| Daemon engine (`internal/lifecycle/engine.go`) | run handles, tails, recovery snapshot | API launch/cancel, Recover, tick, tailing, quiescent handoff, outbox reconciliation | every accepted run is finished and its events are stored once, through crashes |
| Proposals (`proposals.go`) | proposals, revisions, lifecycles, approvals, activity, idempotency | create, append, decide, withdraw | repeated requests get the first answer; the tables agree; decisions are final |
| Launch admission (`launch_admission.go`, `fenced_launch.go`) | specs, claims, heads, outbox, materializations, run/terminal/evidence intents | store, acquire, reclaim, record, create, append, settle, recover | only the newest fence writes; every launch has a readable next obligation |
| External handoff (`external_supervisor_*.go`) | handoffs, receipts, callbacks, cancellations, replay | stage, deliver, reconcile, cancel, import | nothing without the admission chain; nothing late |
| Trusted supervisor (`internal/trustedsupervisor`) | server, audit and cancellation journals | accept, execute, recover, cancel | not modelled yet |
| Grill, P4 evidence, repair attestations (`internal/store`) | review journals | append and evaluate | not modelled yet |
| Repair contracts, runner, verifier, journal | documents, worktrees, phases | validate, dispatch, attest | not modelled yet |
| Release artifacts, transport primitives, GUI | files, frames, views | pure I/O and encoding | not modelled |

The daemon forks one supervisor per run. The supervisor starts the worker paused,
publishes its authority (identity file, process ids, socket, state `running`)
and only then releases it. The daemon tails the transcript into events; when the
worker has exited the supervisor empties its group, reaps it, waits until the
daemon has consumed the sealed transcript, commits the terminal state with an
outbox row, announces it and acknowledges the row. If the supervisor dies the
daemon does all of this itself. Both write the same database through
`_txlock=immediate` transactions, so a transaction is one step of the models and
everything between two transactions interleaves.

## Modules

| Module | Models | Notes |
|---|---|---|
| `RunStates` | state.go | the states and the table of edges |
| `Journal` | the row functions and guards of the run transactions | used by the store and by the two processes |
| `RunStore` | the run journal with any caller | one action per transaction |
| `RunStoreProofs` | | theorems about `RunStore` |
| `ProcessGroup` | backend.go | leader, one flag for the other members, the transcript's bytes |
| `Supervisor` | supervisor.go | program counter `sup.pc`; one step per transaction, system call or socket answer |
| `Engine` | engine.go, for one run | program counter `eng.pc` for the tick and recovery thread; API, watcher and command delivery are separate actions |
| `RunLifecycle` | the composition | fairness, safety and liveness, refinement mappings |
| `RunContract` | | abstract specification: what supervisor and daemon together promise of a run |
| `Proposals` | proposals.go | a request is scope and body, the idempotency table is a set of answers |
| `LaunchAdmission` | launch_admission.go | a table is a set of rows, a query the set of rows it returns |
| `FencedLaunch` | fenced_launch.go | the orchestrator's calls against other writers, query by query |
| `ExternalHandoff` | the external_supervisor files | the transport is external |
| `MC*` | | instances for TLC |

Operators whose comment begins with "Mutant" are deliberate faults. They are
used nowhere in the specifications; replacing the operator they precede by one
of them must violate the property `PROJECT.json` pairs it with.

### Correspondence

A row of `RunStore` is the run's record over all four tables: `trans` is
state_transitions, `events` the offsets of the stored events, `outbox` the
obligation, `final` the sealed size (-1 before), `consumed` the offset of the
reader. Transcript lines are one body byte, valid or malformed, and a newline;
a body without its newline is the partial line a reader must not consume before
the seal. Identity, process and file identities are single values compared for
equality, as in the code.

In the lifecycle modules a fault happens at the place where the code handles
it. `FaultKinds` selects among them and `MaxFaults` bounds how many happen in a
behaviour:

- `supervisor_crash`, `engine_crash`: either process dies between any two steps;
- `bootstrap`, `cleanup`, `reap`: an operating-system error before the release,
  in any of the three enumerations and two signals of `cleanupGroup`, in the reap;
- `kevent`: an error of an exit watcher;
- `store`: a query or transaction fails. It is a branch of every step of the two
  processes that does something else then than try the same step again;
- `path`: the transcript's path stops naming the transcript (`named`, with the
  actions `TranscriptLost` and `TranscriptRestored`). Every check of path or
  identity reads it at its own time: the supervisor's `validateTranscriptAuthority`
  before the seal, after the handoff and at finalization, the daemon's
  `startTailing`, the checks at the head of `tailTranscript`, and the stat, open
  and recheck of the quiescent handoff.

Failed inspections and lost commands are not counted, they can happen at any
time. Not faults: a store error that only repeats a step (the retry loops of
`retainCleanupObligationUntilPersisted`, `ensureFinalizationAuthority` and
`acknowledgeOutboxUntilDurable`), an error of `Seek` or of a `Stat` on an open
file, and a transcript shortened by someone else.

One fault at a time does not reach a store error inside Recover, which needs a
crash first. `MCDaemonRestart.cfg` with `MaxBytes = 1` and `MaxFaults = 2` does
(3.8 million states); its invariants hold there too, except `EventsExactlyOnce`:
when the run cannot be read in `startTailing` after a restart, no tail is opened
and the next tick starts at offset 0, which is a second way to finding 2.

The supervisor's terminal commit, the assignment of `finalState` and the
acknowledgement are three steps (`SupCommit`, `SupAnnounce`, `SupAcknowledge`).
The daemon's quiescent handoff is `HandoffSeal`, `HandoffBind`, the reading of
what is left with the actions of tailing, and `HandoffCommit`.

In `FencedLaunch` the orchestrator's write and its following reads are separate
steps because `GetLaunchRecoveryBoundary` runs its queries on the handle and not
in a transaction. The other writers may use any fence, stale ones included.
In `ExternalHandoff` a call is one step, because the immediate transaction is
held while the transport is called; the answer may still be lost with the
transaction, and the deadline, compared once at the start, may pass meanwhile.

## Runs

| Run | Question | Bounds |
|---|---|---|
| `store_journal` | Do the transactions of the run journal and of the proposal store, in any order and by any callers, keep their tables consistent? | 1 run, 2 events, 2 offsets, 4 transitions; 2 proposals, 2 keys, 2 inputs, 2 revisions |
| `supervisor_faults` | Does the supervisor keep its obligations through any one fault on its path, with a forking worker that writes a corrupt line? | 2 bytes, 1 fault of 7 kinds |
| `daemon_restart` | Are events stored exactly once, corrupt lines recorded, and outbox rows abandoned only for the dead, through a daemon crash, a failed transaction or a lost path? | 2 bytes, valid and malformed, 1 fault of 3 kinds |
| `contract` | Does the detailed system implement `RunContract`, and use the journal only through `RunStore`? | 1 byte, forking worker, 1 fault: a crash of either process, a failed transaction or a lost path |
| `liveness` | Do exited and cancelled runs finish, and are children reaped, through a supervisor crash? | 1 byte, 1 fault |
| `restart_liveness` | Do exited and cancelled runs finish through a daemon crash? | at most an empty line, 1 fault |
| `fenced_launch` | Are boundaries consistent and the orchestrator's answers right with other writers between its queries? | 2 proposals with 4 requests (`MaxRequests`), 2 claims, 2 materializations, 1 run, 2 generations |
| `external_handoff` | From the approval on: does a launch keep its approval, and is a handoff never ahead of its admission and never late? | 1 proposal of 2 revisions, 2 seals, 2 claims in 2 generations, attempts 1 and 2 with a cap of 1, 2 handoffs and 2 record ids |
| `kevent_error`, `event_duplication`, `cleanup_forgotten`, `handoff_outcomes` | The findings below | smallest that show them |

Why the bounds are enough for the cases that matter: two bytes are a complete
line, or a line and a partial one; two events are the least with an order and a
duplicate; one run is enough because no transaction reads the rows of another
run; two generations give a stale fence and a current one, and
two proposals two launches that compete for claim and materialization ids; two
revisions give a superseded pair; two ids of each kind let every uniqueness test
succeed and fail. The run tables and the proposal tables share nothing, so
`MCStore` explores behaviours that use one half each. Symmetry is declared only
over sets of model values that no definition orders, and in no run with a
liveness property.

`supervisor_faults` does not check for deadlock: after a `kevent` error the
daemon can wait for a supervisor that waits for an outbox row the daemon has
abandoned (see the first finding). All other runs do.

### Fairness

`FairSpec` assumes weak fairness of the supervisor's steps, of the daemon's
ticks (which include its restart) and of the exit watcher: each is a loop or a
goroutine without a further condition. It assumes nothing of the worker, which may ignore SIGTERM and run for ever, except that
SIGKILL ends it, and that an orphan whose supervisor crashed ends: nobody may
signal it any more, and without the assumption `CancelledRunsFinish` would say
too much. A path that is lost for good keeps `ensureFinalizationAuthority` in its
loop, so liveness is asked without the `path` fault. Strong
fairness is assumed of an exchange over the socket with a live peer, and of the
inspection that decides between live and dead: the code retries both without
limit on every tick, so an exchange that is possible again and again is assumed
to succeed once.

## Proofs

`RunStoreProofs` shows, for any sets of runs, identities and processes and any
bounds:

- `TypeCorrect`: the rows keep their type;
- `TerminalWithOutbox`: terminal state and outbox row exist together and agree;
- `CancellationWins`: a run whose cancellation was accepted is never completed;
- `TranscriptAccounted`: the transcript of a terminal run is sealed and consumed;
- `NothingIsTakenBack`: the action property `NothingTakenBack`.

Every transaction changes one run, so the inductive invariant is a predicate of
one row (`RowInv`) lifted to the store (`StoreInv`). The invariants are not
inductive one by one: the outbox part is what tells that a resolved row belongs
to a terminal state, no edge of the table leaves a terminal state (`EdgeFacts`),
and the transcript part needs both to know that no advance or seal follows the
commit. Each row function has a lemma that it preserves `RowInv`; the lemmas are
combined once in `StoreInvInductive`. The only assumptions are the types of the
constants.

Only model-checked: `JournalReplays` and `HandoffNeverRewinds`, the lifecycle
properties and both refinements, everything about proposals, launches and
handoffs, and liveness, which is outside what the prover supports (as are
ENABLED and induction over data).

## Findings

1. `kevent_error`: the watcher in backend.go closes its channel on an error too,
   although its comment says that only an exact NOTE_EXIT does.
   `TestProcessExitWatcherTerminalErrorClosesReadiness` (backend_test.go:13) pins
   the closing, so the comment is what is wrong; but a live supervisor is then
   taken for dead and its outbox row is abandoned.
2. `event_duplication`: a restarted daemon that could not authenticate the
   supervisor, or could not read the run when it was to resume tailing, starts
   at offset 0 and stores events a second time.
3. `cleanup_forgotten`: such a restart replaces `cleanup_required` by
   `recovery_unknown`, and a run with a corrupt transcript completes.
4. `handoff_outcomes`: the import of a cancellation does not look for a
   callback, so the store can hold both, which the comment of its sibling and a
   test exclude. The trusted supervisor does not issue both.

Behaviour that the models show and no document excludes: a run whose supervisor
dies before SetRunSupervisor stays active for ever; a boundary read that
straddles a write is reported as corrupt although no record is (it fails
closed); a handoff that the remote has accepted can be neither reconciled nor
cancelled once its launch is reclaimed; and one fence can have several handoffs.

## Not modelled

- Processes that leave the worker's group (`setsid`) are out of reach of the
  supervisor and of the model.
- The context-cancelled branch of the supervisor's Run: the binary never cancels
  its context.
- Several runs at once in the daemon: one failing run ends Recover for all.
- Canonical JSON, hashes and signatures stand for the values they identify.
- Migrations, file layout, logging, HTTP routing, and the parts marked
  `not_modelled` in `PROJECT.json`.

## Plan

In order of importance:

1. The trusted supervisor: server journal, audit executor and cancellation
   journal as the remote of `ExternalHandoff`, with crash and replay; then the
   composition, where finding 4 can be asked of both sides together.
2. P4 evidence admission and grill readiness over the same journal; the grill's
   evaluation as an operator against its reference definition.
3. The repair supervisor's journal (phases, boot epochs, at-most-once dispatch),
   repair attestations and the job map of engine_repair.go; the schema cutover
   and dispatch validators as operators.
4. Proofs: `PairsFollowProposal` and `DecisionsAreFinal` for `Proposals`;
   `StaleFencesFrozen`, `BoundaryNeverCorrupt` and `SpecsStayApproved` for
   `LaunchAdmission`; `JournalReplays` and `HandoffNeverRewinds` for `RunStore`;
   `HandoffChain` for `ExternalHandoff`; the safety part of the refinements.
5. An abstract specification of a fenced launch (one writer at a time, stages in
   order) that `LaunchAdmission` implements.
