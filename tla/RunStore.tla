------------------------------ MODULE RunStore ------------------------------
(***************************************************************************)
(* The run journal of internal/store under arbitrary callers: the daemon,  *)
(* its API goroutines and every supervisor process open the same database, *)
(* so any operation may be called on any run in any state, with any        *)
(* argument, in any order.  What holds here holds whatever the callers do. *)
(***************************************************************************)
EXTENDS Journal, FiniteSets

CONSTANTS Runs,             \* run ids
          Identities,       \* device/inode identities a transcript may have
          Processes,        \* supervisor/worker pid triples
          MaxOffset,        \* largest transcript offset a caller passes
          MaxEvents,        \* bound on the events of a run
          MaxTransitions    \* bound on the state transitions of a run

ASSUME StoreAssumption ==
  /\ Identities \subseteq Nat \ {0}
  /\ Processes \subseteq Nat \ {0}
  /\ MaxOffset \in Nat
  /\ MaxEvents \in Nat
  /\ MaxTransitions \in Nat

VARIABLE rows

Offsets == 0 .. MaxOffset

RunRow == [state : States, cancel : BOOLEAN, required : BOOLEAN,
           ident : Nat, proc : Nat, committed : Nat, consumed : Nat,
           final : Nat \cup {-1}, events : Seq(Nat), trans : Seq(States),
           outbox : [ack : OutboxStates, state : TerminalStates \cup {"none"}]]

Init == rows = [r \in Runs |-> NoRun]

\* One transaction on the row of r.
Put(r, row) == rows' = [rows EXCEPT ![r] = row]
Room(r) == Len(rows[r].trans) < MaxTransitions

CreateRun(r, required) ==
  /\ ~Exists(rows[r])
  /\ Put(r, NewRun(required))

Transition(r, to) ==
  /\ Exists(rows[r]) /\ Room(r)
  /\ TransitionOk(rows[r], to)
  /\ Put(r, Moved(rows[r], to))

CommitTerminal(r, to) ==
  /\ Exists(rows[r]) /\ Room(r)
  /\ CommitTerminalOk(rows[r], to)
  /\ Put(r, CommitTerminalRow(rows[r], to))

CommitNoProcessFailure(r) ==
  /\ Exists(rows[r]) /\ Room(r)
  /\ NoProcessOk(rows[r])
  /\ Put(r, NoProcessRow(rows[r]))

RequestCancellation(r) ==
  /\ Exists(rows[r]) /\ Room(r)
  /\ CancellationOk(rows[r])
  /\ Put(r, CancellationRow(rows[r]))

AppendEvent(r, off) ==
  /\ Exists(rows[r])
  /\ Len(rows[r].events) < MaxEvents
  /\ OffsetOk(rows[r], off)
  /\ Put(r, AppendEventRow(rows[r], off))

AdvanceTranscriptConsumed(r, off) ==
  /\ Exists(rows[r])
  /\ OffsetOk(rows[r], off)
  /\ Put(r, ConsumedRow(rows[r], off))

SealTranscript(r, size) ==
  /\ Exists(rows[r])
  /\ SealOk(rows[r], size)
  /\ Put(r, SealRow(rows[r], size))

SetTranscriptIdentity(r, id) ==
  /\ Exists(rows[r])
  /\ IdentityOk(rows[r], id)
  /\ Put(r, IdentityRow(rows[r], id))

SetRunSupervisor(r, p) ==
  /\ Exists(rows[r])
  /\ Put(r, SupervisorRow(rows[r], p))

AcknowledgeOutbox(r) ==
  /\ Exists(rows[r])
  /\ ResolveOk(rows[r])
  /\ Put(r, ResolveRow(rows[r], "acknowledged"))

AbandonOutbox(r) ==
  /\ Exists(rows[r])
  /\ ResolveOk(rows[r])
  /\ Put(r, ResolveRow(rows[r], "abandoned"))

Next ==
  \E r \in Runs :
    \/ \E required \in BOOLEAN : CreateRun(r, required)
    \/ \E to \in States : Transition(r, to) \/ CommitTerminal(r, to)
    \/ CommitNoProcessFailure(r)
    \/ RequestCancellation(r)
    \/ \E off \in Offsets :
         \/ AppendEvent(r, off)
         \/ AdvanceTranscriptConsumed(r, off)
         \/ SealTranscript(r, off)
    \/ \E id \in Identities : SetTranscriptIdentity(r, id)
    \/ \E p \in Processes : SetRunSupervisor(r, p)
    \/ AcknowledgeOutbox(r)
    \/ AbandonOutbox(r)

vars == rows
Spec == Init /\ [][Next]_vars

-----------------------------------------------------------------------------
(***************************************************************************)
(* Properties.                                                             *)
(***************************************************************************)

\* Every run has no rows yet or well-formed ones.
TypeOK == rows \in [Runs -> RunRow \cup {NoRun}]

\* Terminal state and finalization obligation are committed together: a run
\* is terminal exactly when its outbox row exists, and the row names the very
\* state the run ended in.
OutboxRecordsTerminal ==
  \A r \in Runs : Exists(rows[r]) =>
    /\ IsTerminal(rows[r].state) <=> rows[r].outbox.ack # "none"
    /\ IsTerminal(rows[r].state) => rows[r].outbox.state = rows[r].state

\* A cancellation accepted at any time before the terminal commit, from any
\* state, keeps the run out of `completed' for ever.
CancelledNeverCompletes ==
  \A r \in Runs : Exists(rows[r]) =>
    ~(rows[r].state = "completed" /\ rows[r].cancel)

\* A terminal run that needs a transcript has it sealed and consumed to the
\* last byte, and no later append, advance or seal can undo that.
TerminalTranscriptAccounted ==
  \A r \in Runs : TerminalRow(rows[r]) /\ rows[r].required =>
    rows[r].final >= 0 /\ rows[r].consumed = rows[r].final

\* The transition journal replays to the run: it starts in `created', follows
\* edges of the table (the no-process failure adds the edge from `created' to
\* `failed'), and ends in the state the run row holds.
JournalReplays ==
  \A r \in Runs : Exists(rows[r]) =>
    LET t == rows[r].trans
    IN  /\ t # <<>> /\ t[1] = "created" /\ t[Len(t)] = rows[r].state
        /\ \A i \in 1 .. Len(t) - 1 :
             CanTransition(t[i], t[i+1]) \/ (t[i] = "created" /\ t[i+1] = "failed")

\* The step of the journal on one run.
Kept(row, row2) ==
  /\ Exists(row2)
  /\ IsTerminal(row.state) => row2.state = row.state
  /\ row.cancel => row2.cancel
  /\ row.outbox.ack \in {"acknowledged", "abandoned"} => row2.outbox = row.outbox
  /\ Len(row.trans) <= Len(row2.trans)
  /\ SubSeq(row2.trans, 1, Len(row.trans)) = row.trans
  /\ SubSeq(row2.events, 1, Len(row.events)) = row.events

\* Nothing durable is taken back: a terminal state, a cancellation request, a
\* resolved outbox row and the rows of the two append-only tables survive every
\* later operation.
NothingTakenBack ==
  [][\A r \in Runs : Exists(rows[r]) => Kept(rows[r], rows'[r])]_vars

\* Sealed sizes and consumed offsets move back only when a no-process failure
\* synthesises the empty transcript.
HandoffNeverRewinds ==
  [][\A r \in Runs : Exists(rows[r]) =>
       \/ rows'[r] = NoProcessRow(rows[r])
       \/ /\ rows[r].consumed <= rows'[r].consumed
          /\ rows[r].final >= 0 => rows'[r].final = rows[r].final]_vars
=============================================================================
