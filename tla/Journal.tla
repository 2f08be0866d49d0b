------------------------------ MODULE Journal ------------------------------
(***************************************************************************)
(* The rows SQLite keeps for one run, and the transactions of              *)
(* internal/store that change them.  Every transaction is immediate (the   *)
(* store opens its database with _txlock=immediate), so it reads and       *)
(* writes the row in one step.                                             *)
(*                                                                         *)
(* An operation is two operators: the condition under which its            *)
(* transaction commits, and the row it leaves.  When the condition is      *)
(* false the transaction rolls back and the caller sees an error.          *)
(***************************************************************************)
EXTENDS RunStates, Integers, Sequences

Max2(a, b) == IF a >= b THEN a ELSE b

\* finalization_outbox.acknowledged: no row, 0, 1 and -1.
OutboxStates == {"none", "pending", "acknowledged", "abandoned"}

\* A run without rows.
NoRun == [state |-> "none"]

(***************************************************************************)
(* The row CreateRun inserts.  ident and proc are 0 while the transcript   *)
(* identity and the three process ids are zero; final is -1 until the      *)
(* transcript is sealed; trans is state_transitions.to_state by seq and    *)
(* events is events.transcript_offset by seq.                              *)
(***************************************************************************)
NewRun(required) ==
  [state |-> "created", cancel |-> FALSE, required |-> required,
   ident |-> 0, proc |-> 0, committed |-> 0, consumed |-> 0, final |-> -1,
   events |-> <<>>, trans |-> <<"created">>,
   outbox |-> [ack |-> "none", state |-> "none"]]

Exists(row) == row.state # "none"
TerminalRow(row) == Exists(row) /\ IsTerminal(row.state)

\* The state update and the state_transitions insert of commitTransition.
Moved(row, to) == [row EXCEPT !.state = to, !.trans = Append(@, to)]

\* Mutant: the obligation names the state the run left.
WithOutboxOfFormerState(row, to, ack) ==
  [row EXCEPT !.outbox = [ack |-> ack, state |-> row.trans[Len(row.trans) - 1]]]
\* The outbox insert; run_id is its primary key.
WithOutbox(row, to, ack) == [row EXCEPT !.outbox = [ack |-> ack, state |-> to]]
OutboxFree(row) == row.outbox.ack = "none"

TransitionOk(row, to) ==
  /\ ~IsTerminal(to)
  /\ CanTransition(row.state, to)

\* Mutant: the cancellation test is missing.
CancellationNeverRefuses(row, to) == FALSE
\* ErrCancellationRequested: tested before the edge is.
CancellationRefuses(row, to) == to = "completed" /\ row.cancel

\* ErrTerminalTranscriptIncomplete and ErrTerminalTranscriptIdentity.
HandoffComplete(row) ==
  row.required => /\ row.final >= 0
                  /\ row.consumed = row.final
                  /\ row.ident # 0

CommitTerminalOk(row, to) ==
  /\ IsTerminal(to)
  /\ ~CancellationRefuses(row, to)
  /\ CanTransition(row.state, to)
  /\ HandoffComplete(row)
  /\ OutboxFree(row)
\* Mutant: the terminal state is committed without its outbox row.
CommitWithoutOutbox(row, to) == Moved(row, to)
CommitTerminalRow(row, to) == WithOutbox(Moved(row, to), to, "pending")

\* The only terminal edge out of `created': no process was ever recorded.
NoProcessOk(row) ==
  /\ row.state \in {"created", "running"}
  /\ row.proc = 0
  /\ OutboxFree(row)
NoProcessRow(row) ==
  LET sealed == IF row.required
                THEN [row EXCEPT !.ident = 0, !.consumed = 0, !.final = 0]
                ELSE [row EXCEPT !.ident = 0]
  IN  WithOutbox(Moved(sealed, "failed"), "failed", "acknowledged")

\* Running runs enter cancelling in the same transaction; the others keep
\* their state.
CancellationOk(row) == ~IsTerminal(row.state)
\* Mutant: the move to cancelling is not journalled.
CancellationUnjournalled(row) ==
  [row EXCEPT !.cancel = TRUE, !.state = IF @ = "running" THEN "cancelling" ELSE @]
CancellationRow(row) ==
  LET wanted == [row EXCEPT !.cancel = TRUE]
  IN  IF row.state = "running" THEN Moved(wanted, "cancelling") ELSE wanted

\* AppendEvent and AdvanceTranscriptConsumed refuse bytes beyond the seal and
\* never rewind; neither looks at the state.
OffsetOk(row, off) == row.final < 0 \/ off <= row.final
\* Mutant: the offset is overwritten, not advanced.
ConsumedOverwritten(row, off) == [row EXCEPT !.consumed = off]
ConsumedRow(row, off) == [row EXCEPT !.consumed = Max2(@, off)]
AppendEventRow(row, off) ==
  [ConsumedRow(row, off) EXCEPT !.committed = Max2(@, off),
                                !.events = Append(@, off)]

\* Mutant: a second seal replaces the first.
SealAlways(row, size) == TRUE
\* A repeated seal of the same size commits and changes nothing.
SealOk(row, size) == row.final < 0 \/ row.final = size
SealRow(row, size) == [row EXCEPT !.final = size]

\* The identity of the transcript file is published once.
IdentityOk(row, id) == row.ident \in {0, id}
IdentityRow(row, id) == [row EXCEPT !.ident = id]

\* SetRunSupervisor is an unconditional update.
SupervisorRow(row, p) == [row EXCEPT !.proc = p]

\* Mutant: the update is not restricted to pending rows.
ResolveAnyRow(row) == row.outbox.ack # "none"
\* Both resolutions update the outbox WHERE acknowledged = 0.
ResolveOk(row) == row.outbox.ack = "pending"
ResolveRow(row, ack) == [row EXCEPT !.outbox.ack = ack]

\* ListActiveRuns: every nonterminal run, and every run whose outbox row is
\* pending.
Active(row) ==
  Exists(row) /\ (~IsTerminal(row.state) \/ row.outbox.ack = "pending")
=============================================================================
