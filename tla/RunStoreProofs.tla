--------------------------- MODULE RunStoreProofs ---------------------------
(***************************************************************************)
(* Proofs about RunStore, for any set of runs and any bounds.              *)
(*                                                                         *)
(* Every transaction changes the row of one run, so the inductive          *)
(* invariant is a predicate of one row, RowInv, and each operation has a   *)
(* lemma that says the row it leaves satisfies RowInv when the row it read *)
(* did.  The theorems lift these lemmas to the store.                      *)
(***************************************************************************)
EXTENDS RunStore, SequenceTheorems, TLAPS

\* The parts of the invariant for one row: its obligations ...
RowOutbox(row) ==
  /\ IsTerminal(row.state) <=> row.outbox.ack # "none"
  /\ IsTerminal(row.state) => row.outbox.state = row.state
\* ... its cancellation ...
RowCancel(row) == ~(row.state = "completed" /\ row.cancel)
\* ... and its transcript.
RowTranscript(row) ==
  IsTerminal(row.state) /\ row.required => row.final >= 0 /\ row.consumed = row.final

RowInv(row) ==
  row \in RunRow /\ RowOutbox(row) /\ RowCancel(row) /\ RowTranscript(row)

StoreInv == rows \in [Runs -> {row \in RunRow : RowInv(row)} \cup {NoRun}]

-----------------------------------------------------------------------------
\* A run without rows is told apart from every well-formed row by its state.
LEMMA NoRunIsNotARow == \A row \in RunRow : Exists(row)
BY DEF RunRow, Exists, States, ActiveStates, TerminalStates

\* The edges of the table join states, and none leaves a terminal state.
LEMMA EdgeFacts ==
  \A from, to : CanTransition(from, to) =>
    from \in States /\ to \in States /\ ~IsTerminal(from)
BY DEF CanTransition, allowedTransitions, IsTerminal, States, ActiveStates, TerminalStates

\* The row CreateRun inserts.
LEMMA NewRunInv == \A required \in BOOLEAN : RowInv(NewRun(required))
BY DEF NewRun, RowInv, RowOutbox, RowCancel, RowTranscript, RunRow, OutboxStates,
       IsTerminal, States, ActiveStates, TerminalStates

\* Moved keeps a row well formed.
LEMMA MovedType ==
  ASSUME NEW row \in RunRow, NEW to \in States
  PROVE  Moved(row, to) \in RunRow
<1>1. Append(row.trans, to) \in Seq(States)
  BY AppendProperties DEF RunRow
<1> QED
  BY <1>1 DEF Moved, RunRow

\* So does the outbox insert.
LEMMA WithOutboxType ==
  ASSUME NEW row \in RunRow, NEW to \in TerminalStates, NEW ack \in OutboxStates
  PROVE  WithOutbox(row, to, ack) \in RunRow
BY DEF WithOutbox, RunRow

\* Transition.
LEMMA TransitionInv ==
  ASSUME NEW row, RowInv(row), NEW to, TransitionOk(row, to)
  PROVE  RowInv(Moved(row, to))
<1>1. to \in States /\ ~IsTerminal(to) /\ ~IsTerminal(row.state)
  BY EdgeFacts DEF TransitionOk
<1>2. Moved(row, to) \in RunRow
  BY <1>1, MovedType DEF RowInv
<1> QED
  BY <1>1, <1>2 DEF Moved, RowInv, RowOutbox, RowCancel, RowTranscript, RunRow,
                    IsTerminal, TerminalStates

\* CommitTerminal: the outbox row is inserted with the terminal state, and the
\* handoff test makes the transcript complete.
LEMMA CommitTerminalInv ==
  ASSUME NEW row, RowInv(row), NEW to, CommitTerminalOk(row, to)
  PROVE  RowInv(CommitTerminalRow(row, to))
<1>1. to \in TerminalStates /\ to \in States
  BY DEF CommitTerminalOk, IsTerminal, States
<1>2. Moved(row, to) \in RunRow
  BY <1>1, MovedType DEF RowInv
<1>3. CommitTerminalRow(row, to) \in RunRow
  BY <1>1, <1>2, WithOutboxType DEF CommitTerminalRow, OutboxStates
<1> QED
  BY <1>1, <1>3 DEF CommitTerminalRow, WithOutbox, Moved, RowInv, RowOutbox, RowCancel,
       RowTranscript, RunRow, IsTerminal, CommitTerminalOk, CancellationRefuses,
       HandoffComplete

\* CommitNoProcessFailure: the transcript is declared empty and consumed.
LEMMA NoProcessInv ==
  ASSUME NEW row, RowInv(row), NoProcessOk(row)
  PROVE  RowInv(NoProcessRow(row))
<1> DEFINE sealed == IF row.required
                     THEN [row EXCEPT !.ident = 0, !.consumed = 0, !.final = 0]
                     ELSE [row EXCEPT !.ident = 0]
<1>1. sealed \in RunRow
  BY DEF RowInv, RunRow
<1>2. "failed" \in States /\ "failed" \in TerminalStates
  BY DEF States, TerminalStates
<1>3. Moved(sealed, "failed") \in RunRow
  BY <1>1, <1>2, MovedType
<1>4. NoProcessRow(row) = WithOutbox(Moved(sealed, "failed"), "failed", "acknowledged")
  BY DEF NoProcessRow
<1>5. NoProcessRow(row) \in RunRow
  <2> HIDE DEF sealed
  <2> QED
    BY <1>2, <1>3, <1>4, WithOutboxType DEF OutboxStates
<1>6. /\ NoProcessRow(row).state = "failed"
      /\ NoProcessRow(row).outbox = [ack |-> "acknowledged", state |-> "failed"]
      /\ NoProcessRow(row).required = row.required
      /\ row.required => NoProcessRow(row).consumed = 0 /\ NoProcessRow(row).final = 0
  BY <1>1, <1>3, <1>4 DEF WithOutbox, Moved, RunRow, RowInv
<1> QED
  BY <1>2, <1>5, <1>6 DEF RowInv, RowOutbox, RowCancel, RowTranscript, IsTerminal

\* RequestCancellation: refused once the run is terminal.
LEMMA CancellationInv ==
  ASSUME NEW row, RowInv(row), CancellationOk(row)
  PROVE  RowInv(CancellationRow(row))
<1> DEFINE wanted == [row EXCEPT !.cancel = TRUE]
<1>1. wanted \in RunRow /\ RowInv(wanted)
  BY DEF RowInv, RowOutbox, RowCancel, RowTranscript, RunRow, CancellationOk,
         IsTerminal, TerminalStates
<1>2. CASE row.state = "running"
  <2>1. TransitionOk(wanted, "cancelling")
    BY <1>2 DEF RowInv, RunRow, TransitionOk, CanTransition, allowedTransitions,
                IsTerminal, ActiveStates, TerminalStates
  <2> QED
    BY <1>1, <1>2, <2>1, TransitionInv DEF CancellationRow
<1>3. CASE row.state # "running"
  BY <1>1, <1>3 DEF CancellationRow
<1> QED
  BY <1>2, <1>3

\* AdvanceTranscriptConsumed: within the seal, so a complete handoff stays
\* complete.
LEMMA ConsumedInv ==
  ASSUME NEW row, RowInv(row), NEW off \in Nat, OffsetOk(row, off)
  PROVE  RowInv(ConsumedRow(row, off))
<1>1. Max2(row.consumed, off) \in Nat
  BY DEF RowInv, RunRow, Max2
<1>2. ConsumedRow(row, off) \in RunRow
  BY <1>1 DEF RowInv, RunRow, ConsumedRow
<1>3. RowTranscript(ConsumedRow(row, off))
  BY DEF RowInv, RowTranscript, RunRow, OffsetOk, ConsumedRow, Max2
<1> QED
  BY <1>2, <1>3 DEF RowInv, RowOutbox, RowCancel, RunRow, ConsumedRow

\* AppendEvent.
LEMMA AppendEventInv ==
  ASSUME NEW row, RowInv(row), NEW off \in Nat, OffsetOk(row, off)
  PROVE  RowInv(AppendEventRow(row, off))
<1>1. RowInv(ConsumedRow(row, off))
  BY ConsumedInv
<1>2. Append(ConsumedRow(row, off).events, off) \in Seq(Nat)
  BY <1>1, AppendProperties DEF RowInv, RunRow
<1> QED
  BY <1>1, <1>2 DEF RowInv, RowOutbox, RowCancel, RowTranscript, RunRow,
                    AppendEventRow, Max2

\* SealTranscript: a second seal of another size is refused.
LEMMA SealInv ==
  ASSUME NEW row, RowInv(row), NEW size \in Nat, SealOk(row, size)
  PROVE  RowInv(SealRow(row, size))
<1>1. SealRow(row, size) \in RunRow
  BY DEF RowInv, RunRow, SealRow
<1>2. RowTranscript(SealRow(row, size))
  BY DEF RowInv, RowTranscript, RunRow, SealOk, SealRow
<1> QED
  BY <1>1, <1>2 DEF RowInv, RowOutbox, RowCancel, RunRow, SealRow

\* SetTranscriptIdentity and SetRunSupervisor.
LEMMA AuthorityInv ==
  ASSUME NEW row, RowInv(row), NEW n \in Nat
  PROVE  RowInv(IdentityRow(row, n)) /\ RowInv(SupervisorRow(row, n))
BY DEF RowInv, RowOutbox, RowCancel, RowTranscript, RunRow, IdentityRow, SupervisorRow

\* AcknowledgeOutbox and AbandonOutbox.
LEMMA ResolveInv ==
  ASSUME NEW row, RowInv(row), ResolveOk(row),
         NEW ack \in {"acknowledged", "abandoned"}
  PROVE  RowInv(ResolveRow(row, ack))
BY DEF RowInv, RowOutbox, RowCancel, RowTranscript, RunRow, ResolveOk, ResolveRow,
       OutboxStates
-----------------------------------------------------------------------------
\* An existing run satisfies the row invariant, and replacing its row by one
\* that does keeps the store's.
LEMMA ExistingRow ==
  ASSUME StoreInv, NEW r \in Runs, Exists(rows[r])
  PROVE  RowInv(rows[r])
BY DEF StoreInv, Exists, NoRun

LEMMA PutInv ==
  ASSUME StoreInv, NEW r \in Runs, NEW row, RowInv(row), Put(r, row)
  PROVE  StoreInv'
BY DEF StoreInv, Put, RowInv

\* The invariant holds in the empty store and every transaction of every caller
\* preserves it.
LEMMA StoreInvInductive ==
  /\ Init => StoreInv
  /\ StoreInv /\ [Next]_vars => StoreInv'
<1>1. Init => StoreInv
  BY DEF Init, StoreInv
<1>2. ASSUME StoreInv, NEW r \in Runs, NEW required \in BOOLEAN, CreateRun(r, required)
      PROVE  StoreInv'
  BY <1>2, NewRunInv, PutInv DEF CreateRun
<1>3. ASSUME StoreInv, NEW r \in Runs, NEW to \in States, Transition(r, to)
      PROVE  StoreInv'
  BY <1>3, ExistingRow, TransitionInv, PutInv DEF Transition
<1>4. ASSUME StoreInv, NEW r \in Runs, NEW to \in States, CommitTerminal(r, to)
      PROVE  StoreInv'
  BY <1>4, ExistingRow, CommitTerminalInv, PutInv DEF CommitTerminal
<1>5. ASSUME StoreInv, NEW r \in Runs, CommitNoProcessFailure(r)
      PROVE  StoreInv'
  BY <1>5, ExistingRow, NoProcessInv, PutInv DEF CommitNoProcessFailure
<1>6. ASSUME StoreInv, NEW r \in Runs, RequestCancellation(r)
      PROVE  StoreInv'
  BY <1>6, ExistingRow, CancellationInv, PutInv DEF RequestCancellation
<1>7. ASSUME StoreInv, NEW r \in Runs, NEW off \in Offsets, AppendEvent(r, off)
      PROVE  StoreInv'
  <2>1. off \in Nat
    BY DEF Offsets
  <2> QED
    BY <1>7, <2>1, ExistingRow, AppendEventInv, PutInv DEF AppendEvent
<1>8. ASSUME StoreInv, NEW r \in Runs, NEW off \in Offsets,
             AdvanceTranscriptConsumed(r, off)
      PROVE  StoreInv'
  <2>1. off \in Nat
    BY DEF Offsets
  <2> QED
    BY <1>8, <2>1, ExistingRow, ConsumedInv, PutInv DEF AdvanceTranscriptConsumed
<1>9. ASSUME StoreInv, NEW r \in Runs, NEW off \in Offsets, SealTranscript(r, off)
      PROVE  StoreInv'
  <2>1. off \in Nat
    BY DEF Offsets
  <2> QED
    BY <1>9, <2>1, ExistingRow, SealInv, PutInv DEF SealTranscript
<1>10. ASSUME StoreInv, NEW r \in Runs, NEW id \in Identities, SetTranscriptIdentity(r, id)
       PROVE  StoreInv'
  <2>1. id \in Nat
    BY StoreAssumption
  <2> QED
    BY <1>10, <2>1, ExistingRow, AuthorityInv, PutInv DEF SetTranscriptIdentity
<1>11. ASSUME StoreInv, NEW r \in Runs, NEW p \in Processes, SetRunSupervisor(r, p)
       PROVE  StoreInv'
  <2>1. p \in Nat
    BY StoreAssumption
  <2> QED
    BY <1>11, <2>1, ExistingRow, AuthorityInv, PutInv DEF SetRunSupervisor
<1>12. ASSUME StoreInv, NEW r \in Runs, AcknowledgeOutbox(r)
       PROVE  StoreInv'
  BY <1>12, ExistingRow, ResolveInv, PutInv DEF AcknowledgeOutbox
<1>13. ASSUME StoreInv, NEW r \in Runs, AbandonOutbox(r)
       PROVE  StoreInv'
  BY <1>13, ExistingRow, ResolveInv, PutInv DEF AbandonOutbox
<1>14. ASSUME StoreInv, UNCHANGED vars
       PROVE  StoreInv'
  BY <1>14 DEF StoreInv, vars
<1> QED
  BY <1>1, <1>2, <1>3, <1>4, <1>5, <1>6, <1>7, <1>8, <1>9, <1>10, <1>11, <1>12,
     <1>13, <1>14 DEF Next

\* The invariant contains the properties TLC checks.
LEMMA StoreInvImplies ==
  StoreInv => /\ TypeOK
              /\ OutboxRecordsTerminal
              /\ CancelledNeverCompletes
              /\ TerminalTranscriptAccounted
<1> SUFFICES ASSUME StoreInv
             PROVE  /\ TypeOK
                    /\ OutboxRecordsTerminal
                    /\ CancelledNeverCompletes
                    /\ TerminalTranscriptAccounted
  OBVIOUS
<1>1. TypeOK
  BY DEF StoreInv, TypeOK
<1>2. OutboxRecordsTerminal
  BY ExistingRow DEF OutboxRecordsTerminal, RowInv, RowOutbox
<1>3. CancelledNeverCompletes
  BY ExistingRow DEF CancelledNeverCompletes, RowInv, RowCancel
<1>4. TerminalTranscriptAccounted
  BY ExistingRow DEF TerminalTranscriptAccounted, TerminalRow, RowInv, RowTranscript
<1> QED
  BY <1>1, <1>2, <1>3, <1>4

LEMMA StoreInvAlways == Spec => []StoreInv
BY StoreInvInductive, PTL DEF Spec

\* Every row the store ever holds is well formed.
THEOREM TypeCorrect == Spec => []TypeOK
BY StoreInvAlways, StoreInvImplies, PTL

\* Whatever supervisors, daemon and API call, and in whatever order, a run is
\* terminal exactly when its outbox row exists, and the row names its state.
THEOREM TerminalWithOutbox == Spec => []OutboxRecordsTerminal
BY StoreInvAlways, StoreInvImplies, PTL

\* No interleaving of calls completes a run whose cancellation was accepted.
THEOREM CancellationWins == Spec => []CancelledNeverCompletes
BY StoreInvAlways, StoreInvImplies, PTL

\* No terminal run has transcript bytes that were not consumed.
THEOREM TranscriptAccounted == Spec => []TerminalTranscriptAccounted
BY StoreInvAlways, StoreInvImplies, PTL
-----------------------------------------------------------------------------
(***************************************************************************)
(* Nothing durable is taken back.                                          *)
(***************************************************************************)

\* A sequence is a prefix of itself and of itself with an element appended.
LEMMA PrefixSelf ==
  ASSUME NEW S, NEW s \in Seq(S)
  PROVE  Len(s) <= Len(s) /\ SubSeq(s, 1, Len(s)) = s
BY SubSeqFull, LenProperties

LEMMA PrefixAppend ==
  ASSUME NEW S, NEW s \in Seq(S), NEW e \in S
  PROVE  Len(s) <= Len(Append(s, e)) /\ SubSeq(Append(s, e), 1, Len(s)) = s
<1>1. Len(s) \in Nat /\ \A i \in 1 .. Len(s) : s[i] \in S
  BY LenProperties, ElementOfSeq
<1>2. /\ Len(Append(s, e)) = Len(s) + 1
      /\ \A i \in 1 .. Len(s) : Append(s, e)[i] = s[i]
  BY AppendProperties
<1>3. \A i \in 1 .. Len(s) : Append(s, e)[i] \in S
  BY <1>1, <1>2
<1>4. /\ SubSeq(Append(s, e), 1, Len(s)) \in Seq(S)
      /\ Len(SubSeq(Append(s, e), 1, Len(s))) = Len(s)
      /\ \A i \in 1 .. Len(s) : SubSeq(Append(s, e), 1, Len(s))[i] = s[i]
  BY <1>1, <1>2, <1>3, SubSeqProperties
<1>5. SubSeq(Append(s, e), 1, Len(s)) = s
  BY <1>4, SeqEqual
<1> QED
  BY <1>1, <1>2, <1>5

\* The operations that leave state, cancellation, outbox and journal alone.
LEMMA KeptByTranscript ==
  ASSUME NEW row, NEW row2, RowInv(row), RowInv(row2),
         row2.state = row.state, row2.cancel = row.cancel,
         row2.outbox = row.outbox, row2.trans = row.trans,
         \/ row2.events = row.events
         \/ \E off \in Nat : row2.events = Append(row.events, off)
  PROVE  Kept(row, row2)
<1>1. row.trans \in Seq(States) /\ row.events \in Seq(Nat)
  BY DEF RowInv, RunRow
<1>2. SubSeq(row2.events, 1, Len(row.events)) = row.events
  <2>1. CASE row2.events = row.events
    BY <1>1, <2>1, PrefixSelf
  <2>2. CASE \E off \in Nat : row2.events = Append(row.events, off)
    <3>1. PICK off \in Nat : row2.events = Append(row.events, off)
      BY <2>2
    <3> QED
      BY <1>1, <3>1, PrefixAppend
  <2> QED
    BY <2>1, <2>2
<1>3. Exists(row2)
  BY NoRunIsNotARow DEF RowInv
<1> QED
  BY <1>1, <1>2, <1>3, PrefixSelf DEF Kept

\* The operations that move a run that is not terminal.
LEMMA KeptByMove ==
  ASSUME NEW row, NEW row2, RowInv(row), RowInv(row2), ~IsTerminal(row.state),
         row.cancel => row2.cancel, row2.events = row.events,
         \/ row2.trans = row.trans
         \/ \E to \in States : row2.trans = Append(row.trans, to)
  PROVE  Kept(row, row2)
<1>1. row.trans \in Seq(States) /\ row.events \in Seq(Nat)
  BY DEF RowInv, RunRow
<1>2. Len(row.trans) <= Len(row2.trans) /\ SubSeq(row2.trans, 1, Len(row.trans)) = row.trans
  <2>1. CASE row2.trans = row.trans
    BY <1>1, <2>1, PrefixSelf
  <2>2. CASE \E to \in States : row2.trans = Append(row.trans, to)
    <3>1. PICK to \in States : row2.trans = Append(row.trans, to)
      BY <2>2
    <3> QED
      BY <1>1, <3>1, PrefixAppend
  <2> QED
    BY <2>1, <2>2
<1>3. Exists(row2)
  BY NoRunIsNotARow DEF RowInv
<1>4. row.outbox.ack = "none"
  BY DEF RowInv, RowOutbox
<1> QED
  BY <1>1, <1>2, <1>3, <1>4, PrefixSelf DEF Kept

\* Resolving a pending outbox row.
LEMMA KeptByResolve ==
  ASSUME NEW row, RowInv(row), ResolveOk(row), NEW ack \in {"acknowledged", "abandoned"}
  PROVE  Kept(row, ResolveRow(row, ack))
<1>1. row.trans \in Seq(States) /\ row.events \in Seq(Nat)
  BY DEF RowInv, RunRow
<1>2. /\ ResolveRow(row, ack).state = row.state
      /\ ResolveRow(row, ack).cancel = row.cancel
      /\ ResolveRow(row, ack).trans = row.trans
      /\ ResolveRow(row, ack).events = row.events
  BY DEF ResolveRow, RowInv, RunRow
<1>3. Exists(ResolveRow(row, ack))
  BY ResolveInv, NoRunIsNotARow DEF RowInv
<1> QED
  BY <1>1, <1>2, <1>3, PrefixSelf DEF Kept, ResolveOk

\* A run that is not the one the transaction is about keeps its row.
LEMMA KeptElsewhere ==
  ASSUME StoreInv, NEW r \in Runs, NEW row, Put(r, row),
         Exists(rows[r]) => Kept(rows[r], row)
  PROVE  \A q \in Runs : Exists(rows[q]) => Kept(rows[q], rows'[q])
<1> SUFFICES ASSUME NEW q \in Runs, Exists(rows[q])
             PROVE  Kept(rows[q], rows'[q])
  OBVIOUS
<1>1. CASE q = r
  BY <1>1 DEF Put, StoreInv
<1>2. CASE q # r
  <2>1. rows'[q] = rows[q] /\ RowInv(rows[q])
    BY <1>2, ExistingRow DEF Put, StoreInv
  <2> QED
    BY <2>1, KeptByTranscript
<1> QED
  BY <1>1, <1>2
LEMMA StepKeeps ==
  StoreInv /\ [Next]_vars =>
    \A q \in Runs : Exists(rows[q]) => Kept(rows[q], rows'[q])
<1> DEFINE AllKept == \A q \in Runs : Exists(rows[q]) => Kept(rows[q], rows'[q])
<1>1. ASSUME StoreInv, NEW r \in Runs, NEW required \in BOOLEAN, CreateRun(r, required)
      PROVE  AllKept
  BY <1>1, KeptElsewhere DEF CreateRun
<1>2. ASSUME StoreInv, NEW r \in Runs, NEW to \in States, Transition(r, to)
      PROVE  AllKept
  <2>1. RowInv(rows[r]) /\ ~IsTerminal(rows[r].state)
    BY <1>2, ExistingRow, EdgeFacts DEF Transition, TransitionOk
  <2>2. RowInv(Moved(rows[r], to))
    BY <1>2, <2>1, TransitionInv DEF Transition
  <2>3. /\ Moved(rows[r], to).cancel = rows[r].cancel
        /\ Moved(rows[r], to).events = rows[r].events
        /\ Moved(rows[r], to).trans = Append(rows[r].trans, to)
    BY <2>1 DEF Moved, RowInv, RunRow
  <2>4. Kept(rows[r], Moved(rows[r], to))
    BY <2>1, <2>2, <2>3, KeptByMove
  <2> QED
    BY <1>2, <2>4, KeptElsewhere DEF Transition
<1>3. ASSUME StoreInv, NEW r \in Runs, NEW to \in States, CommitTerminal(r, to)
      PROVE  AllKept
  <2>1. RowInv(rows[r]) /\ ~IsTerminal(rows[r].state)
    BY <1>3, ExistingRow, EdgeFacts DEF CommitTerminal, CommitTerminalOk
  <2>2. RowInv(CommitTerminalRow(rows[r], to))
    BY <1>3, <2>1, CommitTerminalInv DEF CommitTerminal
  <2>3. /\ CommitTerminalRow(rows[r], to).cancel = rows[r].cancel
        /\ CommitTerminalRow(rows[r], to).events = rows[r].events
        /\ CommitTerminalRow(rows[r], to).trans = Append(rows[r].trans, to)
    BY <2>1 DEF CommitTerminalRow, WithOutbox, Moved, RowInv, RunRow
  <2>4. Kept(rows[r], CommitTerminalRow(rows[r], to))
    BY <2>1, <2>2, <2>3, KeptByMove
  <2> QED
    BY <1>3, <2>4, KeptElsewhere DEF CommitTerminal
<1>4. ASSUME StoreInv, NEW r \in Runs, CommitNoProcessFailure(r)
      PROVE  AllKept
  <2>1. RowInv(rows[r]) /\ ~IsTerminal(rows[r].state)
    BY <1>4, ExistingRow DEF CommitNoProcessFailure, NoProcessOk, IsTerminal, TerminalStates
  <2>2. RowInv(NoProcessRow(rows[r]))
    BY <1>4, <2>1, NoProcessInv DEF CommitNoProcessFailure
  <2>3. /\ NoProcessRow(rows[r]).cancel = rows[r].cancel
        /\ NoProcessRow(rows[r]).events = rows[r].events
        /\ NoProcessRow(rows[r]).trans = Append(rows[r].trans, "failed")
    BY <2>1 DEF NoProcessRow, WithOutbox, Moved, RowInv, RunRow
  <2>4. "failed" \in States
    BY DEF States, TerminalStates
  <2>5. Kept(rows[r], NoProcessRow(rows[r]))
    BY <2>1, <2>2, <2>3, <2>4, KeptByMove
  <2> QED
    BY <1>4, <2>5, KeptElsewhere DEF CommitNoProcessFailure
<1>5. ASSUME StoreInv, NEW r \in Runs, RequestCancellation(r)
      PROVE  AllKept
  <2>1. RowInv(rows[r]) /\ ~IsTerminal(rows[r].state)
    BY <1>5, ExistingRow DEF RequestCancellation, CancellationOk
  <2>2. RowInv(CancellationRow(rows[r]))
    BY <1>5, <2>1, CancellationInv DEF RequestCancellation
  <2>3. /\ CancellationRow(rows[r]).cancel = TRUE
        /\ CancellationRow(rows[r]).events = rows[r].events
        /\ \/ CancellationRow(rows[r]).trans = rows[r].trans
           \/ CancellationRow(rows[r]).trans = Append(rows[r].trans, "cancelling")
    BY <2>1 DEF CancellationRow, Moved, RowInv, RunRow
  <2>4. "cancelling" \in States
    BY DEF States, ActiveStates
  <2>5. Kept(rows[r], CancellationRow(rows[r]))
    BY <2>1, <2>2, <2>3, <2>4, KeptByMove
  <2> QED
    BY <1>5, <2>5, KeptElsewhere DEF RequestCancellation
<1>6. ASSUME StoreInv, NEW r \in Runs, NEW off \in Offsets, AppendEvent(r, off)
      PROVE  AllKept
  <2>1. RowInv(rows[r]) /\ off \in Nat /\ OffsetOk(rows[r], off)
    BY <1>6, ExistingRow DEF AppendEvent, Offsets
  <2>2. RowInv(AppendEventRow(rows[r], off))
    BY <2>1, AppendEventInv
  <2>3. /\ AppendEventRow(rows[r], off).state = rows[r].state
        /\ AppendEventRow(rows[r], off).cancel = rows[r].cancel
        /\ AppendEventRow(rows[r], off).outbox = rows[r].outbox
        /\ AppendEventRow(rows[r], off).trans = rows[r].trans
        /\ AppendEventRow(rows[r], off).events = Append(rows[r].events, off)
    BY <2>1 DEF AppendEventRow, ConsumedRow, RowInv, RunRow
  <2>4. Kept(rows[r], AppendEventRow(rows[r], off))
    BY <2>1, <2>2, <2>3, KeptByTranscript
  <2> QED
    BY <1>6, <2>4, KeptElsewhere DEF AppendEvent
<1>7. ASSUME StoreInv, NEW r \in Runs, NEW off \in Offsets,
             AdvanceTranscriptConsumed(r, off) \/ SealTranscript(r, off)
      PROVE  AllKept
  <2>1. RowInv(rows[r]) /\ off \in Nat
    BY <1>7, ExistingRow DEF AdvanceTranscriptConsumed, SealTranscript, Offsets
  <2>2. CASE AdvanceTranscriptConsumed(r, off)
    <3>1. RowInv(ConsumedRow(rows[r], off))
      BY <2>1, <2>2, ConsumedInv DEF AdvanceTranscriptConsumed
    <3>2. Kept(rows[r], ConsumedRow(rows[r], off))
      BY <2>1, <3>1, KeptByTranscript DEF ConsumedRow, RowInv, RunRow
    <3> QED
      BY <1>7, <2>2, <3>2, KeptElsewhere DEF AdvanceTranscriptConsumed
  <2>3. CASE SealTranscript(r, off)
    <3>1. RowInv(SealRow(rows[r], off))
      BY <2>1, <2>3, SealInv DEF SealTranscript
    <3>2. Kept(rows[r], SealRow(rows[r], off))
      BY <2>1, <3>1, KeptByTranscript DEF SealRow, RowInv, RunRow
    <3> QED
      BY <1>7, <2>3, <3>2, KeptElsewhere DEF SealTranscript
  <2> QED
    BY <1>7, <2>2, <2>3
<1>8. ASSUME StoreInv, NEW r \in Runs, NEW n \in Identities \cup Processes,
             SetTranscriptIdentity(r, n) \/ SetRunSupervisor(r, n)
      PROVE  AllKept
  <2>1. RowInv(rows[r]) /\ n \in Nat
    BY <1>8, ExistingRow, StoreAssumption DEF SetTranscriptIdentity, SetRunSupervisor
  <2>2. RowInv(IdentityRow(rows[r], n)) /\ RowInv(SupervisorRow(rows[r], n))
    BY <2>1, AuthorityInv
  <2>3. Kept(rows[r], IdentityRow(rows[r], n))
    BY <2>1, <2>2, KeptByTranscript DEF IdentityRow, RowInv, RunRow
  <2>4. Kept(rows[r], SupervisorRow(rows[r], n))
    BY <2>1, <2>2, KeptByTranscript DEF SupervisorRow, RowInv, RunRow
  <2> QED
    BY <1>8, <2>3, <2>4, KeptElsewhere DEF SetTranscriptIdentity, SetRunSupervisor
<1>9. ASSUME StoreInv, NEW r \in Runs, AcknowledgeOutbox(r) \/ AbandonOutbox(r)
      PROVE  AllKept
  <2>1. RowInv(rows[r]) /\ ResolveOk(rows[r])
    BY <1>9, ExistingRow DEF AcknowledgeOutbox, AbandonOutbox
  <2> QED
    BY <1>9, <2>1, KeptByResolve, KeptElsewhere DEF AcknowledgeOutbox, AbandonOutbox
<1>10. ASSUME StoreInv, UNCHANGED vars
       PROVE  AllKept
  BY <1>10, ExistingRow, KeptByTranscript DEF vars
<1> QED
  BY <1>1, <1>2, <1>3, <1>4, <1>5, <1>6, <1>7, <1>8, <1>9, <1>10 DEF Next

\* Terminal states, cancellation requests, resolved outbox rows and the rows of
\* state_transitions and events survive every later transaction.
THEOREM NothingIsTakenBack == Spec => NothingTakenBack
<1>1. StoreInv /\ [Next]_vars =>
        [\A r \in Runs : Exists(rows[r]) => Kept(rows[r], rows'[r])]_vars
  BY StepKeeps
<1> QED
  BY <1>1, StoreInvAlways, PTL DEF Spec, NothingTakenBack
=============================================================================
