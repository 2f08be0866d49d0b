----------------------------- MODULE Proposals -----------------------------
(***************************************************************************)
(* The proposal store (internal/store/proposals.go): proposals, their      *)
(* immutable revisions, the lifecycle/approval pair of every revision, the *)
(* activity log and the idempotency table that makes requests repeatable.  *)
(* Every operation is one immediate transaction, so one step; a request    *)
(* that is replayed or refused rolls back and changes nothing.  A revision *)
(* hash is determined by the proposal and the revision number, because     *)
(* snapshots are never rewritten, and is not carried separately.           *)
(***************************************************************************)
EXTENDS Naturals, Sequences, FiniteSets

CONSTANTS ProposalIds,      \* ids newProposalIdentifier may draw
          Keys,             \* idempotency keys of the callers
          Inputs,           \* revision inputs (task, criteria, policy)
          MaxRevisions      \* bound on the revisions of a proposal

ASSUME ProposalsAssumption ==
  /\ "proposal_collection" \notin ProposalIds
  /\ MaxRevisions \in Nat \ {0}

VARIABLES proposals,        \* rows of a proposal, over the five tables
          idempotency,      \* task_proposal_idempotency
          answered          \* history: every success a caller was told of

proposalVars == <<proposals, idempotency, answered>>

ProposalStates == {"open", "approved", "withdrawn"}
Decisions == {"approved", "rejected"}
PairStates == {"pending", "superseded", "withdrawn"} \cup Decisions
Operations ==
  {"create_proposal", "append_revision", "decide_approval", "withdraw_proposal"}

NoProposal == [state |-> "absent", current |-> 0, revisions |-> <<>>,
               lifecycles |-> <<>>, approvals |-> <<>>, activity |-> <<>>]

Stored(p) == proposals[p] # NoProposal

-----------------------------------------------------------------------------
(***************************************************************************)
(* Requests and the idempotency table.                                     *)
(***************************************************************************)

\* A request: the operation, the resource it is scoped to (the collection, a
\* proposal, or the approval of a revision), the caller's key and the body.
Request(op, p, approval, key, expected, content) ==
  [op |-> op, proposal |-> p, approval |-> approval, key |-> key,
   expected |-> expected, content |-> content]

Scope(q) == <<q.op, q.proposal, q.approval, q.key>>
Body(q) == <<q.expected, q.content>>

Recorded(q) == {e \in idempotency : e.scope = Scope(q)}

NoAnswer == [proposal |-> "none", revision |-> 0]
IdempotencyConflict == [proposal |-> "conflict", revision |-> 0]

\* The answer the table alone gives to q, before any other check is made.
Replay(q) ==
  LET e == CHOOSE e \in Recorded(q) : TRUE
  IN  IF e.body = Body(q) THEN e.result ELSE IdempotencyConflict

\* A pair of lifecycle and approval exists for the revision a result names.
MutationIdentity(p, n) ==
  /\ n \in DOMAIN proposals[p].revisions
  /\ n \in DOMAIN proposals[p].lifecycles
  /\ n \in DOMAIN proposals[p].approvals

\* Mutants: the answer names the wrong revision; it is not written down.
CommitNextRevision(q, p, row, n) ==
  LET result == [proposal |-> p, revision |-> n + 1]
  IN  /\ proposals' = [proposals EXCEPT ![p] =
           [row EXCEPT !.activity = Append(@, [op |-> q.op, revision |-> n])]]
      /\ idempotency' = idempotency \cup
           {[scope |-> Scope(q), body |-> Body(q), result |-> result]}
      /\ answered' = answered \cup {[request |-> q, result |-> result]}

CommitForgetsAnswer(q, p, row, n) ==
  LET result == [proposal |-> p, revision |-> n]
  IN  /\ proposals' = [proposals EXCEPT ![p] =
           [row EXCEPT !.activity = Append(@, [op |-> q.op, revision |-> n])]]
      /\ answered' = answered \cup {[request |-> q, result |-> result]}
      /\ UNCHANGED idempotency

\* The end of every successful transaction: the row, its activity record and
\* the durable answer are written together, and the caller is told.
Commit(q, p, row, n) ==
  LET result == [proposal |-> p, revision |-> n]
  IN  /\ proposals' = [proposals EXCEPT ![p] =
           [row EXCEPT !.activity = Append(@, [op |-> q.op, revision |-> n])]]
      /\ idempotency' = idempotency \cup
           {[scope |-> Scope(q), body |-> Body(q), result |-> result]}
      /\ answered' = answered \cup {[request |-> q, result |-> result]}

-----------------------------------------------------------------------------
(***************************************************************************)
(* The four operations.  Each is tried only after the table has no answer. *)
(***************************************************************************)

CreateRequest(key, input) ==
  Request("create_proposal", "proposal_collection", 0, key, 0, input)

\* Mutant: the request is tried without looking for its answer.
CreateWithoutLookup(p, key, input) ==
  /\ ~Stored(p)
  /\ Commit(CreateRequest(key, input), p,
       [NoProposal EXCEPT !.state = "open", !.current = 1,
          !.revisions = <<[parent |-> 0, key |-> key, input |-> input]>>,
          !.lifecycles = <<"pending">>, !.approvals = <<"pending">>], 1)

CreateProposal(p, key, input) ==
  LET q == CreateRequest(key, input)
  IN  /\ Recorded(q) = {}
      /\ ~Stored(p)
      /\ Commit(q, p,
           [NoProposal EXCEPT !.state = "open", !.current = 1,
              !.revisions = <<[parent |-> 0, key |-> key, input |-> input]>>,
              !.lifecycles = <<"pending">>, !.approvals = <<"pending">>], 1)

\* The current pair, when its two tables agree and it may still be moved on.
Movable(row) ==
  /\ row.lifecycles[row.current] = row.approvals[row.current]
  /\ row.lifecycles[row.current] \in {"pending", "rejected"}

AppendRequest(p, key, expected, input) ==
  Request("append_revision", p, 0, key, expected, input)

\* Mutant: only one of the two tables is written.
SettledLifecycle(row, n, s) == [row EXCEPT !.lifecycles[n] = s]

\* Both tables of revision n, moved from pending to s.
Settled(row, n, s) ==
  [row EXCEPT !.lifecycles[n] = s, !.approvals[n] = s]

Superseded(row) ==
  IF row.lifecycles[row.current] = "pending"
  THEN Settled(row, row.current, "superseded")
  ELSE row

\* Mutant: a closed proposal still takes revisions.
AppendAllowedClosed(row, expected) == row.current = expected /\ Movable(row)

AppendAllowed(row, expected) ==
  /\ row.state = "open"
  /\ row.current = expected
  /\ Movable(row)

AppendRow(row, key, input) ==
  LET old == Superseded(row)
      snapshot == [parent |-> row.current, key |-> key, input |-> input]
  IN  [old EXCEPT !.current = row.current + 1,
         !.revisions = Append(@, snapshot),
         !.lifecycles = Append(@, "pending"),
         !.approvals = Append(@, "pending")]

AppendProposalRevision(p, key, expected, input) ==
  LET q == AppendRequest(p, key, expected, input)
  IN  /\ Recorded(q) = {}
      /\ Stored(p)
      /\ AppendAllowed(proposals[p], expected)
      /\ expected < MaxRevisions
      /\ Commit(q, p, AppendRow(proposals[p], key, input), expected + 1)

DecideRequest(p, approval, key, revision, decision) ==
  Request("decide_approval", p, approval, key, revision, decision)

\* The approval names the revision, is pending, and the revision is still the
\* current one of an open proposal.
DecideAllowed(row, approval, revision) ==
  /\ approval \in DOMAIN row.approvals
  /\ approval = revision
  /\ row.approvals[approval] = "pending"
  /\ row.state = "open"
  /\ row.current = revision
  /\ row.lifecycles[revision] = "pending"

DecideRow(row, n, decision) ==
  LET decided == Settled(row, n, decision)
  IN  IF decision = "approved"
      THEN [decided EXCEPT !.state = "approved"]
      ELSE decided

DecideProposalApproval(p, approval, key, revision, decision) ==
  LET q == DecideRequest(p, approval, key, revision, decision)
  IN  /\ Recorded(q) = {}
      /\ Stored(p)
      /\ DecideAllowed(proposals[p], approval, revision)
      /\ Commit(q, p, DecideRow(proposals[p], revision, decision), revision)

WithdrawRequest(p, key) == Request("withdraw_proposal", p, 0, key, 0, "none")

\* Mutant: an approved proposal can be withdrawn.
WithdrawAllowedApproved(row) == row.state # "withdrawn"

WithdrawAllowed(row) == row.state = "open" /\ Movable(row)

\* A pending current pair is withdrawn with the proposal, a rejected one stays.
WithdrawRow(row) ==
  LET closed == [row EXCEPT !.state = "withdrawn"]
  IN  IF row.lifecycles[row.current] = "pending"
      THEN Settled(closed, row.current, "withdrawn")
      ELSE closed

WithdrawProposal(p, key) ==
  LET q == WithdrawRequest(p, key)
  IN  /\ Recorded(q) = {}
      /\ Stored(p)
      /\ WithdrawAllowed(proposals[p])
      /\ Commit(q, p, WithdrawRow(proposals[p]), proposals[p].current)

ProposalsInit ==
  /\ proposals = [p \in ProposalIds |-> NoProposal]
  /\ idempotency = {}
  /\ answered = {}

\* A caller repeats a request the table answers: the transaction is rolled
\* back, whatever the proposal looks like by now.
RepeatRequest ==
  /\ \E a \in answered : Recorded(a.request) # {}
  /\ UNCHANGED proposalVars

ProposalsNext ==
  \/ RepeatRequest
  \/ \E p \in ProposalIds, key \in Keys :
       \/ \E input \in Inputs : CreateProposal(p, key, input)
       \/ \E n \in 1 .. MaxRevisions, input \in Inputs :
            AppendProposalRevision(p, key, n, input)
       \/ \E a, n \in 1 .. MaxRevisions, d \in Decisions :
            DecideProposalApproval(p, a, key, n, d)
       \/ WithdrawProposal(p, key)

ProposalsSpec == ProposalsInit /\ [][ProposalsNext]_proposalVars

-----------------------------------------------------------------------------
(***************************************************************************)
(* Properties.                                                             *)
(***************************************************************************)

Row == [state : ProposalStates, current : 1 .. MaxRevisions,
        revisions : Seq([parent : Nat, key : Keys, input : Inputs]),
        lifecycles : Seq(PairStates), approvals : Seq(PairStates),
        activity : Seq([op : Operations, revision : Nat])]

\* What the handler of q would tell its caller now: the recorded answer, or
\* no answer where the table has none and the request would be tried afresh.
AnswerNow(q) == IF Recorded(q) = {} THEN NoAnswer ELSE Replay(q)

\* Every proposal has no rows or well-formed ones, and every recorded answer
\* names a revision pair that exists.
ProposalsTypeOK ==
  /\ proposals \in [ProposalIds -> Row \cup {NoProposal}]
  /\ \A e \in idempotency : MutationIdentity(e.result.proposal, e.result.revision)

\* A caller that was once told of success gets the very same answer whenever
\* it repeats the request, whatever happened to the proposal in between:
\* lookupProposalIdempotency runs before every state check.
ReplaysAgree ==
  \A a \in answered : AnswerNow(a.request) = a.result

\* The pair tables and the proposal agree at all times: only the current
\* revision can be pending or approved, an older one ended superseded or
\* rejected, and the proposal is approved exactly when its current pair is.
PairsFollowProposal ==
  \A p \in ProposalIds : Stored(p) =>
    LET row == proposals[p]
        now == row.lifecycles[row.current]
    IN  /\ row.lifecycles = row.approvals
        /\ row.current = Len(row.revisions)
        /\ \A n \in 1 .. row.current - 1 :
             row.lifecycles[n] \in {"superseded", "rejected"}
        /\ row.state = "open" => now \in {"pending", "rejected"}
        /\ row.state = "withdrawn" => now \in {"withdrawn", "rejected"}
        /\ row.state = "approved" <=> now = "approved"

\* One effect per answered request: a proposal has exactly as many activity
\* records as answers were recorded for it, so no change to it is applied twice
\* for one answer, or left without a durable answer.  (A create applied twice
\* would make two proposals: ReplaysAgree excludes that.)
EffectsOnce ==
  \A p \in ProposalIds :
    Len(proposals[p].activity) =
      Cardinality({e \in idempotency : e.result.proposal = p})

\* A snapshot is never rewritten, a pair that left pending never moves again,
\* and a proposal that is no longer open never changes at all.
DecisionsAreFinal ==
  [][\A p \in ProposalIds : Stored(p) =>
       LET old == proposals[p]
           new == proposals'[p]
       IN  /\ old.state # "open" => new = old
           /\ \A n \in DOMAIN old.revisions :
                /\ new.revisions[n] = old.revisions[n]
                /\ old.lifecycles[n] # "pending" =>
                     new.lifecycles[n] = old.lifecycles[n]]_proposalVars

-----------------------------------------------------------------------------
=============================================================================
