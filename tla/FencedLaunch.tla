---------------------------- MODULE FencedLaunch ----------------------------
(***************************************************************************)
(* The launch orchestrator (internal/lifecycle/fenced_launch.go) against a *)
(* journal that other handles and processes write at the same time.  A     *)
(* call writes in a transaction and then reads the recovery boundary with  *)
(* one query per table and no transaction, so the operations of others     *)
(* fall between its queries.  It ends with the next obligation, a stale    *)
(* fence or waiting_for_human, or the process crashes and forgets it.      *)
(***************************************************************************)
EXTENDS LaunchAdmission

VARIABLES call,             \* the orchestrator's call in progress
          seen              \* history: what a transaction would have answered
                            \* at each moment since the read began

fencedVars == <<call, seen>>

NoFence == [claim |-> "none", token |-> "none", generation |-> 0]

\* expected is the fence recoverExpectedFence insists on, request the claim
\* admit was asked for; the other fields hold the rows read so far.
Idle == [pc |-> "idle", spec |-> "none", expected |-> NoFence,
         request |-> {}, claim |-> {}, outbox |-> {}, materialization |-> {},
         run |-> {}, intents |-> {}, answer |-> [kind |-> "none"]]

Reading(spec, expected, request) ==
  [Idle EXCEPT !.pc = "claim", !.spec = spec, !.expected = expected,
               !.request = request]

-----------------------------------------------------------------------------
(***************************************************************************)
(* Answers.                                                                *)
(***************************************************************************)

WaitingForHuman == [kind |-> "waiting_for_human"]

\* fencedLaunchActionFromBoundary: a recorded outcome is never retried.
FencedLaunchAction(b) ==
  IF b.action = "corrupt" \/ b.outcome
  THEN WaitingForHuman
  ELSE [kind |-> b.action, fence |-> b.fence, facts |-> b.facts]

\* What recover answers once all rows have been read.
Recovered(k) ==
  IF k.claim = {}
  THEN WaitingForHuman
  ELSE LET c == CHOOSE c \in k.claim : TRUE
       IN  FencedLaunchAction(
             Boundary(c, k.outbox, k.materialization, k.run, k.intents))

\* matchesLaunchClaimRequest: everything but the generation.
MatchesRequest(c, q) ==
  /\ c.fence.claim = q.fence.claim
  /\ c.fence.token = q.fence.token
  /\ c.attempt = q.attempt

\* recoverExpectedFence after a write; after admit met an active claim, that
\* claim must be the requested one.
Answer(k) ==
  LET a == Recovered(k)
      stale == k.expected # NoFence /\ a.fence # k.expected
      foreign == \E q \in k.request, c \in k.claim : ~MatchesRequest(c, q)
  IN  CASE a = WaitingForHuman -> a
        [] a # WaitingForHuman /\ stale -> [kind |-> "stale_fence"]
        [] a # WaitingForHuman /\ foreign -> [kind |-> "claim_already_active"]
        [] OTHER -> a

-----------------------------------------------------------------------------
(***************************************************************************)
(* Calls.  A write that is refused ends its call at once and is left out:  *)
(* it changes nothing.                                                     *)
(***************************************************************************)

Unwritten == UNCHANGED launchVars

Recover(spec) ==
  /\ call.pc = "idle"
  /\ call' = Reading(spec, NoFence, {})
  /\ Unwritten

\* admit, first transaction: the spec is stored now or was before.
Admit(spec, approval, id, token, attempt) ==
  /\ call.pc = "idle"
  /\ \/ StoreLaunchSpec(spec, approval)
     \/ spec \in specs /\ approval = spec.revision /\ Unwritten
  /\ call' = [Idle EXCEPT !.pc = "acquire", !.spec = spec,
                !.request = {[spec |-> spec, attempt |-> attempt,
                              fence |-> [claim |-> id, token |-> token,
                                         generation |-> 1]]}]

\* admit, second transaction: the claim, or the one that is active already.
AdmitClaim ==
  /\ call.pc = "acquire"
  /\ \E c \in call.request :
       \/ /\ AcquireLaunchClaim(c.spec, c.fence.claim, c.fence.token, c.attempt)
          /\ call' = Reading(c.spec, c.fence, {})
       \/ /\ Launched(c.spec)
          /\ call' = Reading(c.spec, NoFence, call.request)
          /\ Unwritten
       \/ /\ ~Launched(c.spec)
          /\ \E other \in claims : other.fence.claim = c.fence.claim
          /\ call' = Idle
          /\ Unwritten

RecordTrustedMaterializationReady(f, id, seal) ==
  /\ call.pc = "idle"
  /\ \E c \in ActiveFence(f) :
       /\ \/ RecordLaunchMaterializationReady(f, id, seal)
          \/ /\ [id |-> id, spec |-> c.spec, fence |-> f, seal |-> seal]
                  \in materializations
             /\ Unwritten
       /\ call' = Reading(c.spec, f, {})

AdmitRunIntent(f, run, id, attempt) ==
  /\ call.pc = "idle"
  /\ \E c \in ActiveFence(f) :
       /\ \/ CreateLaunchRunIntent(f, run, id, attempt)
          \/ /\ [run |-> run, spec |-> c.spec, fence |-> f,
                 materialization |-> id, attempt |-> attempt] \in runIntents
             /\ Unwritten
       /\ call' = Reading(c.spec, f, {})

-----------------------------------------------------------------------------
(***************************************************************************)
(* The queries of GetLaunchRecoveryBoundary, in their order.               *)
(***************************************************************************)

Claimed(k) == CHOOSE c \in k.claim : TRUE

ReadClaim ==
  /\ call.pc = "claim"
  /\ call' = [call EXCEPT !.claim = LoadActiveLaunchClaim(call.spec),
                !.pc = IF Launched(call.spec) THEN "outbox" ELSE "answer"]

ReadOutbox ==
  /\ call.pc = "outbox"
  /\ call' = [call EXCEPT !.outbox = LoadLatestLaunchOutbox(Claimed(call)),
                !.pc = "materialization"]

ReadMaterialization ==
  /\ call.pc = "materialization"
  /\ call' = [call EXCEPT !.pc = "run", !.materialization =
                OfGeneration(materializations, call.spec,
                             Claimed(call).fence.generation)]

ReadRunIntent ==
  LET rows == OfGeneration(runIntents, call.spec,
                           Claimed(call).fence.generation)
  IN  /\ call.pc = "run"
      /\ call' = [call EXCEPT !.run = rows,
                    !.pc = IF rows = {} THEN "answer" ELSE "terminal"]

ReadIntent(kind, next) ==
  /\ call.pc = kind
  /\ call' = [call EXCEPT !.intents = @ \cup LoadIntent(kind, call.run),
                !.pc = next]

ReadStep ==
  /\ \/ ReadClaim
     \/ ReadOutbox
     \/ ReadMaterialization
     \/ ReadRunIntent
     \/ ReadIntent("terminal", "evidence")
     \/ ReadIntent("evidence", "answer")
  /\ Unwritten

Return ==
  /\ call.pc = "answer"
  /\ call' = [call EXCEPT !.answer = Answer(call), !.pc = "done"]
  /\ Unwritten

\* The caller takes the answer, or the process ends in the middle of a call.
ForgetCall ==
  /\ call.pc # "idle"
  /\ call' = Idle
  /\ Unwritten

-----------------------------------------------------------------------------
\* What recover would answer if the whole boundary were one transaction.
RecoverAtomically(spec) ==
  IF LoadActiveLaunchClaim(spec) = {}
  THEN WaitingForHuman
  ELSE FencedLaunchAction(
         RecoveryBoundary(CHOOSE c \in LoadActiveLaunchClaim(spec) : TRUE))

\* Every step of a call that is reading adds the answer of the moment.
Remember ==
  seen' = IF call.pc \in {"idle", "acquire", "done"} \/ call'.pc = "idle"
          THEN IF call'.pc = "done" THEN seen ELSE {}
          ELSE seen \cup {RecoverAtomically(call.spec)}

FencedInit == call = Idle /\ seen = {}

OrchestratorStep ==
  \/ \E spec \in LaunchSpecs :
       \/ Recover(spec)
       \/ \E approval \in 1 .. MaxRevisions, id \in ClaimIds, token \in Tokens,
             attempt \in Attempts : Admit(spec, approval, id, token, attempt)
  \/ AdmitClaim
  \/ \E f \in Fences, id \in MaterializationIds :
       \/ \E seal \in Seals : RecordTrustedMaterializationReady(f, id, seal)
       \/ \E run \in RunIds, attempt \in Attempts :
            AdmitRunIntent(f, run, id, attempt)
  \/ ReadStep
  \/ Return
  \/ ForgetCall

FencedLaunchInit == ProposalsInit /\ LaunchInit /\ FencedInit

FencedLaunchNext ==
  \/ ProposalsNext /\ UNCHANGED <<launchVars, fencedVars>>
  \/ LaunchOperation /\ UNCHANGED <<proposalVars, call>> /\ Remember
  \/ OrchestratorStep /\ UNCHANGED proposalVars /\ Remember

FencedLaunchSpec ==
  FencedLaunchInit /\ [][FencedLaunchNext]_<<proposalVars, launchVars, fencedVars>>

-----------------------------------------------------------------------------
(***************************************************************************)
(* Properties.                                                             *)
(***************************************************************************)

\* The queries of a boundary are not one transaction, yet an obligation they
\* lead to, with the fence and the facts it names, is one that a transaction
\* would have answered at some moment of the same call: a torn read is caught
\* as a corrupt boundary and never becomes a wrong obligation.
ObligationWasReal ==
  (call.pc = "done" /\ call.answer.kind \in
     {"retry_materialization", "retry_run_admission", "retry_process_admission"})
    => call.answer \in seen

\* A call is told that its fence is stale only when the launch has really been
\* reclaimed since: the fence it wrote under is no longer active.
StaleMeansReclaimed ==
  (call.pc = "done" /\ call.answer.kind = "stale_fence")
    => ActiveFence(call.expected) = {}
=============================================================================
