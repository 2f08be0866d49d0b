--------------------------- MODULE ExternalHandoff ---------------------------
(***************************************************************************)
(* Handing an admitted launch to the external supervisor                   *)
(* (internal/store/external_supervisor_handoff.go,                         *)
(* external_supervisor_authenticated_persistence.go and the runtime in     *)
(* internal/lifecycle/external_supervisor_handoff.go).  An envelope is     *)
(* staged, delivered, and answered by an authenticated receipt, then by a  *)
(* callback or a cancellation acknowledgement.  Each step proves the whole *)
(* admission again and holds its immediate transaction while the transport *)
(* is called, so it is one step that excludes all other writers; it may    *)
(* still be lost between the remote's answer and the commit, and the       *)
(* deadline may pass before it ends.                                       *)
(*                                                                         *)
(* The transport is external.  It may fail, accept without its answer      *)
(* getting through, and answer with any authenticated record of the        *)
(* envelope; the store must not rely on how the remote behaves.            *)
(***************************************************************************)
EXTENDS LaunchAdmission

CONSTANTS HandoffIds, HandoffKeys, RecordIds, AttemptCap

ASSUME HandoffAssumption == AttemptCap \in Nat \ {0}

VARIABLES handoffs,         \* external_supervisor_handoffs and delivery outbox
          records,          \* receipts, callbacks, cancellations
          replay,           \* external_supervisor_transport_replay
          expired,          \* the deadline of the specs has passed
          executing         \* external: handoffs the remote has accepted

handoffVars == <<handoffs, records, replay, expired, executing>>

Envelopes == [id : HandoffIds, key : HandoffKeys, spec : LaunchSpecs,
              fence : Fences, attempt : Attempts]

Records(kind, h) == {r \in records : r.kind = kind /\ r.handoff = h.id}

-----------------------------------------------------------------------------
\* Mutants: the stage of the launch is not looked at; nor is the deadline.
AdmissionAnyStage(h, f) ==
  \E c \in LoadActiveLaunchClaim(h.spec) :
    /\ c.fence = f /\ h.fence = f
    /\ ~expired
    /\ c.attempt = h.attempt /\ h.attempt <= AttemptCap

AdmissionAnyTime(h, f) ==
  \E c \in LoadActiveLaunchClaim(h.spec) :
    /\ RecoveryBoundary(c).action = "retry_process_admission"
    /\ c.fence = f /\ h.fence = f
    /\ c.attempt = h.attempt /\ h.attempt <= AttemptCap

\* validateExternalSupervisorAdmission: the launch waits for process admission
\* under fence f, which the envelope is bound to, in time and within the cap.
Admission(h, f) ==
  \E c \in LoadActiveLaunchClaim(h.spec) :
    /\ RecoveryBoundary(c).action = "retry_process_admission"
    /\ c.fence = f
    /\ h.fence = f
    /\ ~expired
    /\ c.attempt = h.attempt
    /\ h.attempt <= AttemptCap

\* loadAuthenticatedHandoffAdmission: the fence is that of the active claim.
Admitted(h) == \E c \in LoadActiveLaunchClaim(h.spec) : Admission(h, c.fence)

\* The identities of a staged handoff: sharing one of them is a replay or a
\* conflict, and stages nothing.
SharesIdentity(h, other) == h.id = other.id \/ h.key = other.key

\* The deadline is compared once, when the transaction begins.
DeadlineMayPass == expired' \in {expired, TRUE}

StageExternalSupervisorHandoff(h, f) ==
  /\ \A other \in handoffs : ~SharesIdentity(h, other)
  /\ Admission(h, f)
  /\ handoffs' = handoffs \cup {h}
  /\ DeadlineMayPass
  /\ UNCHANGED <<records, replay, executing>>

\* rememberExternalSupervisorReplay: a record id stands for one record.
Persist(kind, h, id) ==
  /\ \A x \in replay : x.kind = kind /\ x.id = id => x.handoff = h.id
  /\ replay' = replay \cup {[kind |-> kind, id |-> id, handoff |-> h.id]}
  /\ records' = records \cup {[kind |-> kind, id |-> id, handoff |-> h.id]}

\* A durable receipt is returned without contacting the remote.  Otherwise the
\* remote accepts, and the receipt is committed or lost with the transaction.
DeliverAndPersistExternalSupervisorReceipt(h, id) ==
  /\ Admitted(h)
  /\ Records("receipt", h) = {}
  /\ executing' = executing \cup {h.id}
  /\ \/ Persist("receipt", h, id)
     \/ UNCHANGED <<records, replay>>
  /\ DeadlineMayPass
  /\ UNCHANGED handoffs

ReconcileAndPersistExternalSupervisorCallback(h, id) ==
  /\ Admitted(h)
  /\ Records("receipt", h) # {}
  /\ Records("cancellation", h) = {}
  /\ Records("callback", h) = {}
  /\ Persist("callback", h, id)
  /\ DeadlineMayPass
  /\ UNCHANGED <<handoffs, executing>>

CancelAndPersistExternalSupervisorCancellation(h, f, id) ==
  /\ Admitted(h)
  /\ f = h.fence
  /\ Records("receipt", h) # {}
  /\ Records("callback", h) = {}
  /\ Records("cancellation", h) = {}
  /\ Persist("cancellation", h, id)
  /\ DeadlineMayPass
  /\ UNCHANGED <<handoffs, executing>>

\* The import of an acknowledgement obtained before; no look at callbacks.
AcceptExternalSupervisorCancellation(h, f, id) ==
  /\ Admitted(h)
  /\ f = h.fence
  /\ Records("receipt", h) # {}
  /\ Records("cancellation", h) = {}
  /\ Persist("cancellation", h, id)
  /\ DeadlineMayPass
  /\ UNCHANGED <<handoffs, executing>>

DeadlinePasses ==
  /\ ~expired
  /\ expired' = TRUE
  /\ UNCHANGED <<handoffs, records, replay, executing>>

-----------------------------------------------------------------------------
HandoffInit ==
  /\ handoffs = {} /\ records = {} /\ replay = {} /\ executing = {}
  /\ expired = FALSE

HandoffOperation ==
  \/ \E h \in Envelopes, f \in Fences : StageExternalSupervisorHandoff(h, f)
  \/ \E h \in handoffs, id \in RecordIds :
       \/ DeliverAndPersistExternalSupervisorReceipt(h, id)
       \/ ReconcileAndPersistExternalSupervisorCallback(h, id)
       \/ \E f \in Fences :
            \/ CancelAndPersistExternalSupervisorCancellation(h, f, id)
            \/ AcceptExternalSupervisorCancellation(h, f, id)
  \/ DeadlinePasses

ExternalHandoffInit == ProposalsInit /\ LaunchInit /\ HandoffInit

ExternalHandoffNext ==
  \/ ProposalsNext /\ UNCHANGED <<launchVars, handoffVars>>
  \/ LaunchOperation /\ UNCHANGED <<proposalVars, handoffVars>>
  \/ HandoffOperation /\ UNCHANGED <<proposalVars, launchVars>>

ExternalHandoffSpec ==
  /\ ExternalHandoffInit
  /\ [][ExternalHandoffNext]_<<proposalVars, launchVars, handoffVars>>

-----------------------------------------------------------------------------
(***************************************************************************)
(* Properties.                                                             *)
(***************************************************************************)

Running(h) ==
  \E r \in runIntents : r.spec = h.spec /\ r.fence = h.fence /\ r.attempt = h.attempt

\* Nothing is handed out, accepted or answered without the whole chain behind
\* it: an approved spec, a claim, a run intent of exactly this fence and
\* attempt within the cap; and an outcome only after a receipt, every record
\* standing for one handoff.
HandoffChain ==
  /\ \A h \in handoffs :
       h.spec \in specs /\ Running(h) /\ h.attempt <= AttemptCap
  /\ executing \subseteq {h.id : h \in handoffs}
  /\ \A r \in records :
       /\ \E receipt \in records :
            receipt.kind = "receipt" /\ receipt.handoff = r.handoff
       /\ r.handoff \in executing
       /\ \A other \in records :
            r.kind = other.kind =>
              (r.id = other.id <=> r.handoff = other.handoff)

\* A handoff whose claim was reclaimed, or whose deadline has passed, is over:
\* no later call contacts the remote for it or adds a record of it.
LateHandoffsFrozen ==
  [][\A h \in handoffs :
       (expired \/ ActiveFence(h.fence) = {}) =>
         /\ {r \in records' : r.handoff = h.id} = {r \in records : r.handoff = h.id}
         /\ h.id \in executing' => h.id \in executing]_handoffVars

\* Callback and cancellation of a handoff exclude each other.
OutcomesExclusive ==
  \A h \in handoffs :
    Records("callback", h) = {} \/ Records("cancellation", h) = {}
=============================================================================
