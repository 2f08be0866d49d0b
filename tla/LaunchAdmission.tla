-------------------------- MODULE LaunchAdmission --------------------------
(***************************************************************************)
(* Fenced launch admission (internal/store/launch_admission.go): the       *)
(* launch spec derived from an approved revision, its claims, and the      *)
(* facts a claim may write (materialization, run intent, terminal and      *)
(* evidence intents) with the outbox stage each of them opens.  A fact is  *)
(* written only by the holder of the complete active fence: claim id,      *)
(* token and generation.  Reclaiming a launch moves the head to a new      *)
(* generation and leaves every older row in place.  Every operation is one *)
(* immediate transaction; a replayed or refused one changes nothing.       *)
(*                                                                         *)
(* A spec stands for its hash: [proposal, revision, seal], the seal being  *)
(* the sealed contract's hash and nonce.  The fields that no operation     *)
(* compares (owner, timestamps, model, host) are left out.                 *)
(***************************************************************************)
EXTENDS Proposals

CONSTANTS Seals, ClaimIds, Tokens, Attempts, MaterializationIds, RunIds,
          IntentIds,
          MaxGenerations    \* bound on the claims of one launch spec

ASSUME LaunchAssumption ==
  /\ Attempts \subseteq Nat \ {0}
  /\ MaxGenerations \in Nat \ {0}

VARIABLES specs,            \* launch_specs
          claims,           \* task_claims
          heads,            \* launch_claim_heads
          outbox,           \* launch_admission_outbox
          materializations, \* launch_materializations
          runIntents,       \* launch_run_intents and their created fact
          intents           \* launch_terminal_intents, launch_evidence_intents

launchVars ==
  <<specs, claims, heads, outbox, materializations, runIntents, intents>>

Fences == [claim : ClaimIds, token : Tokens, generation : 1 .. MaxGenerations]
LaunchSpecs ==
  [proposal : ProposalIds, revision : 1 .. MaxRevisions, seal : Seals]
IntentKinds == {"terminal", "evidence"}

-----------------------------------------------------------------------------
(***************************************************************************)
(* Specs and claims.                                                       *)
(***************************************************************************)

\* The approval is the one of the proposal's current revision, and approval,
\* lifecycle and proposal all say approved.
ApprovalEligible(spec, approval) ==
  LET row == proposals[spec.proposal]
  IN  /\ Stored(spec.proposal)
      /\ spec.revision \in DOMAIN row.revisions
      /\ row.current = spec.revision
      /\ approval = spec.revision
      /\ row.approvals[approval] = "approved"
      /\ row.lifecycles[spec.revision] = "approved"
      /\ row.state = "approved"

\* A spec that is stored already is replayed, and a second spec of one
\* approval runs into the unique index.
StoreLaunchSpec(spec, approval) ==
  /\ spec \notin specs
  /\ ApprovalEligible(spec, approval)
  /\ \A s \in specs : <<s.proposal, s.revision>> # <<spec.proposal, spec.revision>>
  /\ specs' = specs \cup {spec}
  /\ UNCHANGED <<claims, heads, outbox, materializations, runIntents, intents>>

Active(c) == [spec |-> c.spec, fence |-> c.fence] \in heads
Launched(spec) == \E h \in heads : h.spec = spec

\* Mutant: the fence of any claim ever made will do.
AnyFence(f) == {c \in claims : c.fence = f}

\* The claim whose complete fence is f, if it is the active one of its spec.
ActiveFence(f) == {c \in claims : c.fence = f /\ Active(c)}

InsertLaunchClaim(spec, f, attempt) ==
  /\ \A c \in claims : c.fence.claim # f.claim
  /\ claims' = claims \cup {[spec |-> spec, fence |-> f, attempt |-> attempt]}

InsertLaunchOutbox(spec, f, sequence) ==
  outbox' = outbox \cup {[spec |-> spec, fence |-> f, sequence |-> sequence]}

AcquireLaunchClaim(spec, id, token, attempt) ==
  LET f == [claim |-> id, token |-> token, generation |-> 1]
  IN  /\ spec \in specs
      /\ ~Launched(spec)
      /\ InsertLaunchClaim(spec, f, attempt)
      /\ heads' = heads \cup {[spec |-> spec, fence |-> f]}
      /\ InsertLaunchOutbox(spec, f, 1)
      /\ UNCHANGED <<specs, materializations, runIntents, intents>>

\* Mutant: the new generation starts without an obligation.
ReclaimWithoutOutbox(spec, expected, id, token, attempt) ==
  LET f == [claim |-> id, token |-> token,
            generation |-> expected.generation + 1]
  IN  /\ \E c \in ActiveFence(expected) : c.spec = spec
      /\ f.generation <= MaxGenerations
      /\ InsertLaunchClaim(spec, f, attempt)
      /\ heads' = {h \in heads : h.spec # spec} \cup
                    {[spec |-> spec, fence |-> f]}
      /\ UNCHANGED <<specs, outbox, materializations, runIntents, intents>>

ReclaimLaunchClaim(spec, expected, id, token, attempt) ==
  LET f == [claim |-> id, token |-> token,
            generation |-> expected.generation + 1]
  IN  /\ \E c \in ActiveFence(expected) : c.spec = spec
      /\ f.generation <= MaxGenerations
      /\ InsertLaunchClaim(spec, f, attempt)
      /\ heads' = {h \in heads : h.spec # spec} \cup
                    {[spec |-> spec, fence |-> f]}
      /\ InsertLaunchOutbox(spec, f, 1)
      /\ UNCHANGED <<specs, materializations, runIntents, intents>>

-----------------------------------------------------------------------------
(***************************************************************************)
(* Facts written under a fence.                                            *)
(***************************************************************************)

\* The rows a table holds for one generation of a spec.
OfGeneration(rows, spec, generation) ==
  {r \in rows : r.spec = spec /\ r.fence.generation = generation}

RecordLaunchMaterializationReady(f, id, seal) ==
  \E c \in ActiveFence(f) :
    /\ seal = c.spec.seal
    /\ OfGeneration(materializations, c.spec, f.generation) = {}
    /\ \A m \in materializations : m.id # id
    /\ materializations' = materializations \cup
         {[id |-> id, spec |-> c.spec, fence |-> f, seal |-> seal]}
    /\ InsertLaunchOutbox(c.spec, f, 2)
    /\ UNCHANGED <<specs, claims, heads, runIntents, intents>>

CreateLaunchRunIntent(f, run, id, attempt) ==
  \E c \in ActiveFence(f) :
    /\ attempt = c.attempt
    /\ \E m \in OfGeneration(materializations, c.spec, f.generation) :
         m.fence = f /\ m.id = id /\ m.seal = c.spec.seal
    /\ \A r \in runIntents : r.run # run
    /\ OfGeneration(runIntents, c.spec, f.generation) = {}
    /\ runIntents' = runIntents \cup
         {[run |-> run, spec |-> c.spec, fence |-> f, materialization |-> id,
           attempt |-> attempt]}
    /\ InsertLaunchOutbox(c.spec, f, 3)
    /\ UNCHANGED <<specs, claims, heads, materializations, intents>>

\* A terminal or evidence intent: the run is one of the active fence, it has
\* no intent of this kind, and the intent id is new to the kind's table.
AppendLaunchIntent(kind, f, run, id) ==
  \E c \in ActiveFence(f) :
    /\ \E r \in runIntents : r.run = run /\ r.fence = f /\ r.spec = c.spec
    /\ \A i \in intents : i.kind = kind => i.run # run /\ i.id # id
    /\ intents' = intents \cup
         {[kind |-> kind, id |-> id, run |-> run, fence |-> f]}
    /\ UNCHANGED <<specs, claims, heads, outbox, materializations, runIntents>>

AppendLaunchTerminalIntent(f, run, id) ==
  AppendLaunchIntent("terminal", f, run, id)

SettleLaunchEvidenceIntent(f, run, id) ==
  AppendLaunchIntent("evidence", f, run, id)

-----------------------------------------------------------------------------
(***************************************************************************)
(* The recovery boundary: what the rows of a generation oblige to next.    *)
(* Each part is the set of rows one query returns: empty or a singleton.   *)
(***************************************************************************)

\* Mutant: the claims of all generations are taken for active.
LoadAnyLaunchClaim(spec) == {c \in claims : c.spec = spec}

LoadActiveLaunchClaim(spec) == {c \in claims : c.spec = spec /\ Active(c)}

LoadLatestLaunchOutbox(c) ==
  LET rows == OfGeneration(outbox, c.spec, c.fence.generation)
  IN  {o \in rows : \A other \in rows : other.sequence <= o.sequence}

LoadIntent(kind, runs) ==
  {i \in intents : i.kind = kind /\ \E r \in runs : i.run = r.run}

\* Mutant: the facts are not compared with the stage.
BoundaryUnstaged(c, o, m, r, i) ==
  o = {} \/ \E row \in o \cup m \cup r \cup i : row.fence # c.fence

\* loadLaunchRecoveryBoundary on rows read for claim c: it returns an error,
\* ErrLaunchRecordCorrupt, unless the rows belong to the claim's fence and are
\* exactly those of the outbox stage.
BoundaryCorrupt(c, o, m, r, i) ==
  LET stage == IF o = {} THEN 0 ELSE (CHOOSE row \in o : TRUE).sequence
  IN  \/ o = {}
      \/ \E row \in o \cup m \cup r \cup i : row.fence # c.fence
      \/ \E row \in m : row.seal # c.spec.seal
      \/ \E row \in r : {x.id : x \in m} # {row.materialization}
      \/ stage = 1 /\ (m # {} \/ r # {})
      \/ stage = 2 /\ (m = {} \/ r # {})
      \/ stage = 3 /\ (m = {} \/ r = {})

Boundary(c, o, m, r, i) ==
  IF BoundaryCorrupt(c, o, m, r, i)
  THEN [action |-> "corrupt", fence |-> c.fence, facts |-> {}, outcome |-> FALSE]
  ELSE [action |-> <<"retry_materialization", "retry_run_admission",
                     "retry_process_admission">>[
                       (CHOOSE row \in o : TRUE).sequence],
        fence |-> c.fence,
        facts |-> {x.id : x \in m} \cup {x.run : x \in r},
        outcome |-> i # {}]

\* The boundary of the active claim c as one transaction reads it.
RecoveryBoundary(c) ==
  LET g == c.fence.generation
      r == OfGeneration(runIntents, c.spec, g)
  IN  Boundary(c, LoadLatestLaunchOutbox(c),
               OfGeneration(materializations, c.spec, g), r,
               UNION {LoadIntent(kind, r) : kind \in IntentKinds})

-----------------------------------------------------------------------------
LaunchInit ==
  /\ specs = {} /\ claims = {} /\ heads = {} /\ outbox = {}
  /\ materializations = {} /\ runIntents = {} /\ intents = {}

\* Any process may try any operation with any fence, stale ones included.
LaunchOperation ==
  \/ \E spec \in LaunchSpecs :
       \/ \E approval \in 1 .. MaxRevisions : StoreLaunchSpec(spec, approval)
       \/ \E id \in ClaimIds, token \in Tokens, attempt \in Attempts :
            \/ AcquireLaunchClaim(spec, id, token, attempt)
            \/ \E f \in Fences : ReclaimLaunchClaim(spec, f, id, token, attempt)
  \/ \E f \in Fences :
       \/ \E id \in MaterializationIds, seal \in Seals :
            RecordLaunchMaterializationReady(f, id, seal)
       \/ \E run \in RunIds, id \in MaterializationIds, attempt \in Attempts :
            CreateLaunchRunIntent(f, run, id, attempt)
       \/ \E run \in RunIds, id \in IntentIds :
            \/ AppendLaunchTerminalIntent(f, run, id)
            \/ SettleLaunchEvidenceIntent(f, run, id)

-----------------------------------------------------------------------------
(***************************************************************************)
(* Properties.                                                             *)
(***************************************************************************)

\* A launch never outlives its approval: the revision a stored spec names is
\* for ever the current, approved one of an approved proposal, and no approval
\* has two specs.  StoreLaunchSpec checks this once; the proposal operations
\* must keep it.
SpecsStayApproved ==
  /\ \A s \in specs : ApprovalEligible(s, s.revision)
  /\ \A s, t \in specs :
       <<s.proposal, s.revision>> = <<t.proposal, t.revision>> => s = t

\* Whatever operations of whatever claimants preceded it, a transactional read
\* of the boundary of any launch finds exactly one claim, the newest one, and
\* rows that agree with each other: never ErrLaunchRecordCorrupt.
BoundaryNeverCorrupt ==
  \A h \in heads :
    /\ Cardinality(LoadActiveLaunchClaim(h.spec)) = 1
    /\ \A c \in LoadActiveLaunchClaim(h.spec) :
         /\ RecoveryBoundary(c).action # "corrupt"
         /\ \A other \in claims : other.spec = c.spec =>
              other.fence.generation <= c.fence.generation

\* The rows bound to fence f, over all tables.
RowsOf(f) ==
  <<{o \in outbox : o.fence = f}, {m \in materializations : m.fence = f},
    {r \in runIntents : r.fence = f}, {i \in intents : i.fence = f}>>

\* A claim that was reclaimed writes nothing more: the rows of a fence change
\* only while it is the active one, and a fence that stopped being active is
\* never active again.
StaleFencesFrozen ==
  [][\A c \in claims : ~Active(c) =>
       ~Active(c)' /\ RowsOf(c.fence)' = RowsOf(c.fence)]_launchVars
=============================================================================
