----------------------------- MODULE RunContract ----------------------------
(***************************************************************************)
(* What the supervisor and the daemon together promise of one run, without *)
(* saying how (ADR-0002, ADR-0003): a run gets a result only when its      *)
(* process group has ended for good and its transcript is frozen and fully *)
(* accounted for; an accepted cancellation excludes success; and the       *)
(* obligation to finalize is discharged exactly once, after the result.    *)
(***************************************************************************)
EXTENDS Naturals

VARIABLES phase,           \* unknown, active, finished, discharged
          group,           \* never, live, ended
          frozen,          \* the size of the transcript is final
          accounted,       \* every byte of the frozen transcript is consumed
          cancel,          \* cancellation has been accepted
          result           \* none, completed, failed, cancelled

contractVars == <<phase, group, frozen, accounted, cancel, result>>

Init ==
  /\ phase = "unknown"
  /\ group = "never"
  /\ frozen = FALSE
  /\ accounted = FALSE
  /\ cancel = FALSE
  /\ result = "none"

Accept ==
  /\ phase = "unknown"
  /\ phase' = "active"
  /\ UNCHANGED <<group, frozen, accounted, cancel, result>>

StartGroup ==
  /\ phase = "active" /\ group = "never" /\ ~frozen
  /\ group' = "live"
  /\ UNCHANGED <<phase, frozen, accounted, cancel, result>>

EndGroup ==
  /\ group = "live"
  /\ group' = "ended"
  /\ UNCHANGED <<phase, frozen, accounted, cancel, result>>

\* An empty transcript is accounted for as soon as it is frozen.
Freeze ==
  /\ phase = "active" /\ group = "ended" /\ ~frozen
  /\ frozen' = TRUE
  /\ accounted' \in BOOLEAN
  /\ UNCHANGED <<phase, group, cancel, result>>

Account ==
  /\ frozen /\ ~accounted
  /\ accounted' = TRUE
  /\ UNCHANGED <<phase, group, frozen, cancel, result>>

Cancel ==
  /\ phase = "active" /\ ~cancel
  /\ cancel' = TRUE
  /\ UNCHANGED <<phase, group, frozen, accounted, result>>

Finish ==
  /\ phase = "active" /\ group = "ended" /\ frozen /\ accounted
  /\ result' \in {"completed", "failed", "cancelled"}
  /\ result' = "completed" => ~cancel
  /\ phase' = "finished"
  /\ UNCHANGED <<group, frozen, accounted, cancel>>

\* No process was ever started: the run fails and nothing is left to discharge.
FinishWithoutProcess ==
  /\ phase = "active" /\ group = "never"
  /\ result' = "failed"
  /\ phase' = "discharged"
  /\ frozen' = TRUE /\ accounted' = TRUE
  /\ UNCHANGED <<group, cancel>>

Discharge ==
  /\ phase = "finished"
  /\ phase' = "discharged"
  /\ UNCHANGED <<group, frozen, accounted, cancel, result>>

Next ==
  \/ Accept \/ StartGroup \/ EndGroup \/ Freeze \/ Account \/ Cancel
  \/ Finish \/ FinishWithoutProcess \/ Discharge

Spec == Init /\ [][Next]_contractVars
=============================================================================
