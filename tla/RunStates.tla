----------------------------- MODULE RunStates -----------------------------
(***************************************************************************)
(* The states of a run and the adjacency table of the cleanup state        *)
(* machine (internal/store/state.go, ADR-0003 section 1).                  *)
(***************************************************************************)

\* The states a run may still leave, and the three it may not.
ActiveStates == {"created", "running", "cancelling", "cleanup_required",
                 "recovery_unknown"}
TerminalStates == {"completed", "failed", "cancelled"}
States == ActiveStates \cup TerminalStates

IsTerminal(s) == s \in TerminalStates

\* The edges of allowedTransitions.  No state has an edge to itself, no
\* terminal state has an edge at all, and `created' has no terminal edge.
allowedTransitions ==
  [s \in ActiveStates |->
     CASE s = "created"          -> {"running", "cleanup_required", "recovery_unknown"}
       [] s = "running"          -> {"cancelling", "cleanup_required", "recovery_unknown"}
                                      \cup TerminalStates
       [] s = "cancelling"       -> {"cancelled", "recovery_unknown",
                                     "cleanup_required", "running"}
       [] s = "cleanup_required" -> {"failed", "cancelled", "recovery_unknown"}
       [] s = "recovery_unknown" -> {"running", "cleanup_required", "cancelling"}
                                      \cup TerminalStates]

CanTransition(from, to) ==
  /\ from # to
  /\ from \in ActiveStates
  /\ to \in allowedTransitions[from]
=============================================================================
