------------------------------ MODULE MCStore ------------------------------
(***************************************************************************)
(* The run tables and the proposal tables of the journal in one run.  They *)
(* share no table, so a behaviour that uses both is an interleaving of two *)
(* that use one each, and only the latter are explored.                    *)
(***************************************************************************)
EXTENDS RunStore, Proposals, TLC

VARIABLE tables             \* the half of the journal that is in use

StoreInit == Init /\ ProposalsInit /\ tables \in {"runs", "proposals"}

StoreNext ==
  \/ tables = "runs" /\ Next /\ UNCHANGED <<proposalVars, tables>>
  \/ tables = "proposals" /\ ProposalsNext /\ UNCHANGED <<rows, tables>>

StoreSpec == StoreInit /\ [][StoreNext]_<<rows, proposalVars, tables>>

Symmetry ==
  Permutations(ProposalIds) \cup Permutations(Keys) \cup Permutations(Inputs)
=============================================================================
