--------------------------- MODULE MCFencedLaunch ---------------------------
EXTENDS FencedLaunch, TLC

CONSTANT MaxRequests        \* bound on the proposal requests of a behaviour

BoundedNext == FencedLaunchNext /\ Cardinality(answered') <= MaxRequests

BoundedSpec ==
  FencedLaunchInit /\ [][BoundedNext]_<<proposalVars, launchVars, fencedVars>>

Symmetry ==
  Permutations(ProposalIds) \cup Permutations(Keys) \cup Permutations(Seals) \cup
  Permutations(ClaimIds) \cup Permutations(Tokens) \cup
  Permutations(MaterializationIds) \cup Permutations(RunIds)
=============================================================================
