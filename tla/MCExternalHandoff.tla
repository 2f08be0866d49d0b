--------------------------- MODULE MCExternalHandoff ---------------------------
EXTENDS ExternalHandoff, TLC

Symmetry ==
  Permutations(ProposalIds) \cup Permutations(Seals) \cup
  Permutations(ClaimIds) \cup Permutations(Tokens) \cup
  Permutations(MaterializationIds) \cup Permutations(RunIds) \cup
  Permutations(HandoffIds) \cup Permutations(HandoffKeys) \cup
  Permutations(RecordIds)
=============================================================================
