SPECIFICATION BoundedSpec
CONSTANTS
  MaxRequests = 4
  p1 = p1
  p2 = p2
  k1 = k1
  k2 = k2
  i1 = i1
  s1 = s1
  c1 = c1
  c2 = c2
  t1 = t1
  m1 = m1
  m2 = m2
  r1 = r1
  n1 = n1
  ProposalIds = {p1, p2}
  Keys = {k1, k2}
  Inputs = {i1}
  MaxRevisions = 1
  Seals = {s1}
  ClaimIds = {c1, c2}
  Tokens = {t1}
  Attempts = {1}
  MaterializationIds = {m1, m2}
  RunIds = {r1}
  IntentIds = {n1}
  MaxGenerations = 2
SYMMETRY Symmetry
INVARIANTS
  BoundaryNeverCorrupt
  ObligationWasReal
  StaleMeansReclaimed
PROPERTY StaleFencesFrozen
