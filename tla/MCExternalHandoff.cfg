SPECIFICATION ExternalHandoffSpec
CONSTANTS
  p1 = p1
  k1 = k1
  i1 = i1
  s1 = s1
  s2 = s2
  c1 = c1
  c2 = c2
  t1 = t1
  m1 = m1
  m2 = m2
  r1 = r1
  r2 = r2
  n1 = n1
  h1 = h1
  h2 = h2
  x1 = x1
  x2 = x2
  y1 = y1
  y2 = y2
  ProposalIds = {p1}
  Keys = {k1}
  Inputs = {i1}
  MaxRevisions = 2
  Seals = {s1, s2}
  ClaimIds = {c1, c2}
  Tokens = {t1}
  Attempts = {1, 2}
  MaterializationIds = {m1, m2}
  RunIds = {r1, r2}
  IntentIds = {n1}
  MaxGenerations = 2
  HandoffIds = {h1, h2}
  HandoffKeys = {x1, x2}
  RecordIds = {y1, y2}
  AttemptCap = 1
SYMMETRY Symmetry
INVARIANTS
  SpecsStayApproved
  HandoffChain
PROPERTY LateHandoffsFrozen
