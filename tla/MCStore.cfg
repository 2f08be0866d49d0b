SPECIFICATION StoreSpec
CONSTANTS
  p1 = p1
  p2 = p2
  k1 = k1
  k2 = k2
  i1 = i1
  i2 = i2
  Runs = {r1}
  Identities = {1, 2}
  Processes = {1}
  MaxOffset = 2
  MaxEvents = 2
  MaxTransitions = 4
  ProposalIds = {p1, p2}
  Keys = {k1, k2}
  Inputs = {i1, i2}
  MaxRevisions = 2
SYMMETRY Symmetry
INVARIANTS
  TypeOK
  OutboxRecordsTerminal
  CancelledNeverCompletes
  TerminalTranscriptAccounted
  JournalReplays
  ProposalsTypeOK
  ReplaysAgree
  PairsFollowProposal
  EffectsOnce
PROPERTIES
  NothingTakenBack
  HandoffNeverRewinds
  DecisionsAreFinal
