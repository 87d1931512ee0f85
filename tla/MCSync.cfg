CONSTANTS
  NoBlock = NoBlock
  Ids <- MCIds
  Header <- MCHeader
  Signed <- MCSigned
  Committed <- MCCommitted
  Links <- MCLinks
  InitBlock <- MCInitBlock
  HALF = 5
  MAX_LINKS_PER_REPLY = 2
  MAX_LINKS_PER_SYNC = 3
  MAX_ROUNDS = 2
  MAX_CLOCK_SKEW = 1
  CALL_TIMEOUT = 1
  PROOF_TIMEOUT = 2
  max_head_age = 2
  Clocks = {3}
SPECIFICATION FairSpec
INVARIANTS
  TrustsOnlyCommitted
  AnchorVouchesForHead
  WalkEndsInTime
PROPERTIES
  ImplementsAnchor
  SyncReturns
