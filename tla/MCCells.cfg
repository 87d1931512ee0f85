SPECIFICATION MCSpec
CONSTANTS
  Trees <- MCTrees
  MaxHeight = 3
  MaxScopes = 1
  States <- MCStates
  Sides <- MCSides
  WireData <- MCWireData
  WireMasks <- MCWireMasks
  WireRefs = 2
  MaxCells = 3
  BASE = 4
  BYTE_BITS = 3
  U64_BYTES = 4
  MAX_CELLS = 6
  MAX_DEPTH = 3
  MAX_DECOMPRESSED = 30
  MAX_REF_SIZE = 2
  MAX_OFFSET_SIZE = 3
  RootLists <- MCRootLists
  Layers = 4
  CHUNK_TARGET = 8
  Ceilings = {0, 2, 4, 6, 9}
INVARIANTS
  OneIdentityOneCell
  PruneKeepsTheRoot
  ProofShowsWhatWasRead
  UpdateRebuilds
  UpdatesCompose
  ChunksAreTheBag
  WrittenReadsBack
  NoSlack
CHECK_DEADLOCK FALSE
