SPECIFICATION Spec
CONSTANTS
  PREFIX = 2
  MIN_FRAME = 1
  MAX_FRAME = 2
  MAX_FRAMES_PER_QUERY = 2
  Messages <- MCMessages
  MaxQueries = 3
  MaxServerFrames = 3
INVARIANT Synchronized
PROPERTY ImplementsSession
