SPECIFICATION ReadersSpec
CONSTANTS
  N = 4
  Bags <- MCBags
  Cores = {1, 2, 3}
  CELLS_PER_WORKER = 1
  MAX_DEPTH = 2
  MAX_GENERATION = 2
  RootLists <- MCRootLists
  Requests <- MCRequests
INVARIANTS ReportsTheCause KeptWithItsSubtree AnswersAsIfFirst
CHECK_DEADLOCK FALSE
