SPECIFICATION MCSpec
CONSTANTS
  Nil = Nil
  Block <- MCBlock
  State <- MCState
  Account <- MCAccount
  Trusted <- MCTrusted
  Workchains <- MCWorkchains
  MASTERCHAIN <- MCMasterchain
  AccountIds <- MCAccountIds
  Bags <- MCBags
  StateBytes <- MCStateBytes
  MAX_SPLIT_DEPTH = 2
  NoBlock = NoBlock
  Nobody = Nobody
  Callers = {a, b}
  Ids <- MCIds
  Committed <- MCCommitted
  CommittedKeys <- MCCommittedKeys
  Vouches <- MCVouches
  InitBlock <- MCInitBlock
  Args <- MCArgs
INVARIANTS ProvedIsTrue WholeAnswerIsAccepted AccountRestsOnAnchor AnchorsNeverGoBack
PROPERTIES LostAnswersNobody EveryCallReturns
