SPECIFICATION MCSpec
CONSTANTS
  MAX_BITS = 10
  MAX_REFS = 2
  BYTE = 2
  HALF = 5
  WORD = 6
  LONG = 8
  ACCOUNT = 1
  OCTET = 4
  SEXTET = 3
  POLY = 7
  ID = 2
  HASH = 2
  VAR_LEN = 2
  ANYCAST = 2
  PFX_LEN = 3
  MAX_SHARD_PREFIX_BITS = 4
  MAX_SPLIT_DEPTH = 2
  MaxCut = 80
  AccountRecords <- MCAccountRecords
  HeaderRecords <- MCHeaderRecords
  ExtraRecords <- MCExtraRecords
  EntryRecords <- MCEntryRecords
  ShardRecords <- MCShardRecords
  MaxFields = 3
  Fields <- MCFields
  Probes <- MCProbes
  Foreign <- MCForeign
  Texts <- MCTexts
  Values <- MCValues
  Accounts <- MCAccounts
INVARIANTS ReadsBack StoredIsTheShortest RefusalLeavesNothing
  OneTextOneValue AddressIsCaught DecodesAsWritten
CHECK_DEADLOCK FALSE
