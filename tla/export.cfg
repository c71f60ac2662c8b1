SPECIFICATION FairExportSpec
CONSTANTS
  None = None
  U32Max = 15
  FpMask = 3
  LruMask = 0
  TtlMask = 1
  CounterMask = 0
  LruStartingValue = 1
  LruIncrement = 1
  LruRemoveOnZero = FALSE
  LruHalving = TRUE
  LruDecrement = 1
  TtlDefault = 1
  ChangeOnInsert = 1
  ChangeOnLookup = 1
  BucketSize = 1
  Threads = {t1}
  Keys = {"b", "c"}
  KeyHash <- KeyHashes
  FpHash <- FpHashes
  IndexBits = 1
  MaxKicks = 1
  UsizeMax = 7
  Apis = {"insert", "insert_if_not_present", "contains", "remove", "scan_full", "scan_lru"}
  InsertArgs <- DefaultInsert
  LookupArgs <- DefaultLookup
  Partitions <- WholeFilter
INVARIANTS ExportTypeOK RestoredFindable SnapshotCombinesStates
PROPERTIES CountDriftRestored EveryCallEnds
