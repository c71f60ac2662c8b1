SPECIFICATION ClientSpec
CONSTANTS
  None = None
  U32Max = 15
  FpMask = 7
  LruMask = 0
  TtlMask = 0
  CounterMask = 0
  LruStartingValue = 1
  LruIncrement = 1
  LruRemoveOnZero = FALSE
  LruHalving = TRUE
  LruDecrement = 1
  TtlDefault = 1
  ChangeOnInsert = 1
  ChangeOnLookup = 1
  BucketSize = 2
  Threads = {t1}
  Keys = {"a", "a2", "b", "c", "d", "e"}
  KeyHash <- KeyHashes
  FpHash <- FpHashes
  IndexBits = 1
  MaxKicks = 2
  UsizeMax = 7
  Apis = {"insert_if_not_present", "get_associated_data", "remove"}
  InsertArgs <- DefaultInsert
  LookupArgs <- DefaultLookup
  Partitions <- WholeFilter
  Own <- AllOwn
INVARIANTS CountExact NoDuplicates RemovedIsGone StoredUnlessReported
PROPERTIES MissMeansAbsent
