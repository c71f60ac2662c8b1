SPECIFICATION ClientSpec
CONSTANTS
  None = None
  U32Max = 15
  FpMask = 3
  LruMask = 0
  TtlMask = 0
  CounterMask = 0
  LruStartingValue = 1
  LruIncrement = 1
  LruRemoveOnZero = FALSE
  LruHalving = TRUE
  LruDecrement = 1
  TtlDefault = 1
  ChangeOnInsert = 1
  ChangeOnLookup = 1
  BucketSize = 2
  Threads = {t1}
  Keys = {"a", "b", "c"}
  KeyHash <- KeyHashes
  FpHash <- FpHashes
  IndexBits = 1
  MaxKicks = 2
  UsizeMax = 7
  Apis = {"insert", "contains", "remove"}
  InsertArgs <- DefaultInsert
  LookupArgs <- DefaultLookup
  Partitions <- WholeFilter
  Own <- AllOwn
INVARIANT RemovedIsGone
