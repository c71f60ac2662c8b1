SPECIFICATION Spec
CONSTANTS
  None = None
  U32Max = 15
  FpMask = 3
  LruMask = 1
  TtlMask = 3
  CounterMask = 1
  LruStartingValue = 1
  LruIncrement = 1
  LruRemoveOnZero = TRUE
  LruHalving = FALSE
  LruDecrement = 1
  TtlDefault = 2
  ChangeOnInsert = 1
  ChangeOnLookup = 1
  BucketSize = 1
  Threads = {t1, t2}
  Keys = {"b","c"}
  KeyHash <- KeyHashes
  FpHash <- FpHashes
  IndexBits = 1
  MaxKicks = 3
  UsizeMax = 2
  Apis = {"insert", "contains", "remove", "get_item_count", "scan_full", "scan_lru"}
  InsertArgs <- DefaultInsert
  LookupArgs <- TtlLookup
  Partitions <- WholeFilter
SYMMETRY ThreadSymmetry
INVARIANTS TtlStaysPositive LruChainBounded NewItemKicks
PROPERTIES CountDrift NoSilentLoss ImplementsSet

