SPECIFICATION ScanSpec
CONSTANTS
  None = None
  U32Max = 15
  FpMask = 7
  LruMask = 0
  TtlMask = 3
  CounterMask = 0
  LruStartingValue = 1
  LruIncrement = 1
  LruRemoveOnZero = FALSE
  LruHalving = TRUE
  LruDecrement = 1
  TtlDefault = 2
  ChangeOnInsert = 1
  ChangeOnLookup = 1
  BucketSize = 1
  Threads = {t1, s1, s2}
  Keys = {"c", "d", "f"}
  KeyHash <- KeyHashes
  FpHash <- FpHashes
  IndexBits = 2
  MaxKicks = 1
  UsizeMax = 2
  Apis = {"insert_if_not_present", "remove", "scan_ttl"}
  InsertArgs <- TtlInsert
  LookupArgs <- DefaultLookup
  Partitions <- NoPartitions
  Scanners = {s1, s2}
  Total = 3
INVARIANT AgedOnce
