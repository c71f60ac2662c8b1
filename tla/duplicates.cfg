SPECIFICATION Spec
CONSTANTS
  None = None
  U32Max = 15
  FpMask = 3
  LruMask = 0
  TtlMask = 0
  CounterMask = 0
  LruStartingValue = 1
  LruIncrement = 1
  LruRemoveOnZero = FALSE
  LruHalving = TRUE
  LruDecrement = 1
  TtlDefault = 1
  ChangeOnInsert = 1
  ChangeOnLookup = 1
  BucketSize = 1
  Threads = {t1, t2}
  Keys = {"a", "b", "c"}
  KeyHash <- KeyHashes
  FpHash <- FpHashes
  IndexBits = 1
  MaxKicks = 2
  UsizeMax = 7
  Apis = {"insert_if_not_present"}
  InsertArgs <- DefaultInsert
  LookupArgs <- DefaultLookup
  Partitions <- WholeFilter
SYMMETRY ThreadSymmetry
INVARIANTS NoDuplicates
