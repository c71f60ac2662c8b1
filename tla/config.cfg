SPECIFICATION Spec
CONSTANTS
  None = None
  Byte = Byte
  UsizeMax = 255
  U32Max = 255
  FilterOverhead = 4
  BucketOverhead = 1
  Builders <- AllBuilders
  OwnBuilders <- OtherBuilders
  HasherNames = {name, other}
  Versions = {1000, 2001, 2004}
CHECK_DEADLOCK FALSE
INVARIANTS TypeOK RoundTrip CutRefused CompatibleReadsFields CapacitySuffices BucketsMatchMask
