SPECIFICATION Spec
CONSTANTS
  Key = {1, 2, 3, 4, 5}
  Val = {v1, v2}
  NoKey = NoKey
  NoVal = NoVal
  N = 2
  Hash <- KeyHash
INVARIANTS
  BucketsSorted
  CountsExact
PROPERTY
  ImplementsKVStore
