SPECIFICATION Spec
CONSTANTS
  I32 <- MCI32
  F64 <- MCF64
  F64Eq <- MCF64Eq
  Hash <- MCHash
  Stored <- MCStored
  INITIAL_CAP = 1
  LOAD_FACTOR = 60
  MaxObjects = 3
  MaxTables = 1
  MaxEntries = 3
INVARIANTS TypeOK BucketsSound NoDuplicateKeys LoadBounded
PROPERTY ImplementsMap
