CONSTANTS
  a = a
  b = b
  c = c
  Object = {a, b, c}
  None = None
  Chunks <- MCChunks
  Bodies <- MCBodies
  Deltas <- MCDeltas
  Radix = 4
  MaxObject = 130
  MaxSafe = 20000
  LengthBytes = 1
  ByteBits = 3
  HeaderBytes = 1
  OidBytes = 1
  TrailerBytes = 2
  BatchCount = 3
  BatchBytes = 4
  RecentCount = 1
  MaxStarts = 2
  MaxFaults = 3
  MaxEvictions = 1
SPECIFICATION Spec
CONSTRAINT OthersMeetFewer
CHECK_DEADLOCK FALSE
INVARIANTS
  TypeOK
  CompleteIsWhole
  ChunksAccounted
  EntryExact
  StreamExact
  VerdictExact
  PackWhole
  MemoryBounded
