SPECIFICATION SessionSpec

CONSTANTS
  BlockMod = 10
  BlockSize = 3
  WindowSize = 2
  FullBlocks = 8
  TailBytes = 0
  RetryMax = 2
  ByteLimit = 23
  NoFileWriteOnServer = FALSE
  INT_MAX = 23

INVARIANT SessionInv
INVARIANT StoredWithinLimit
INVARIANT OffsetWithinLimit
INVARIANT BlocksInPlace

\* A session ends.
CHECK_DEADLOCK FALSE
