SPECIFICATION Spec

CONSTANTS
  BlockMod = 6
  BlockSize = 2
  WindowSize = 2
  FullBlocks = 3
  TailBytes = 1
  RetryMax = 2
  ByteLimit = 0
  NoFileWriteOnServer = FALSE
  INT_MAX = 1000

INVARIANT AckedBlocksStored

\* A session ends.
CHECK_DEADLOCK FALSE
