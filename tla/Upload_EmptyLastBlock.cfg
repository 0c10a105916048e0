SPECIFICATION Spec

CONSTANTS
  BlockMod = 5
  BlockSize = 2
  WindowSize = 1
  FullBlocks = 2
  TailBytes = 0
  RetryMax = 2
  ByteLimit = 0
  NoFileWriteOnServer = FALSE
  INT_MAX = 1000

PROPERTY LastBlockAcked

\* A session ends.
CHECK_DEADLOCK FALSE
