SPECIFICATION SessionFairSpec

CONSTANTS
  BlockMod = 5
  BlockSize = 2
  WindowSize = 1
  FullBlocks = 2
  TailBytes = 1
  RetryMax = 2
  ByteLimit = 0
  NoFileWriteOnServer = FALSE
  INT_MAX = 1000

INVARIANT TypeOK
INVARIANT ReadWindowInFile
INVARIANT DataFaithful
INVARIANT AckedBlocksWritten
INVARIANT OneBlockInv
PROPERTY WindowNeverMovesBack
PROPERTY SilentUploadEnds

\* A session ends.
CHECK_DEADLOCK FALSE
