SPECIFICATION Spec

CONSTANTS
  BlockMod = 5
  BlockSize = 2
  WindowSize = 1
  FullBlocks = 2
  TailBytes = 1
  RetryMax = 3
  ByteLimit = 0
  NoFileWriteOnServer = FALSE
  INT_MAX = 1000

INVARIANT UploadTypeOK
INVARIANT StoredPrefix
INVARIANT AckedBlocksStored
INVARIANT UploadCompletionSound
INVARIANT ClientSuccessSound
PROPERTY UploadIsFileTransfer
PROPERTY LastBlockAcked

\* A session ends.
CHECK_DEADLOCK FALSE
