SPECIFICATION FairSpec

CONSTANTS
  BlockMod = 6
  BlockSize = 2
  WindowSize = 1
  FullBlocks = 2
  TailBytes = 1
  RetryMax = 2
  ByteLimit = 0
  NoFileWriteOnServer = FALSE
  INT_MAX = 1000
  ClientErrors = {0, 255}

INVARIANT DeliveredPrefix
INVARIANT CompletionSound
PROPERTY DownloadIsFileTransfer
PROPERTY DownloadEnds

\* A session ends.
CHECK_DEADLOCK FALSE
