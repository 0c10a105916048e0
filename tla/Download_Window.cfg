SPECIFICATION Spec

CONSTANTS
  BlockMod = 7
  BlockSize = 2
  WindowSize = 2
  FullBlocks = 3
  TailBytes = 0
  RetryMax = 2
  ByteLimit = 15
  NoFileWriteOnServer = FALSE
  INT_MAX = 1000
  ClientErrors = {}

INVARIANT DownloadInv
INVARIANT WindowWaitsForClient
PROPERTY DownloadIsFileTransfer

\* A session ends.
CHECK_DEADLOCK FALSE
