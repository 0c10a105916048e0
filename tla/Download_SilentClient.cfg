SPECIFICATION TimeoutSpec

CONSTANTS
  BlockMod = 5
  BlockSize = 2
  WindowSize = 1
  FullBlocks = 2
  TailBytes = 1
  RetryMax = 3
  ByteLimit = 0
  NoFileWriteOnServer = FALSE
  INT_MAX = 1000
  ClientErrors = {}

PROPERTY SilentDownloadEnds

\* A session ends.
CHECK_DEADLOCK FALSE
