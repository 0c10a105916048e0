SPECIFICATION Spec

CONSTANTS
  Proposals <- MCProposals
  MaxAnswers = 2
  OackHolds = 1
  AllowTSizeOption = TRUE
  FileSize = 9000
  ClientTimeoutSecMin = 1
  ClientTimeoutSecMax = 2
  WindowSizeMin = 2
  WindowSizeMax = 3
  TickMod = 12
  Second = 2
  RetryMax = 2

INVARIANT ClockTypeOK
INVARIANT TermsAgreed
INVARIANT BufferFits
INVARIANT ResendNotLate
INVARIANT UploadDisconnects
PROPERTY ResendNotEarly

\* A session ends.
CHECK_DEADLOCK FALSE
