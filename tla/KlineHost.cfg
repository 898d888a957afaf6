CONSTANTS
  HostBytes <- Data2
  LineBytes <- NoData
  Codings <- MCCodings
  Supported <- MCSupported
  Default <- Startup
  FifoSize = 2
  UartDepth = 2
  UsbDepth = 1
  MaxBreak = 1
SPECIFICATION FairSpec
INVARIANTS CodingFence BreakNeedsHost
PROPERTIES HostStream FiniteBreakEnds CodingApplied
