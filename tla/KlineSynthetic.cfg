CONSTANTS
  HostBytes <- NoData
  LineBytes <- OneData
  Codings <- OneCoding
  Supported <- MCSupported
  Default <- Startup
  FifoSize = 1
  UartDepth = 2
  UsbDepth = 1
  MaxBreak = 1
SPECIFICATION Spec
INVARIANTS NoSyntheticByte
