CONSTANTS
  HostBytes <- NoData
  LineBytes <- Data2
  Codings <- OneCoding
  Supported <- MCSupported
  Default <- Startup
  FifoSize = 2
  UartDepth = 2
  UsbDepth = 1
  MaxBreak = 1
SPECIFICATION Spec
PROPERTIES LineStream
