CONSTANTS
  Blocks = 2
  Buffers = 2
  Messages = 2
  MaxFaults = 3
SPECIFICATION FlashSpec
INVARIANTS ReportIsTrue AckMeansDone
PROPERTIES Recoverable
