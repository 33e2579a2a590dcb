CONSTANTS
  BufferMax = 4
  PacketSize = 2
  RetryMax = 2
  Sizes = {1, 3, 5}
  MaxWritten = 12
SPECIFICATION ConnSpec
INVARIANT ClosedAfterFlush
CHECK_DEADLOCK FALSE
