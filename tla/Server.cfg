CONSTANTS
  Jobs = {j1, j2}
  Timers = {"handshake", "ping", "sample"}
  Repeating = {"ping", "sample"}
  Delay <- MCDelay
  BufferMax = 4
  PacketSize = 2
  RetryMax = 2
  Sizes = {1, 3, 5}
  MaxWritten = 12
  Clients <- MCClients
  ReadSize = 8
  MaxData = 6
  AnswerSizes = {0, 125, 126, 32767, 32768, 32769, 65534, 65535, 65536, 98302, 98303, 98304}
  MaxVersion = 2
  MaxEvents = 3
  MaxErrors = 2
SPECIFICATION Spec
INVARIANTS
  NextFireIsEarliest
  JobsInOrder
  WatchedWhilePending
  NothingLost
  PlainClosedAfterFlush
  OversizeHangsUp
  AnswerIsReadable
PROPERTIES
  DueTimersFire
  PendingIsFlushed
  ParserImplementsStream
  SubscribesAgain
  ReloadTakesEffect
  
  
CHECK_DEADLOCK FALSE
