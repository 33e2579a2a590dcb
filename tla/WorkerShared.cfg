CONSTANTS
  Jobs = {j1}
  Conns = {c1}
  Acceptors = {a1}
  Publishers = {p1}
  Self = self
  NoConn = NoConn
  NoThread = NoThread
  HandshakeTimeout = 1
  PingInterval = 1
  SampleRate = 1
  Timers <- MCTimers
  Repeating <- MCRepeating
  Delay <- MCDelay
SPECIFICATION FairSpec
INVARIANTS
  ClientsHaveTimers
  NoLostWakeup
  CountIsListLength
PROPERTIES
  LoopSpec
  ShutIsRemoved
