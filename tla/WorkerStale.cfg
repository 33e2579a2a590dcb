CONSTANTS
  Jobs = {}
  Conns = {c1}
  Acceptors = {a1}
  Publishers = {p1}
  Self = self
  NoConn = NoConn
  NoThread = NoThread
  HandshakeTimeout = 2
  PingInterval = 1
  SampleRate = 1
  Timers <- MCTimers
  Repeating <- MCRepeating
  Delay <- MCDelay
SPECIFICATION FairSpec
PROPERTIES
  HandshakeTimesOut
