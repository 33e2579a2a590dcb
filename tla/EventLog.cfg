CONSTANTS
  Messages = {m1, m2}
  TopicNames = {t1, t2}
  Timestamps = {1}
  TTLs = {1}
  IdLife = 1
  Sinces = {2}
  SinceLimits = {1, 2}
  IdLimits = {2}
  FirstSeq = 9
  EnableCache = TRUE
  MaxNow = 3
SPECIFICATION CacheSpec
SYMMETRY Symmetry
INVARIANTS
  
  ReadSound
  ReadComplete
  
CHECK_DEADLOCK FALSE
