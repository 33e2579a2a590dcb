CONSTANTS
  Messages = {m1, m2}
  TopicNames = {t1, t2}
  Timestamps = {1}
  TTLs = {1}
  IdLife = 1
  Sinces = {}
  SinceLimits = {}
  IdLimits = {2}
  FirstSeq = 0
  EnableCache = TRUE
  MaxNow = 1
SPECIFICATION CacheSpec
INVARIANTS
  CatchUp
CHECK_DEADLOCK FALSE
