CONSTANTS
  Conns = {c1, c2}
  Filters = {"a", "+"}
  Names = {n}
  Matched <- MCMatched
  Objects = {o1, o2}
  Nil = Nil
  w1 = w1
  w2 = w2
  s1 = s1
  Workers = {w1, w2}
  Subscribers = {s1}
  WorkerOf <- MCWorkerOf
  MaxMessages = 2
  MaxSessions = 2
  MaxDrops = 1
  Faults = TRUE
  Chars = {"a", "b", "/", "+", "#", "!"}
  Inputs <- MCInputs
  Publishers = {p1, p2}
  LimitMax = 2
  LimitInterval = 2
SPECIFICATION Spec
INVARIANTS
  SubscribersAgree
  ListedWhileSubscribed
  OwnPublishReachesSubscribers
  DestroyedIsForgotten
  NothingMissed
  
  MatchAgrees
  LimitIsClosest
  CountBounded
  UsedBounded
PROPERTIES
  OwnPublishEnds
  ImplementsBroadcast
  
CHECK_DEADLOCK FALSE
