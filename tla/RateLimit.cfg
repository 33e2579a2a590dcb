CONSTANTS
  Publishers = {p1, p2}
  LimitMax = 2
  LimitInterval = 2
SPECIFICATION RateSpec
PROPERTIES
  LimitEnds
