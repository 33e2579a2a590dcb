CONSTANTS
  Conns = {c1, c2}
  Filters = {"a"}
  Names = {n}
  Matched <- MCMatched
  Objects = {o1, o2, o3}
  Nil = Nil
SPECIFICATION FairTopicsSpec
PROPERTY PublishEnds
CHECK_DEADLOCK FALSE
