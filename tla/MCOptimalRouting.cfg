CONSTANTS
  s1 = s1
  s2 = s2
  b1 = b1
  b2 = b2
  Sources = {s1, s2}
  Brokers = {b1, b2}
  Scale = 840
  GeneratedTopologies <- MCTopologies
  Sizes = {"medium", "large"}
SPECIFICATION RoutingSpec
INVARIANTS ContinuationProceeds
CHECK_DEADLOCK FALSE
