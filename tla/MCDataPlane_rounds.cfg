CONSTANTS
  s1 = s1
  s2 = s2
  b1 = b1
  b2 = b2
  Sources = {s1}
  Brokers = {b1, b2}
  Links <- Fork
  Mortal = {}
  MaxSamples = 2
  MaxUnits = 2
  MaxRounds = 2
SPECIFICATION Spec
INVARIANTS TypeOK BrokersAccount CausalCounts
CHECK_DEADLOCK FALSE
