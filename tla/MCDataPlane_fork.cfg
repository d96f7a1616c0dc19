CONSTANTS
  s1 = s1
  s2 = s2
  b1 = b1
  b2 = b2
  Sources = {s1}
  Brokers = {b1, b2}
  Links <- Fork
  Mortal = {b2}
  MaxSamples = 2
  MaxUnits = 4
  MaxRounds = 0
SPECIFICATION FairSpec
PROPERTIES IsTandem AllServed
CHECK_DEADLOCK FALSE
