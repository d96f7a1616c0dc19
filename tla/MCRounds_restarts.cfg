CONSTANTS
  s1 = s1
  s2 = s2
  b1 = b1
  s1a = s1a
  s1b = s1b
  s2a = s2a
  b1a = b1a
  b1b = b1b
  NoConn = NoConn
  Sources = {s1}
  Brokers = {b1}
  Conns = {s1a, s1b, b1a, b1b}
  Buffer = 1
  MaxRounds = 2
  MaxProcesses = 3
  Row <- MCRow
  Price <- MCPrice
  Load <- MCLoad
  BrokerLoad <- MCBrokerLoad
  BrokerPrice <- MCBrokerPrice
  BestResponse <- MCBestResponse
  CommonStep <- MCCommonStep
  InitialPlan <- MCInitialPlan
  InitialPrices <- MCInitialPrices
  Owner <- MCOwner
  FirstConn <- MCFirstConn
SPECIFICATION Spec
INVARIANTS TypeOK FreshReplies SourcesFollowPlan LiveWorkersReachable TelemetryReplays
PROPERTIES RoundsAreIterations
CHECK_DEADLOCK FALSE
