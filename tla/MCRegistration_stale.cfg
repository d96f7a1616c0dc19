CONSTANTS
  A = A
  B = B
  X = X
  P = P
  a1 = a1
  a2 = a2
  b1 = b1
  x1 = x1
  p1 = p1
  NoConn = NoConn
  NoSlot = NoSlot
  N = 2
  M = 1
  SourceInstances = {A, B}
  BrokerInstances = {P}
  Conns = {a1, a2, b1, p1}
  Reliable = {}
  PromptLoop = FALSE
  InstanceOf <- MCInstanceOf
SPECIFICATION Spec
INVARIANTS StartOnlyWhenReady
CHECK_DEADLOCK FALSE
