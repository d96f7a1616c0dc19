CONSTANTS
  s1 = s1
  s2 = s2
  s3 = s3
  b1 = b1
  b2 = b2
  Sources = {s1, s2}
  Brokers = {b1, b2}
  Missing <- MCMissing
  Idle = {s2}
  Warmup = 1
  MaxUnits = 3
  MaxTicks = 2
  Demand <- MCDemand
  Bases <- MCBases
  Varied <- MCVaried
  Margin = 2
  Etas <- MCEtas
  Iterations = 3
  Scale = 2520
  ExperimentTopologies <- MCExperimentTopologies
  MaxIter = 3
  GeneratedTopologies <- MCGeneratedTopologies
  Sizes = {"small", "medium", "large"}
  Scales = {0, 2, 3}
  Betas <- MCBetas
  Quadruple = 2
  Rounds = 4
  UserConfigs <- MCUserConfigs
  Flags <- MCFlags
  MaxCommands = 3
  TopologyConfigs <- MCConfigs
  NewCapacities <- MCNewCapacities
  Malformed = Malformed
SPECIFICATION MCFairSpec
INVARIANTS
  MCTypeOK RoutingFeasible CertifiedIsOptimal ReturnedIsOptimal
  GeneratedAsReported ParametersOfTheirMode AcceptedIsTyped
PROPERTIES IsTandem IsWindowed AllServed NoStepOverloads FollowsNotebook
CHECK_DEADLOCK FALSE
