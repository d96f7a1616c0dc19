CONSTANTS
  Width <- MCWidth
  MaxRows = 2
  Attentive = TRUE
  MaxRuns = 3
  MaxRecords = 3
  Tabs = {1, 2}
  OneAtATime = TRUE
  Ups = {1, 2}
  Commands <- MCCommands
  Patient = TRUE
SPECIFICATION MCFairSpec
INVARIANTS MCTypeOK RowsAreOfTheFile OneSimulation NamesNotStale OwnEmulator
PROPERTIES CatchesUp NothingOutlivesUp
CHECK_DEADLOCK FALSE
