SPECIFICATION FairSpec
CONSTANTS
  Nodes = {a}
  Jobs = {j1}
  Traces <- MCTraces
  Schedules <- MCSchedules
  UserTrace = u
  Checkpoints = FALSE
  MaxTime = 2
  MaxCommands = 2
  MaxCrashes = 1
  MaxDepth = 0
  HistoryLimit = 1
  MidTurnLimit = 1
  NoItem = NoItem
INVARIANTS CronTypeOK OneActiveRun  EditsReachPending LiveRunIsRunning BegunOncePerLife RunQueuedOnce
PROPERTIES SettledForEver RunSettles StopAnswered
CHECK_DEADLOCK FALSE
