SPECIFICATION FairSpec
CONSTANTS
  Nodes = {a}
  Traces <- MCTraces
  Roles = {dev}
  User = user
  BatchLimit = 1
  MaxEvents = 2
  MaxCommands = 1
  MaxFailures = 0
  MaxDepth = 0
  HistoryLimit = 1
  MidTurnLimit = 1
  NoItem = NoItem
CHECK_DEADLOCK FALSE
PROPERTY AlwaysSettles
