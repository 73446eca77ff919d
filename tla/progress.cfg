SPECIFICATION FairSpec
CONSTANTS
  A = a
  B = b
  Nodes = {a}
  Threads = {t1}
  Clients = {c1, c2}
  Traces = {r1, r2}
  Keys = {}
  Links <- NoLinks
  GoalNodes = {}
  UntypedNodes = {}
  Ops = {"emit", "pause", "resume", "fault"}
  MaxRequests = 4
  MaxDepth = 0
  HistoryLimit = 2
  MidTurnLimit = 1
  NoItem = NoItem
  NoNode = NoNode
INVARIANTS InflightOwned
PROPERTIES QueueDrains
CHECK_DEADLOCK FALSE
