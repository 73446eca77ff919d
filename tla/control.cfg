SPECIFICATION Spec
CONSTANTS
  A = a
  B = b
  Nodes = {a}
  Threads = {t1, t2}
  Clients = {c1, c2}
  Traces = {r1, r2}
  Keys = {}
  Links <- NoLinks
  GoalNodes = {a}
  UntypedNodes = {}
  Ops = {"emit", "pop", "pause", "set_working", "resume", "stop", "status", "fault"}
  MaxRequests = 3
  MaxDepth = 1
  HistoryLimit = 2
  MidTurnLimit = 1
  NoItem = NoItem
  NoNode = NoNode
SYMMETRY Symmetry
INVARIANTS ExclusiveExecutor RunningItemIsInflight
PROPERTIES StartsOnce
CHECK_DEADLOCK FALSE
