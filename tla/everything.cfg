SPECIFICATION Spec
CONSTANTS
  A = a
  B = b
  Nodes = {a, b}
  Threads = {t1, t2, t3}
  Clients = {c1}
  Traces = {r1, k1}
  Keys = {k1}
  Links <- Chain
  GoalNodes = {a}
  UntypedNodes = {b}
  Ops = {"emit", "enqueue", "pop", "pause", "set_working", "resume", "stop", "delete", "edit", "stop_runner", "restart", "status", "fault"}
  MaxRequests = 2
  MaxDepth = 1
  HistoryLimit = 2
  MidTurnLimit = 1
  NoItem = NoItem
  NoNode = NoNode
SYMMETRY Symmetry
INVARIANTS TypeOK OneTaskPerNode
CHECK_DEADLOCK FALSE
