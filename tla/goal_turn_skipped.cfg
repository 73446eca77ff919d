SPECIFICATION Spec
CONSTANTS
  A = a
  B = b
  Nodes = {a}
  Threads = {t1}
  Clients = {c1}
  Traces = {r1}
  Keys = {}
  Links <- NoLinks
  GoalNodes = {a}
  UntypedNodes = {}
  Ops = {"emit"}
  MaxRequests = 1
  MaxDepth = 1
  HistoryLimit = 2
  MidTurnLimit = 1
  NoItem = NoItem
  NoNode = NoNode
SYMMETRY Symmetry
INVARIANTS InflightOwned
CHECK_DEADLOCK FALSE
