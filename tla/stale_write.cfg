SPECIFICATION Spec
CONSTANTS
  A = a
  B = b
  Nodes = {a}
  Threads = {t1}
  Clients = {c1}
  Traces = {r1, r2}
  Keys = {}
  Links <- NoLinks
  GoalNodes = {}
  UntypedNodes = {}
  Ops = {"emit"}
  MaxRequests = 2
  MaxDepth = 1
  HistoryLimit = 2
  MidTurnLimit = 1
  NoItem = NoItem
  NoNode = NoNode
SYMMETRY Symmetry
INVARIANTS AcceptedKept
CHECK_DEADLOCK FALSE
