SPECIFICATION Spec
CONSTANTS
  A = a
  B = b
  Nodes = {a, b}
  Threads = {t1}
  Clients = {c1, c2}
  Traces = {r1}
  Keys = {}
  Links <- Chain
  GoalNodes = {}
  UntypedNodes = {b}
  Ops = {"emit", "pause", "resume", "delete"}
  MaxRequests = 5
  MaxDepth = 1
  HistoryLimit = 2
  MidTurnLimit = 1
  NoItem = NoItem
  NoNode = NoNode
SYMMETRY Symmetry
INVARIANTS HeldOnlyWhilePaused QueueClosedByDeletion
PROPERTIES StartsOnce OutputsArrive
CHECK_DEADLOCK FALSE
