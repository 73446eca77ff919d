SPECIFICATION FairSpec
CONSTANTS
  target = target
  config = config
  cleanup1 = cleanup1
  mark1 = mark1
  write1 = write1
  cleanup2 = cleanup2
  update3 = update3
  write3 = write3
  Threads = {t1, t2, t3}
  Tasks = {cleanup1, mark1, write1, cleanup2, update3, write3}
  Keys = {target, config}
  Key <- NestedKey
  Parent <- NestedParent
  NoTask = NoTask
INVARIANT MutualExclusion
PROPERTIES SerialTransactions EveryCallReturns
CHECK_DEADLOCK FALSE
