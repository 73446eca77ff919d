SPECIFICATION FairSpec
CONSTANTS
  Nodes = {a, b}
  MaxJobs = 2
  MaxCaptures = 2
  MaxLives = 2
INVARIANTS TagHasState CapturedKept
PROPERTY CapturedRuns
CHECK_DEADLOCK FALSE
