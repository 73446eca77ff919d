SPECIFICATION Spec
CONSTANTS
  Nodes = {a, b}
  Groups = {g1, g2}
  Tasks = {t1, t2}
  NoOne = NoOne
  NoTask = NoTask
  NoGroup = NoGroup
  MaxCommands = 7
INVARIANTS BoardTypeOK IndexAgrees OwnersBelong DependenciesAcyclic DoneRestsOnDone
PROPERTY RevisionGrows
CHECK_DEADLOCK FALSE
SYMMETRY BoardSymmetry
