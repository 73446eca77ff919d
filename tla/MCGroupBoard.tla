---------------------------- MODULE MCGroupBoard -----------------------------
EXTENDS GroupBoard, TLC

BoardSymmetry ==
  Permutations(Nodes) \cup Permutations(Groups) \cup Permutations(Tasks)
=============================================================================
