SPECIFICATION Spec
CONSTANTS
  Slot = {1, 2, 3, 4}
  Lead = 1
  Id = {1, 2, 3}
  MarkOf <- Shared
  Library <- FourLibraries
  Node <- Nodes
  MaxRound = 3
  MaxBreaks = 4
CHECK_DEADLOCK FALSE
INVARIANTS
  BenchIsSilent
  ReadyAtChoice
  ExitsFollowEnters
