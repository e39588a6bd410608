SPECIFICATION LevelsSpec
CONSTANTS
  Slot = {0, 1}
  Lead = 0
  Stat = {2}
  Defence = {2}
  MaxLevel = 1
  MaxStep = 1
  MaxDrop = 2
  Trained <- SomeTrained
INVARIANTS
  ViewsAreOwn
PROPERTIES
  LevelsAreGuarded
