SPECIFICATION Spec
CONSTANTS
  Sources = {20}
  Rounds = {2}
  States = {"ACTION"}
  Ttls = {1}
  Plugins <- SomePlugins
  Grants = FALSE
  Races = TRUE
  RuleTypes = {FALSE, TRUE}
  MaxRound = 1
  MaxBreaks = 1
  MaxEffects = 3
INVARIANTS
  WalkSkipsNothing
PROPERTIES
  BrokenNeverRuns
  NeverRunsTwice
