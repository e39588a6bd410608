SPECIFICATION Spec
CONSTANTS
  Sources = {20}
  Rounds <- SomeRounds
  States = {"ALL_ROUND_MINUS", "COMPLETION"}
  Ttls = {2}
  Plugins = {}
  Grants = TRUE
  Races = FALSE
  RuleTypes = {FALSE, TRUE}
  MaxRound = 3
  MaxBreaks = 2
  MaxEffects = 2
INVARIANTS
  LeftoversAreBrief
  CountFitsBucket
