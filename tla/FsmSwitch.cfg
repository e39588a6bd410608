SPECIFICATION Spec
CONSTANTS
  Slot = {0, 1}
  FirstSlot = 0
  SkillSlot = {0}
  Index = {0, 1}
  MaxHp = 1
  UnlimitedPP <- OneUnlimited
  EffectStates <- SwitchEffects
  WatchedEvents <- SwitchWatched
INVARIANTS
  ChoiceMatchesStage
  DeathNoticeOnce
PROPERTIES
  SelectionSwitchesToTheLiving
VIEW SwitchView
