SPECIFICATION Spec
CONSTANTS
  Slot = {0}
  FirstSlot = 0
  SkillSlot = {0}
  Index = {0, 1}
  MaxHp = 1
  UnlimitedPP <- OneUnlimited
  EffectStates <- NoStates
  WatchedEvents <- NoEvents
INVARIANTS
  FightsAsAgreed
