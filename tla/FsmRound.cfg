SPECIFICATION FairSpec
CONSTANTS
  Slot = {0}
  FirstSlot = 0
  SkillSlot = {0}
  Index = {0, 1}
  MaxHp = 2
  UnlimitedPP <- NoUnlimited
  EffectStates <- RoundEffects
  WatchedEvents <- RoundWatched
INVARIANTS
  FightsAsAgreed
  PromptsAPendingSide
  ResolvedSkillsArePaid
PROPERTIES
  ImplementsRound
  ComesBackToThePlayers
