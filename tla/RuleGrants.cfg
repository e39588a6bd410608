SPECIFICATION Spec
CONSTANTS
  Slot = {0, 1}
  FirstSlot = 0
  SourceSlots <- SomeSlots
  Status = {0}
  Effects = {7}
  Immunities <- SomeImmunities
  Seals <- SomeSeals
  Invalids <- SomeInvalids
  Reflections <- SomeReflections
  MaxRound = 1
  MaxGrants = 2
  MaxBreaks = 1
INVARIANTS
  CountInStep
  TicketsUnique
  RulesEndInTime
  RulesFollowPet
