SPECIFICATION Spec
CONSTANTS
  MaxHp = 2
  Amount = {1, 2, 50}
  Denominator = {1, 2}
  Potion = 1
  Standing <- Standings
  Holder = {1}
  NewShield <- Given
  MaxShields = 2
  MaxBlocks = 1
VIEW state
INVARIANTS
  TypeOK
PROPERTIES
  AttackIsAccounted
  LossIsAnnounced
  BlockedNeverRecovers
  BlockSpentOnBlows
