SPECIFICATION Spec
VIEW view
CONSTANTS
  Slot = {0, 1}
  Lead = 0
  Status = {6, 21}
  Control = {6}
  AbnormalImmunity = 21
  Conversions <- IntoFear
  Duration = {0, 1}
  MaxRound = 1
INVARIANTS
  AfflictionsAreOwn
PROPERTIES
  LongerStands
  AnswersAreTrue
  ToldOfChanges
