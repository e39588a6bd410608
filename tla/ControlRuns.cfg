SPECIFICATION Spec
CONSTANTS
  Kind = {"INIT", "ACTION", "OTHER", "SYNC_STATE", "DEBUG_STEP", "DEBUG_CONTINUE", "DEBUG_BREAKPOINT", "DEBUG_FULLSTATE"}
  MaxMessages = 4
  MaxWrites = 1
  MaxPosted = 2
CHECK_DEADLOCK FALSE
INVARIANTS
  NoLostWakeup
  AskingBattleListens
  QueuedIntact
PROPERTIES
  InputNotOverwritten
  InputGetsThrough
