SPECIFICATION Spec
CONSTANTS
  EventType = {"BREAK", "DAMAGE"}
  Duration = {0}
  Plugin <- Watching
  MaxWaves = 2
  MaxWatchers = 2
  MaxPending = 2
  MaxRound = 1
  MaxSwitches = 1
INVARIANTS
  CalledAtMostOnce
PROPERTIES
  CallsAsRegistered
  OnlyLoopsAreCut
  DrainEnds
