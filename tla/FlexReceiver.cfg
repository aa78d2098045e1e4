\* One copy, any two events.
SPECIFICATION Spec
CONSTANTS
  Freqs = {7, 14}
  Elsewhere = 0
  LOSS_BUDGET = 1
  Events = {"calibrates", "moved", "keys", "station_leaves", "stalls", "outage", "refuses", "silent"}
  Changes = {"retune", "rx"}
  MaxEvents = 2
  MaxStations = 2
  MaxAir = 1
INVARIANTS TypeOK OneStream HeardAsTold
PROPERTIES EndIsFinal RecoveryEnds HearsAgain
CHECK_DEADLOCK FALSE
