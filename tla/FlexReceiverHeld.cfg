\* A live retune is refused while the radio's calibration holds the pan.
SPECIFICATION Spec
CONSTANTS
  Freqs = {7, 14}
  Elsewhere = 0
  LOSS_BUDGET = 1
  Events = {"calibrates", "refuses"}
  Changes = {"retune"}
  MaxEvents = 2
  MaxStations = 1
  MaxAir = 1
INVARIANTS MutedWhileHeld
CHECK_DEADLOCK FALSE
