\* Two copies, any four of the starts, stops and faults.
SPECIFICATION Spec
CONSTANTS
  None = None
  Copies = {1, 2}
  Faults = {"station dies", "copy dies", "station cut", "copy cut", "outage"}
  MaxEvents = 4
INVARIANTS TypeOK
PROPERTIES EvictsUnseen KeepsRunning AgreeAgain StationGoes
CHECK_DEADLOCK FALSE
