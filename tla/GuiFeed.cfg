\* Two clients for one place, a slow one, and the band changed and changed back under them.
SPECIFICATION Spec
CONSTANTS
  None = None
  c1 = c1
  c2 = c2
  Clients = {c1, c2}
  Bands = {b1, b2}
  Start = b1
  Changes = {b1, b2}
  b1 = b1
  b2 = b2
  CLIENT_QUEUE_MAX = 3
  SPECTRUM_QUEUE_MAX = 1
  MAX_CLIENTS = 1
  SNAPSHOT_SPOTS = 1
  Outputs = {{"window", "row"}, {"window", "spot", "status"}}
  MaxTurns = 2
  MaxCalls = 1
INVARIANTS TypeOK TrueToBand NothingOldAfterHello NoneMissed
PROPERTIES AskAnswered EveryoneMoves
CHECK_DEADLOCK FALSE
