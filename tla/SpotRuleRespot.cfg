\* One runner on two frequencies a move apart, through saves, stops and crashes.
SPECIFICATION Spec
CONSTANTS
  None = None
  runner = runner
  bust = bust
  caller = caller
  Calls = {runner}
  Tier <- MCTier
  OneEdit = {}
  Texts <- RunnerTexts
  Freqs = {0, 2}
  MaxSnr = 1
  NEAR = 1
  MOVE = 2
  CELL = 1
  BAND = 10
  WINDOW_S = 1
  PRUNE_S = 3
  LOCK_IDLE_S = 2
  TAKEOVER_IDLE_S = 2
  REPEAT_S = 3
  RESPOT_S = 5
  TWO_WINDOWS = TRUE
  SECOND_PATH = TRUE
  MaxTime = 6
  MaxWindows = 5
INVARIANTS TypeOK
PROPERTIES RespotInterval
CHECK_DEADLOCK FALSE
