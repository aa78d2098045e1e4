\* One transmission in three bins at once, the outer two further apart than NEAR.
SPECIFICATION LifeSpec
CONSTANTS
  None = None
  runner = runner
  bust = bust
  caller = caller
  Calls = {runner}
  Tier <- MCTier
  OneEdit = {}
  Texts <- RunnerTexts
  Freqs = {0, 1, 2}
  MaxSnr = 2
  NEAR = 1
  MOVE = 2
  CELL = 1
  BAND = 10
  WINDOW_S = 1
  PRUNE_S = 3
  LOCK_IDLE_S = 2
  TAKEOVER_IDLE_S = 2
  REPEAT_S = 3
  RESPOT_S = 5
  TWO_WINDOWS = TRUE
  SECOND_PATH = TRUE
  MaxTime = 1
  MaxWindows = 3
INVARIANTS SpotsCorroborated
CHECK_DEADLOCK FALSE
