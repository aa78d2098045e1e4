\* A runner, a bust of his call, a station calling him and sign-offs, read by two
\* neighbouring bins, one of which may be the stronger.
SPECIFICATION LifeSpec
CONSTANTS
  None = None
  runner = runner
  bust = bust
  caller = caller
  Calls = {runner, bust, caller}
  Tier <- MCTier
  OneEdit <- MCOneEdit
  Texts <- BandTexts
  Freqs = {0, 1}
  MaxSnr = 2
  NEAR = 1
  MOVE = 2
  CELL = 0
  BAND = 10
  WINDOW_S = 1
  PRUNE_S = 1
  LOCK_IDLE_S = 2
  TAKEOVER_IDLE_S = 2
  REPEAT_S = 2
  RESPOT_S = 3
  TWO_WINDOWS = TRUE
  SECOND_PATH = FALSE
  MaxTime = 3
  MaxWindows = 3
INVARIANTS OneTransmissionOneCopy SpotsCorroborated OwnersApart OwnerCalledCq SteadyRunnerSpotted
PROPERTIES TakeoverEarned
CHECK_DEADLOCK FALSE
