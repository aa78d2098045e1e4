\* Two receivers of one node with intervals of their own, one on two bands.
SPECIFICATION Spec
CONSTANTS
  a = a
  b = b
  Receivers = {a, b}
  Freqs = {0, 1}
  Hears <- MCHears
  RESPOT <- MCRespot
  RESPOT_SLACK_S = 1
  UPLOAD_S = 1
  HTTP_TIMEOUT_S = 1
  MaxTime = 4
  MaxSkims = 3
  MaxRelists = 2
INVARIANTS TypeOK OnePostPerInterval HeldForOne FreshPosts CleanExit
CHECK_DEADLOCK FALSE
