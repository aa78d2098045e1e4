\* Two clients, three spots from either thread, at most two lines unsent.
SPECIFICATION Spec
CONSTANTS
  c1 = c1
  c2 = c2
  Clients = {c1, c2}
  MAX_CLIENT_BUFFER = 1
  MaxSpots = 3
INVARIANTS TypeOK NoGap
PROPERTIES StopEndsForServed
CHECK_DEADLOCK FALSE
