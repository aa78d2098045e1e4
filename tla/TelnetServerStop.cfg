\* A client that logs in while the port stops, and stays.
SPECIFICATION Spec
CONSTANTS
  c1 = c1
  c2 = c2
  Clients = {c1, c2}
  MAX_CLIENT_BUFFER = 1
  MaxSpots = 1
PROPERTY StopEnds
CHECK_DEADLOCK FALSE
