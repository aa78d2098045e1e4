\* Nothing fails.
SPECIFICATION Spec
CONSTANTS
  None = None
  Receivers = {r1, r2}
  MAX_QUEUED_OPS = 2
  MaxRequests = 3
  MaxFeeders = 3
  MaxFaults = 0
  Faults = {}
INVARIANTS FeederServes
CHECK_DEADLOCK FALSE
