\* Two receivers, three requests and any two faults of different kinds.
SPECIFICATION FairSpec
CONSTANTS
  None = None
  Receivers = {r1, r2}
  MAX_QUEUED_OPS = 2
  MaxRequests = 3
  MaxFeeders = 3
  MaxFaults = 2
  Faults = {"copy dies", "feeder dies", "server dies", "not live", "slow", "no answer"}
INVARIANTS TypeOK OneFeeder FedByRunning
PROPERTIES KeepsFeeding ImplementsService RequestsAnswered OrphanFeederEnds
CHECK_DEADLOCK FALSE
