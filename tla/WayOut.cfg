SPECIFICATION FairSpec
CONSTANTS
  People = {ann, bob}
  None = None
  MaxAttempts = 2
  MaxVisits = 2
  MaxMounts = 2
  Wording = 2
  MaxOpen = 2
PROPERTY WayOutSendsNothing
CHECK_DEADLOCK FALSE
