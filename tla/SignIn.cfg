SPECIFICATION FairSpec
CONSTANTS
  None = None
  TRIES = 2
  MaxSteps = 4
  MaxChecks = 2
INVARIANTS AskedForWhatIsOwed RecoveryTellsTheTruth
PROPERTIES EachCaptureItsChallenge OnlyTheirOwnAnswerMovesThem WaitsEnd
CHECK_DEADLOCK FALSE
