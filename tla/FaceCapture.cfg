SPECIFICATION FairSpec
CONSTANTS
  Moves = {left, up}
  Center = center
  MaxSteps = 3
  Steady = 2
  Window = 3
  MaxEffects = 2
  MaxRuns = 2
INVARIANTS FramesWaitForThePerson OnlyTheShownCameraIsOn
PROPERTIES RunsEnd KeepsItsPromise
CHECK_DEADLOCK FALSE
