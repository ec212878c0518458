SPECIFICATION FairSceneSpec
CONSTANTS
  k1 = k1
  Kiosks = {k1, k2}
  None = None
  Refused = Refused
  MaxPolls = 2
  MaxPairs = 1
  MaxFaults = 1
  MaxChanges = 1
PROPERTIES AccidentsForgetNothing RefusedIsNoticed SettingsArrive ScreenCatchesUp
CHECK_DEADLOCK FALSE
