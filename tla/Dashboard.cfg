SPECIFICATION FairSceneSpec
CONSTANTS
  None = None
  Slack = 1
  Kinds = {"client", "group", "role", "user", "kiosk", "api", "field", "app",
           "totp", "face", "password", "session", "connection", "profile"}
  MaxWrites <- MCMaxWrites
  MaxOdds <- MCMaxOdds
  MaxMounts <- MCMaxMounts
INVARIANT SavedIsShown
PROPERTIES SecretReachesThePage PairingIsNoticed WaitsEnd
CHECK_DEADLOCK FALSE
