\* With the game's messages used up and the menu closed, nothing is left to do.
CHECK_DEADLOCK FALSE
CONSTANTS
  Limit = 0
  MaxNumbers = 1
  MovieLoads = {TRUE}
  MaxGameMessages = 3
  MaxEdits = 1
  Followers = {1, 2}
  Names = {"Dog", "Piper"}
  NameLines <- OneLine
  Height = 6
  SpawnOffset = 6
  Stats <- Reports
  Full = 2
  MaxMessages = 5
SPECIFICATION MCSpec
INVARIANTS MenuFollowsHUD SettingsReachMenu CompanionsAreListed
PROPERTIES HUDBringsMenu NumbersFade WidgetsSettle
