SPECIFICATION Spec
CONSTANTS
  NumGames = 2
  SurvivalThreshold = 2
  MaxRestarts = 1
  Courses <- RestartOnly
INVARIANT
  RestartIsFresh
