SPECIFICATION FairSpec
CONSTANTS
  NumGames = 2
  SurvivalThreshold = 2
  MaxRestarts = 1
  Courses <- AllCourses
INVARIANTS
  TypeOK
  CompleteSeries
  GamesDoNotMix
PROPERTY
  SeriesEnds
