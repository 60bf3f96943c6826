SPECIFICATION Spec
CONSTANTS
  NumGames = 2
  MaxPasses = 2
  BoardSize = 2
  Saved <- SampleFiles
  MaxChains = 2
  MaxPresses = 4
INVARIANTS
  TypeOK
  OneRuntime
  ResultBacked
  ShowsThePrefix
PROPERTY
  Settles
CHECK_DEADLOCK FALSE
