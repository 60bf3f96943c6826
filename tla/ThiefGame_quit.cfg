SPECIFICATION Spec
CONSTANTS
  BoardSize = 2
  ThiefStart <- Corner
  SurvivalThreshold = 2
  Plays <- FewPlays
  PoliceLogs <- HonestLogs
  Buttons = {"enable"}
  Signals = {"enable", "quit"}
  MaxSignals = 2
  MaxRepeats = 0
  Faults = FALSE
INVARIANT
  QuitIsClean
