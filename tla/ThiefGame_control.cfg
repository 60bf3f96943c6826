SPECIFICATION FairSpec
CONSTANTS
  BoardSize = 2
  ThiefStart <- Corner
  SurvivalThreshold = 2
  Plays <- FewPlays
  PoliceLogs <- HonestLogs
  Buttons = {"pause", "play", "stop", "restart", "quit", "enable"}
  Signals = {"enable", "restart", "quit", "malformed"}
  MaxSignals = 2
  MaxRepeats = 0
  Faults = FALSE
PROPERTIES
  RestartNeedsConsent
  EndsUnlessPaused
  StopEnds
