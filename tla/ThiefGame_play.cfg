SPECIFICATION FairSpec
CONSTANTS
  BoardSize = 2
  ThiefStart <- Corner
  SurvivalThreshold = 3
  Plays <- AllPlays
  PoliceLogs <- SampleLogs
  Buttons = {}
  Signals = {}
  MaxSignals = 0
  MaxRepeats = 1
  Faults = TRUE
INVARIANTS
  TypeOK
  NeverTrapped
  TurnsAlternate
  FoldedOnce
  OwnLogPasses
  AnswersClaims
  CaptureIsReal
  OutcomesAgree
  TurnErrorNeedsFault
PROPERTIES
  VerdictIsFinal
  ImplementsSubGame
