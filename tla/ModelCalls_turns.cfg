SPECIFICATION Spec
CONSTANTS
  BoardSize = 2
  Start <- Corner
  ShortlistSize = 2
  EveryN = 1
  MaxRetries = 1
  ConcurrentMax = 1
  Peak = 40
  MaxTurns = 2
  MaxBarriers = 1
  Decay = 100
  Half = 2
  Kernel <- ShippedKernel
  Leaks = FALSE
INVARIANTS
  TypeOK
  AppliedAsDecided
  AnswersItsOwnTurn
  TokensAccounted
PROPERTY
  TurnEnds
