SPECIFICATION FairSpec
CONSTANTS
  Ids = {i1}
  NoId = NoId
  Hashes = {h1, h2}
  Envelopes = {e1, e2}
  NoEnvelope = NoEnvelope
  MaxClock = 2
  MaxAnonymous = 1
INVARIANTS
  TypeOK
  DeliveredOnce
  RevealsHonourAcks
PROPERTY
  AcceptedReachesQueue
CHECK_DEADLOCK FALSE
