SPECIFICATION Spec
CONSTANTS
  TIMEOUT = 2
  BACKOFF = 1
  MAX_TRIES = 2
  SweepInterval = 2
  Intervals <- MCIntervals
  Plain = Plain
  MaxCalls = 2
  MaxUpdates = 1
INVARIANTS
  TypeOK
  SubscriptionCoversListener
  ListeningIsBounded
  CallIsBounded
  LapsedGoneInTime
PROPERTIES
  UpdatesReachListener
  ListensToTheEnd
