SPECIFICATION FairSpec
CONSTANTS
  NoHeader = NoHeader
  MaxAttempts = 3
  Timeout = 120
  Times <- Extremes
  Headers <- SomeHeaders
  Limit = 5000
  Margin = 1200
CHECK_DEADLOCK FALSE
INVARIANTS TypeOK OnlyReturnedOpen ReturnsLastAnswer WholeBodies NotBeforeAsked TokenOutlivesRetries
PROPERTIES CancelEnds
