CONSTANTS
  Second = 2
  DefaultRotateBefore = 6
  MinRequeueAfter = 1
  JwtMaxLifetime = 8
  JwtClockSkewGuard = 2
  TokenLifetime = 11
  Skews <- SomeSkews
  Configs <- SomeConfigs
  Windows = {0, 20}
  MaxLatency = 3
  MaxTokens = 2
  MaxBreaks = 1
  MaxTime = 12
SPECIFICATION FairSpec
INVARIANTS TypeOK ToleratesSkew RotatesInTime OrphansAreLost
PROPERTIES ImplementsProvider CallReturns
CHECK_DEADLOCK FALSE
