CONSTANTS
  Second = 1
  DefaultRotateBefore = 1
  MinRequeueAfter = 1
  Outputs <- TokenOnly
  DataKeys <- TokenOnly
  Names <- OneName
  Specs <- OneSpec
  InitialSecrets <- NoSecrets
  Registered = {"github-app"}
  Lifetimes = {2}
  BackoffDelays = {1}
  Disturbances = {}
  MaxDisturbances = 0
  MaxTokens = 2
  MaxTime = 5
  Prompt = FALSE
SPECIFICATION Spec
PROPERTY DeletesOnlyExpired
CHECK_DEADLOCK FALSE
