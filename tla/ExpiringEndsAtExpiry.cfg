CONSTANTS
  Second = 1
  DefaultRotateBefore = 1
  MinRequeueAfter = 1
  Outputs <- TokenOnly
  DataKeys <- TokenOnly
  Names <- OneName
  Specs <- ProviderSpecs
  InitialSecrets <- NoSecrets
  Registered = {"github-app"}
  Lifetimes = {4}
  BackoffDelays = {1}
  Disturbances = {"editSpec"}
  MaxDisturbances = 1
  MaxTokens = 2
  MaxTime = 5
  Prompt = TRUE
SPECIFICATION Spec
INVARIANT ExpiringEndsAtExpiry
CHECK_DEADLOCK FALSE
