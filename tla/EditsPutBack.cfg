CONSTANTS
  Second = 1
  DefaultRotateBefore = 1
  MinRequeueAfter = 1
  Outputs <- TokenOnly
  DataKeys <- TokenOnly
  Names <- OneName
  Specs <- OneSpec
  InitialSecrets <- NoSecrets
  Registered = {"github-app"}
  Lifetimes = {4}
  BackoffDelays = {1}
  Disturbances = {"editSecret"}
  MaxDisturbances = 1
  MaxTokens = 2
  MaxTime = 5
  Prompt = TRUE
SPECIFICATION Spec
INVARIANT EditsPutBack
CHECK_DEADLOCK FALSE
