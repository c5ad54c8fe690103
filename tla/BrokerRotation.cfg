CONSTANTS
  Second = 2
  DefaultRotateBefore = 3
  MinRequeueAfter = 1
  Outputs <- TokenOnly
  DataKeys <- TwoKeys
  Names <- OneName
  Specs <- RotationSpecs
  InitialSecrets <- NoSecrets
  Registered = {"github-app"}
  Lifetimes = {6}
  BackoffDelays = {1}
  Disturbances = {"editSpec", "deleteSecret", "crash", "resync"}
  MaxDisturbances = 1
  MaxTokens = 5
  MaxTime = 10
  Prompt = TRUE
SPECIFICATION Spec
INVARIANTS ServedWhenSettled WakeupScheduled
PROPERTY MintsSpread
CHECK_DEADLOCK FALSE
