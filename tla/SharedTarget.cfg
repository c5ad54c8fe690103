CONSTANTS
  Second = 1
  DefaultRotateBefore = 1
  MinRequeueAfter = 1
  Outputs <- TokenOnly
  DataKeys <- TwoKeys
  Names <- TwoNames
  Specs <- SharedSpecs
  InitialSpecs <- OfApp
  InitialSecrets <- Adopted
  Registered = {"github-app"}
  Lifetimes = {2}
  BackoffDelays = {1}
  Disturbances = {"editSpec", "editSecret", "deleteSecret", "revokeFail", "deleteEC"}
  MaxDisturbances = 1
  MaxTokens = 2
  MaxTime = 2
  Prompt = TRUE
SPECIFICATION SharedSpec
INVARIANTS BothPublished OwnerServed BothWoken
PROPERTY NeverTakenOver
CHECK_DEADLOCK FALSE
