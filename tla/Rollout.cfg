CONSTANTS
  MaxLag = 1
  Second = 1
  DefaultRotateBefore = 1
  MinRequeueAfter = 1
  Outputs <- TokenOnly
  DataKeys <- TokenOnly
  Names <- OneName
  Specs <- OneSpec
  InitialSecrets <- NoSecrets
  Registered = {"github-app"}
  Lifetimes = {2}
  BackoffDelays = {1}
  Disturbances = {"deleteEC", "crash"}
  MaxDisturbances = 1
  MaxTokens = 2
  MaxTime = 2
  Prompt = TRUE
SPECIFICATION RolloutSpec
INVARIANTS PublishedNotRevoked RevokedWhenGone ServedByEither
CHECK_DEADLOCK FALSE
