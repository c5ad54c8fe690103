CONSTANTS
  Second = 1
  DefaultRotateBefore = 1
  MinRequeueAfter = 1
  Outputs <- TokenOnly
  DataKeys <- TokenOnly
  Names <- OneName
  Specs <- Renamed
  InitialSecrets <- NoSecrets
  Registered = {"github-app"}
  Lifetimes = {2}
  BackoffDelays = {0}
  Disturbances = {"editSpec", "deleteEC", "editSecret", "crash", "apiError", "lostReply"}
  MaxDisturbances = 2
  MaxTokens = 1
  MaxTime = 2
  Prompt = FALSE
SPECIFICATION FairSpec
PROPERTIES DeletionCompletes ExpiredRemoved
CHECK_DEADLOCK FALSE
