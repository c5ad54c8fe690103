CONSTANTS
  Second = 1
  DefaultRotateBefore = 2
  MinRequeueAfter = 1
  Outputs <- TokenOnly
  DataKeys <- TwoKeys
  Names <- OneName
  Specs <- KeySpecs
  InitialSecrets <- FreeOrAdopted
  Registered = {"github-app", "database"}
  Lifetimes = {4}
  BackoffDelays = {0}
  Disturbances = {"editSpec", "deleteEC", "deleteSecret", "crash", "apiError", "lostReply", "mintFail"}
  MaxDisturbances = 2
  MaxTokens = 3
  MaxTime = 3
  Prompt = TRUE
SPECIFICATION Spec
INVARIANTS TypeOK PublishedNotRevoked NoStrandedKeys StatusNotAheadOfSecret FinalizerBeforeMint RevokedWhenGone WakeupScheduled
PROPERTIES MintsOnlyForExisting KeepsProviderContract
CHECK_DEADLOCK FALSE
