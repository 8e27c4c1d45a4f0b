\* One turn after another with a deadline, a control request and a disturbance.
CONSTANTS
  Batch <- MCBatch
  MaxCalls = 2
  Retries = 1
  Providers = 2
  KeepLast = 2
  Threshold = 4
  FreshIds = TRUE
  HasDeadline = TRUE
  MaxTurn = 2
  MaxBatch = 1
  MaxControl = 1
  MaxDisturb = 1
SPECIFICATION FairSpec
INVARIANTS Paired EffectsSaved ResultsTell  PromptBounded
PROPERTY DeadlineEnds
CHECK_DEADLOCK FALSE
