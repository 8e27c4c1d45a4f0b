\* A provider that numbers its calls anew in every request (providers/local.py).
CONSTANTS
  Batch <- MCSingle
  MaxCalls = 4
  Retries = 0
  Providers = 1
  KeepLast = 2
  Threshold = 4
  FreshIds = FALSE
  HasDeadline = FALSE
  MaxTurn = 1
  MaxBatch = 3
  MaxControl = 0
  MaxDisturb = 0
SPECIFICATION Spec
INVARIANT PromptBounded
CHECK_DEADLOCK FALSE
