\* A team run: permissions, failures, two cancellations, an engine failure, a shutdown.
CONSTANTS
  Team = TRUE
  Asks = TRUE
  Fails = TRUE
  Refuses = TRUE
  MaxItem = 2
  MaxContinue = 1
  MaxCancel = 2
  MaxEngine = 1
  MaxShutdown = 1
SPECIFICATION Spec
INVARIANT NoFollowupStranded
PROPERTIES OneTask CancelledStaysIdle FollowupQueueSpec
CHECK_DEADLOCK FALSE
