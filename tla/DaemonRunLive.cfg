\* Turns succeed; one cancellation, one engine failure.
CONSTANTS
  Team = FALSE
  Asks = FALSE
  Fails = FALSE
  Refuses = FALSE
  MaxItem = 3
  MaxContinue = 1
  MaxCancel = 1
  MaxEngine = 1
  MaxShutdown = 0
SPECIFICATION FairSpec
 
PROPERTIES FollowupsRun 
CHECK_DEADLOCK FALSE
