\* One worker, with a crash, a failed checkpoint and a recovery request.
CONSTANTS
  w1 = w1
  w2 = w2
  p = p
  Worker = {w1}
  Path = {p}
  MaxConcurrent = 2
  MaxTotal = 2
  MaxCalls = 1
  ClosesStream = TRUE
  Controls = TRUE
  MaxTurn = 2
  MaxStop = 1
  MaxCrash = 1
  MaxFault = 1
  MaxRequest = 1
SPECIFICATION FairSpec
INVARIANTS CallsWithinBudget SettledStaysSettled 
PROPERTY TurnEnds
CHECK_DEADLOCK FALSE
