\* Two workers over two turns; the second may resume what the first interrupted.
CONSTANTS
  w1 = w1
  w2 = w2
  p = p
  Worker = {w1, w2}
  Path = {p}
  MaxConcurrent = 2
  MaxTotal = 2
  MaxCalls = 1
  ClosesStream = FALSE
  Controls = TRUE
  MaxTurn = 2
  MaxStop = 1
  MaxCrash = 0
  MaxFault = 0
  MaxRequest = 0
SPECIFICATION Spec
INVARIANTS AdmissionHolds 
PROPERTY CancelledNeverRuns
SYMMETRY Alike
CHECK_DEADLOCK FALSE
