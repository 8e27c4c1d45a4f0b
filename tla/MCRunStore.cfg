CONSTANTS
  tui = tui
  daemon = daemon
  tui1 = tui1
  daemon1 = daemon1
  daemon2 = daemon2
  Proc = {tui, daemon}
  Thread = {tui1, daemon1}
  NoThread = NoThread
  ProcOf <- MCProcOf
  QueueLimit = 1
  TurnEnd <- DrainingEnds
  SetState = {}
  MaxItem = 2
  MaxJournal = 3
  MaxCrash = 1
  MaxFault = 0
  MaxAppend = 0
  MaxCancel = 1
SPECIFICATION Spec
INVARIANTS TypeOK AtMostOnce NoSilentLoss NothingLost NoMissedFollowup
PROPERTY FollowupQueueSpec
CHECK_DEADLOCK FALSE
SYMMETRY Swap
