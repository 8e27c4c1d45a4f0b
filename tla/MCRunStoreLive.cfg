\* Every operation ends, although writers fail and processes crash.
CONSTANTS
  tui = tui
  daemon = daemon
  tui1 = tui1
  daemon1 = daemon1
  daemon2 = daemon2
  Proc = {tui, daemon}
  Thread = {tui1, daemon1}
  NoThread = NoThread
  ProcOf <- MCProcOf
  QueueLimit = 1
  TurnEnd <- DrainingEnds
  SetState = {}
  MaxItem = 1
  MaxJournal = 2
  MaxCrash = 1
  MaxFault = 1
  MaxCancel = 0
  MaxAppend = 0
SPECIFICATION FairSpec
PROPERTY OperationsEnd
CHECK_DEADLOCK FALSE
