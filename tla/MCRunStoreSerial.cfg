\* One process, nothing cancelled: the asyncio.Lock serialises every operation.
CONSTANTS
  tui = tui
  daemon = daemon
  tui1 = tui1
  daemon1 = daemon1
  daemon2 = daemon2
  Proc = {daemon}
  Thread = {daemon1, daemon2}
  NoThread = NoThread
  ProcOf <- MCProcOf
  QueueLimit = 1
  TurnEnd <- AllEnds
  SetState = {"blocked"}
  MaxItem = 1
  MaxJournal = 3
  MaxCrash = 1
  MaxFault = 1
  MaxCancel = 0
  MaxAppend = 2
SPECIFICATION Spec
INVARIANTS PublishedStateStands EventIdsNumberLines
CHECK_DEADLOCK FALSE
