\* Two automations that are due, one slot, any one request, edit, failure or crash.
CONSTANTS
  often = often
  seldom = seldom
  Automation = {often, seldom}
  Period <- MCPeriod
  Slot = {1, 2}
  Outside = FALSE
  MaxConcurrent = 1
  MaxDue = 2
  CooldownFirst = 1
  CooldownMax = 2
  MaxTime = 1
  MaxDisturb = 1
SPECIFICATION FairSpec
INVARIANTS SchedulerWithinLimit OccurrenceOnce DecisionStands 
 
CHECK_DEADLOCK FALSE
