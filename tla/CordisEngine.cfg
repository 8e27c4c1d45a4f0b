\* A call and a stream, and any one cancellation, death of the process, change
\* of a plugin, configuration or shutdown; timeouts come whenever they can.
CONSTANTS
  Op = {o1, o2}
  Streams = {o2}
  MaxOperations = 2
  MaxItem = 2
  MaxDisturb = 1
SPECIFICATION FairSpec
INVARIANTS SuccessIsReal NoOrphan
PROPERTIES Forgotten FailureEnds
CHECK_DEADLOCK FALSE
