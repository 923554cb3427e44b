CONSTANTS
  Descr = {1}
  Timer = {"t"}
  Filters <- MCFilters
  MaxProcesses = 2
  Queued = 3
  MaxPid = 3
  MaxOps = 4
SPECIFICATION Spec
INVARIANTS OneRunAtATime WakesTheRightOne WatchersAreTold
CHECK_DEADLOCK FALSE
