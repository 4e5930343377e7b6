\* Two connections complete one task.
CONSTANTS
  Threads = {c1, c2}
  MaxCalls = 3
  Ops = {"create", "complete"}
  MaxFaults = 0
SPECIFICATION Spec
INVARIANT TaskDoneOnce
CHECK_DEADLOCK FALSE
