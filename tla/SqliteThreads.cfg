\* Two connections, every operation, lock timeouts.
CONSTANTS
  Threads = {c1, c2}
  MaxCalls = 4
  Ops = {"append", "interview", "create", "complete"}
  MaxFaults = 2
SPECIFICATION Spec
SYMMETRY ThreadSymmetry
INVARIANTS
  RowsMatchLog
PROPERTIES
  ReplyShowsOwnWrite
  ImplementsLedgerOnceDone
CHECK_DEADLOCK FALSE
