\* One caller: its rebuilds never go back until something fails, and its calls return.
SPECIFICATION FairSpec
CONSTANTS
  Clients = {c1}
  MaxCalls = 3
  MaxFaults = 2
  Ops = {"append", "interview", "create", "complete"}
INVARIANTS
  QuietMeansFresh
PROPERTIES
  CallReturns
  FreshUntilFault
CHECK_DEADLOCK FALSE
