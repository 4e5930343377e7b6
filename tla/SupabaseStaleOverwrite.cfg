\* Two callers over a reliable link: the older of two rebuilds wins.
SPECIFICATION Spec
CONSTANTS
  Clients = {c1, c2}
  MaxCalls = 2
  MaxFaults = 0
  Ops = {"append"}
SYMMETRY ClientSymmetry
INVARIANTS
  AckedVisible
CHECK_DEADLOCK FALSE
