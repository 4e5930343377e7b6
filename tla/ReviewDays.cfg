\* Every reachable interval and ease, over a few days.
SPECIFICATION ReviewSpec
CONSTANT MaxDay = 2
INVARIANTS
  ReviewTypeOK
  Scheduled
PROPERTIES
  SettledIntervalsGrow
CHECK_DEADLOCK FALSE
