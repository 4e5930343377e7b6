\* Every kind of event, arriving out of order.
CONSTANTS
  a = a
  b = b
  NoConcept = none
  Concepts = {a, b}
  Times = {0, 1}
  Records <- AllRecords
  MaxEvents = 4
SPECIFICATION Spec
INVARIANTS
  TypeOK
  StatusSpec
  LearnedIsScheduled
  EdgesSpec
PROPERTIES
  NeutralEvents
  RetryHarmless
CHECK_DEADLOCK FALSE
