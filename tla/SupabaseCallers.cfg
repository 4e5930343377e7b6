\* Two callers over a link that loses, delays and repeats requests.  An append is
\* what an interview is without its profile, and is left to SupabaseOneCaller.
SPECIFICATION Spec
CONSTANTS
  Clients = {c1, c2}
  MaxCalls = 3
  MaxFaults = 2
  Ops = {"interview", "create", "complete"}
SYMMETRY ClientSymmetry
INVARIANTS
  TypeOK
  TasksMatchLog
  ProfileMatchesLog
  AttemptInsertsOnce
PROPERTIES
  ReplyShowsOwnWrite
  ImplementsLedger
CHECK_DEADLOCK FALSE
