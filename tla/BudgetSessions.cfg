\* Two sessions and a weekly review, each with its own run id, no failures.
SPECIFICATION Spec
CONSTANTS
  t1 = t1  t2 = t2  w1 = w1  m1 = m1
  s1 = s1  s2 = s2  s3 = s3
  TutorTurns = {t1, t2}
  WeeklyRuns = {w1}
  MorningRuns = {}
  RunIds = {s1, s2, s3}
  RunOf <- OwnRunIds
  TutorCap = 2
  TotalCap = 4
  MaxEstimate = 2
  MaxUse = 3
  MaxRounds = 2
  MaxTurns = 3
  MaxFaults = 0
INVARIANTS
  TypeOK
  RecordedWhenQuiet
  SpendingBounded
CHECK_DEADLOCK FALSE
