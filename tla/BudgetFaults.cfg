\* Two requests of one session and a morning job, with lost and late saves.
SPECIFICATION FairSpec
CONSTANTS
  t1 = t1  t2 = t2  w1 = w1  m1 = m1
  s1 = s1  s2 = s2  s3 = s3
  TutorTurns = {t1, t2}
  WeeklyRuns = {}
  MorningRuns = {m1}
  RunIds = {s1, s2}
  RunOf <- SharedRunIds
  TutorCap = 2
  TotalCap = 3
  MaxEstimate = 1
  MaxUse = 2
  MaxRounds = 2
  MaxTurns = 2
  MaxFaults = 2
INVARIANTS
  RecordedIsSpent
PROPERTIES
  TurnEnds
CHECK_DEADLOCK FALSE
