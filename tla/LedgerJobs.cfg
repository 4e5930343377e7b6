\* The CI runner, syncing every day, and a shell, with lost answers and aborted jobs.
SPECIFICATION FairSpec
CONSTANTS
  CI = CI
  Runners = {CI, shell}
  Keys = {k1}
  PageSize = 2
  MaxFeedback = 1
  MaxReviews = 2
  MaxProposals = 2
  MaxFaults = 2
INVARIANTS
  TypeOK
  ClosedIsNoted
  CopiesBounded
  AnnouncedIsDone
PROPERTIES
  ImportedUnlessCrowded
CHECK_DEADLOCK FALSE
