\* Callers on both ledgers, three migrations, lost answers and aborted runs.
SPECIFICATION Spec
CONSTANTS
  MaxWrites = 3
  MaxRuns = 3
  MaxFaults = 2
INVARIANTS
  SuccessIsCopy
  RerunKeepsAgreement
  IdsFree
CHECK_DEADLOCK FALSE
