CONSTANTS
  Qubes = {q1, q2}
  MaxConcurrency = 2
  Dummy = FALSE
  NoName = NoName
  DisplayName = NoName
  TransferCodes = {0}
  EntryCodes = {0, 100, 24}
  MayRaise = TRUE
  MaxSigint = 2
  MaxReports = 1
SPECIFICATION FairSpec
INVARIANTS
  ResultsFolded
  CancelledUntouched
  PromiseKept
PROPERTIES
  EndsUnlessInterrupted
  TaskSpec
\* A SIGINT that costs the loop a DONE message leaves it waiting for ever.
CHECK_DEADLOCK FALSE
