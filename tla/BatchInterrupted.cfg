CONSTANTS
  Qubes = {q1, q2, q3}
  MaxConcurrency = 2
  Dummy = FALSE
  NoName = NoName
  DisplayName = NoName
  TransferCodes = {0, 25}
  EntryCodes = {0, 24}
  MayRaise = TRUE
  MaxSigint = 1
  MaxReports = 0
SPECIFICATION Spec
SYMMETRY Symmetry
INVARIANTS
  SigintReported
  FailuresReported
PROPERTIES
  BatchSpec
\* A SIGINT that costs the loop a DONE message leaves it waiting for ever.
CHECK_DEADLOCK FALSE
