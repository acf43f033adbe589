CONSTANTS
  Qubes = {q1, q2}
  MaxConcurrency = 2
  Dummy = FALSE
  NoName = NoName
  DisplayName = NoName
  TransferCodes = {0}
  EntryCodes = {0}
  MayRaise = FALSE
  MaxSigint = 1
  MaxReports = 0
SPECIFICATION FairSpec
PROPERTIES
  SigintEndsBatch
CHECK_DEADLOCK FALSE
