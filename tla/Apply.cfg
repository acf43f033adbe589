CONSTANTS
  t1 = t1
  t2 = t2
  a1 = a1
  a2 = a2
  Templates = {t1, t2}
  Apps = {a1, a2}
  Base <- MCBase
  MayRefuse = TRUE
  MaxStarts = 1
  MaxStops = 1
SPECIFICATION FairSpec
INVARIANTS
  CodesTruthful
  ServicesBack
  UpdateApplied
PROPERTIES
  NoPointlessShutdown
  ApplyEnds
\* A qube that halts and is started again before the wait is set up is waited
\* for until somebody stops it.
CHECK_DEADLOCK FALSE
