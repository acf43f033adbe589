CONSTANTS
  dom0 = dom0
  tmpl = tmpl
  alone = alone
  app = app
  Qubes = {dom0, tmpl, alone, app}
  Class <- MCClass
  Dummy = FALSE
  Endings <- Ends
SPECIFICATION Spec
INVARIANTS
  FailuresInExit
  SigintStops
  NoUpdatesMeansNone
  AppliedForAReason
  CrashNeedsException
