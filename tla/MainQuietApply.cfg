CONSTANTS
  dom0 = dom0
  tmpl = tmpl
  alone = alone
  app = app
  Qubes = {dom0, tmpl, alone, app}
  Class <- MCClass
  Dummy = TRUE
  Endings <- Ends
SPECIFICATION Spec
INVARIANTS
  ApplyNeverCrashes
