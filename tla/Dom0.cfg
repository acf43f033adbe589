CONSTANTS
  Packages = {p1}
  Users = {user}
  Cron = cron
  NoOne = NoOne
  MaxExtra = 1
  MaxRestarts = 1
SPECIFICATION Spec
INVARIANTS
  InstalledVerified
  OneRun
  FailureNoticed
  
PROPERTIES
  LockReleased
