SPECIFICATION Spec
CONSTANTS
  Packages = {kernel}
  Required = {}
  RunCodes <- Only100
INVARIANTS
  UpgradeReported
