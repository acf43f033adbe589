CONSTANTS
  Packages = {rpm, kernel}
  Required = {rpm}
  RunCodes <- AllCodes
SPECIFICATION Spec
INVARIANTS
  HardFail
  ErrorsReported
  NoUpdatesUnchanged
  SignedOnly
  DownloadOnly
