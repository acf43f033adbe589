CONSTANTS
  Kinds = {"admin", "plain", "pci"}
  Cleanup = TRUE
  ShowProgress = TRUE
  FailCodes = {1, 2}
  EntryCodes <- MCEntryCodes
  Others = TRUE
SPECIFICATION FairSpec
INVARIANTS
  LastWordAgrees
  PowerRestored
  UploadRemoved
PROPERTIES
  TaskSpec
  Returns
