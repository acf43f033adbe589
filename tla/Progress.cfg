CONSTANTS
  Apis = {"apt", "dnf", "dnf5", "cli"}
  Packages = {p1, p2}
  Size = 3
  Repos = 2
  Strays <- Words
  MaxRestarts = 2
  MaxStrays = 2
  PipeSize = 2
SPECIFICATION Spec
INVARIANTS
  BarExact
  FetchShown
  EndShown
PROPERTIES
  BarNeverBack
  AgentEnds
