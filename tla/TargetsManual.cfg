SPECIFICATION MCSpec
CONSTANTS
  Qubes = {vm, plain}
  Plain = plain
  Unknown = {ghost}
INVARIANTS
  SkipWins
  MatchesManual
