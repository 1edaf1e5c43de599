SPECIFICATION Spec
CONSTANTS
  Refreshes = {r1, r2}
  Sessions = {s1, s2}
  LastEpoch = 2
  Window = 0
  Horizon = 1
  BatchSize = 2
  MaxTokens = 2
  Rotation = 1
  TokensOnly = FALSE
  Persists = FALSE
INVARIANTS
  OneCopyEach
  HoldsAreExclusive
SYMMETRY Symmetry
