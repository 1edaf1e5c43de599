SPECIFICATION Spec
CONSTANTS
  Refreshes = {r1, r2}
  Sessions = {}
  LastEpoch = 2
  Window = 1
  Horizon = 1
  BatchSize = 1
  MaxTokens = 2
  Rotation = 0
  TokensOnly = TRUE
  Persists = TRUE
INVARIANTS
  TypeOK
  RevokedHoldsNothing
  SettledIsDefinitive
PROPERTIES
  StockIsKept
SYMMETRY Symmetry
