SPECIFICATION Spec
CONSTANTS
  Rules = {r1, r2, r3}
  LastSlot = 2
  BatchSize = 2
  LastEpoch = 1
INVARIANTS
  RulesApart
SYMMETRY Symmetry
