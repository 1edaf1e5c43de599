SPECIFICATION Spec
CONSTANTS
  Rules = {r1, r2}
  LastSlot = 1
  BatchSize = 2
  LastEpoch = 2
INVARIANTS
  TypeOK
  SlotsApart
  PlacesApart
  ApartUnlessTorn
PROPERTIES
  RenewalRepeats
SYMMETRY Symmetry
