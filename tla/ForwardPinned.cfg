SPECIFICATION Spec
CONSTANTS
  Ports = {1, 2}
  Policy = "KeepPortOrStay"
  Pinned = 0
  Raw = FALSE
  MaxEpochs = 3
INVARIANTS
  IdleIsSettled
PROPERTIES
  PinHolds
