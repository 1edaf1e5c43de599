SPECIFICATION Spec
CONSTANTS
  Ports = {1, 2}
  Policy = "FollowBestEffort"
  Pinned = 0
  Raw = FALSE
  MaxEpochs = 1
INVARIANTS
  LeaseIsPublished
