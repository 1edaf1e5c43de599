SPECIFICATION FairSpec
CONSTANTS
  Ports = {1, 2}
  Policy = "FollowBestEffort"
  Pinned = 0
  Raw = TRUE
  MaxEpochs = 3
INVARIANTS
  TypeOK
  PublishedIsHeld
  LeaseIsPublished
PROPERTIES
  KeptIsTrue
  PortClears
