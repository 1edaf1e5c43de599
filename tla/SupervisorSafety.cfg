SPECIFICATION Spec
CONSTANTS
  N = 2
  HasGate = TRUE
  StandsAside = TRUE
  MaxGen = 2
  MaxLevel = 1
INVARIANTS
  TypeOK
  NoStaleEpoch
  ConnectedIsUsable
  FatalIsExplained
  RefusedDrainStays
PROPERTIES
  MigrationCompletes
  EndReportedFirst
  DialsFreeExit
  DrainMovesOn
  RebuildKeepsExit
  FeedOK
