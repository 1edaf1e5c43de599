SPECIFICATION FairSpec
CONSTANTS
  N = 1
  HasGate = TRUE
  StandsAside = TRUE
  MaxGen = 2
  MaxLevel = 1
PROPERTIES
  DrainAnswered
  RequestHonoured
  Redials
  HeldResumes
