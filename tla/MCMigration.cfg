SPECIFICATION FairSpec
CONSTANTS
  Dcs <- TwoDcs
  FirstDc = 2
  Logins <- OneLogin
  Files <- OneFile
  MaxLogins = 1
  MaxTroubles = 2
  MaxExports = 1
INVARIANTS
    MovesConsistent
    CalledOnce
PROPERTIES
    MoveEnds
    FileServed
CHECK_DEADLOCK FALSE
