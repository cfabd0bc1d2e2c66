SPECIFICATION FairSpec
CONSTANTS
  r1 = r1
  r2 = r2
  s1 = s1
  s2 = s2
  d1 = d1
  Rpcs <- TwoRpcs
  SaltRequests <- TwoSalts
  DropRequests <- OneDropRequest
  Limit = 1
  MaxSaltIds = 1
  MaxTroubles = 2
INVARIANTS
    ListsKept
    SaltsAreRequested
    TokenMeansSent
PROPERTIES
    KeepsContract
    AnsweredUnlessLost
CHECK_DEADLOCK FALSE
