SPECIFICATION FairSpec
CONSTANTS
  Limit = 2
  Prune = 1
  Unparsed <- ThirdUnparsed
  MaxId = 7
  MaxFlight = 2
  MaxDrops = 1
  MaxResets = 1
INVARIANTS
    WindowKept
    ParsedOnce
PROPERTIES
    ConfirmedUnlessLost
CHECK_DEADLOCK FALSE
