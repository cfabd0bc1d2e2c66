SPECIFICATION FairSpec
CONSTANTS
  Kinds <- KindsChecked
  Addresses = 2
  LiveAddresses <- SecondLive
  MaxFailures = 2
  MaxCalls = 2
INVARIANTS
    StateAgrees
    HeaderFirst
    TokenNamesSocket
PROPERTIES
    ComesUp
