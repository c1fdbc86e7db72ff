SPECIFICATION FairTokenSpec
CONSTANTS
  MaxToken = 3
  MaxStart = 3
INVARIANTS
  SdkHasToken
PROPERTIES
  StartMends
  TokenArrives
CHECK_DEADLOCK FALSE
