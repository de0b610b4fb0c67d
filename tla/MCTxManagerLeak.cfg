SPECIFICATION FairSpec
CONSTANTS
  Calls = {k1, k2}
  MaxOpen = 2
  MaxTries = 3
  FErrors = {"driver_ErrBadConn"}
PROPERTY AlwaysReturns
