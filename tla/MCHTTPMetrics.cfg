SPECIFICATION FairSpec
CONSTANTS
  Users = {"user"}
  MaxRecords = 3
INVARIANTS NothingLost CloseFlushes
PROPERTY DeliveredOrClosed
