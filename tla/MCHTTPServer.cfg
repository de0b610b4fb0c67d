SPECIFICATION FairSpec
CONSTANTS
  Conns <- MCConns
  Hosts <- MCHosts
  HostOf <- MCHostOf
INVARIANTS CountersExact NilMeansDrained
PROPERTIES StopsWhenCancelled
