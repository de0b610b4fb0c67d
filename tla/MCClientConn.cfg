CONSTANTS
  Dialers = {r1, r2}
  Addrs = {a, b}
  TTL = 1
  MaxLookup = 1
  Conns = {c1, c2}
  NoConn = noConn
  MaxSilent = 1
SYMMETRY Symmetry
SPECIFICATION CSpec
INVARIANT GaugesExplained
PROPERTY FreshAddresses
