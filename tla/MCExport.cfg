SPECIFICATION Spec
CONSTANTS
  SpanIDs = {"s1", "s2"}
  TraceOf <- MCTraceOf
  Confs <- MCConfs
  Bits = 3
  MaxRetries = 1
  QueueSize = 1
  Responses = 1
INVARIANTS
  MetricsOnce
  TraceSampledWhole
  CloseDelivers
PROPERTY CallsReturn
