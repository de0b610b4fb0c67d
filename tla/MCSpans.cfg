SPECIFICATION Spec
CONSTANTS
  Tasks = {t1, t2}
  MaxSpans = 4
  Errors <- MCErrors
INVARIANTS FlattenedReachParent TraceFieldsOnEverySpan GoldenCarriesSpan
  GoldenTraceFollows
SYMMETRY Symmetry
