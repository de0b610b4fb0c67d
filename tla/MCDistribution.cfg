SPECIFICATION DSpec
CONSTANTS
  Workers = {w1, w2}
  Capacity = 2
  Types = {release, candidate}
  Default = release
  Pins = {0}
  Files = 2
  Chunks = 1
  MaxVersion = 2
  MaxRuns = 3
INVARIANTS ReadyMeansAllKnown LatestIsDownloadable
PROPERTIES NeverStepsBack RunReturns CatchesUp
