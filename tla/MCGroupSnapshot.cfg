SPECIFICATION SnapFairSpec
CONSTANTS
  f1 = f1
  f2 = f2
  Key = {0, 1}
  FP <- MCFP
  Arrivals <- MCArrivals
  NB = 1
  Limit = 2
  BatchSize = 1
  Resetter = {r1}
INVARIANTS
  SnapTypeOK
  NoNilSketch
  SnapshotCovers
PROPERTIES
  EmitsGroupOnce
  SnapshotEnds
