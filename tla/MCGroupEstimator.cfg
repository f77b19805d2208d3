SPECIFICATION FairSpec
CONSTANTS
  Key = {0, 1, 2, 3}
  FP = {f1}
  Arrivals <- AllArrivals
  NB = 2
  Limit = 2
  Resetter = {r1}
INVARIANTS
  TypeOK
  HolderInv
  BucketAccounting
  SizeIsTracked
  LimitOvershoot
  SketchMemory
PROPERTIES
  EvictsIdle
  RotationStops
  ResetFinishes
  ImplementsWindow
