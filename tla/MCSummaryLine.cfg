SPECIFICATION Spec
CONSTANTS
  Key = {0, 1, 2, 3}
  FP = {f1}
  Arrivals <- AllArrivals
  NB = 2
  Limit = 2
  Resetter = {}
INVARIANT SummaryCountsDistinct
