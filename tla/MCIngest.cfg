SPECIFICATION IngestSpec
CONSTANTS
  Files <- MCFiles
  File0 <- MCFile0
  Inst = {i1, i2, i3}
  Series = {0}
  Request = {q1, q2}
  NDB = 1
  BF = {g1, g2, g3}
  Capacity = 1
SYMMETRY Symmetry
INVARIANTS
  FilterOvershoot
  DropsOnlyDelivered
