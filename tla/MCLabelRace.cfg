SPECIFICATION IngestSpec
CONSTANTS
  Files <- LabelFiles
  File0 <- MCFile0
  Inst = {i1, i2, i3}
  Series = {0}
  Request = {q1}
  NDB = 1
  BF = {g1, g2}
  Capacity = 1
SYMMETRY Symmetry
INVARIANT LabelStreamsReceiveAll
