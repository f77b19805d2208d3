SPECIFICATION ClusterSpec
CONSTANTS
  Node = {n1, n2}
  Contents <- MCContents
  StreamID = {"", "a", "b"}
  Global = {"b"}
  Group = {0, 1, 2}
  FP = {1, 2, 3}
  MinFlag = 2
  MaxGap = 1
  Interval = 1
SYMMETRY Symmetry
INVARIANTS
  MergeIgnoresOrder
  ClusterExposesNodeGroups
  ChurnOfFullUnions
  BaselineAge
