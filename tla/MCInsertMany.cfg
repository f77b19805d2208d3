SPECIFICATION Spec
CONSTANTS
  Names = {"a", "b"}
  Values = {"", "x", "y"}
  NoValue = ""
  labelKeyword = "__label__"
  Alphabet <- MCAlphabet
  Streams <- MCStreams
INVARIANTS
  CombinationExact
  EachSeriesOnce
  LabelValuesExact
