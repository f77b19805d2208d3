SPECIFICATION Spec
CONSTANTS
  Names = {"a", "b"}
  Values = {"", "x"}
  NoValue = ""
  labelKeyword = "__label__"
  Alphabet <- MCAlphabet
  Streams <- KeyStreams
INVARIANT CombinationsSeparate
