SPECIFICATION Spec
CONSTANTS
  i = i  j = j
  NoStep = NoStep
  NaN = NaN
  Names = {i, j}
  MaxDepth = 2
  WordMax <- MCWordMax
  Nests <- ContinueNests
INVARIANT CounterKeepsStep
