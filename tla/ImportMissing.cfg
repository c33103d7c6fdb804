SPECIFICATION Spec
CONSTANTS
  main = main  a = a  b = b  c = c
  Files = {main, a, b, c}
  MainFile = main
  ROOT = ROOT
  NoFile = NoFile
  Names = {"main", "a", "a.sa", "b", "c", "x"}
  Lookup <- MCLookup
  Programs <- MissingProgram
  StackLimit = 7
INVARIANT ErrorsAreCollected
