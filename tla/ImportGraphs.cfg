SPECIFICATION FairSpec
CONSTANTS
  main = main  a = a  b = b  c = c
  Files = {main, a, b, c}
  MainFile = main
  ROOT = ROOT
  NoFile = NoFile
  Names = {"main", "a", "a.sa", "b", "c", "x"}
  Lookup <- MCLookup
  Programs <- AllPrograms
  StackLimit = 7
INVARIANTS TypeOK DirectImportsVisible RedefinitionOnlyOfMain NoUncheckedCode
  MissingModuleReported OverflowOnlyOnCycles IrInOrder
PROPERTIES SoundProgramsCompile Termination
