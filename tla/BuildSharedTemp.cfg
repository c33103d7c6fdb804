SPECIFICATION Spec
CONSTANTS
  p1 = p1  p2 = p2  a = a  b = b
  MainMod = main
  Procs = {p1, p2}
  Earlier = earlier
  Mods <- MCMods
  Stems <- MCStems
  Imports <- PlainImports
  EmitIr <- PlainEmitIr
  IrOut <- MCIrOut
  BinOut <- MCBinOut
  ModStem <- MCModStem
  TmpStem = "tmp_main"
  Left <- MCNothingLeft
  Faults = {}
INVARIANT OwnBinary
