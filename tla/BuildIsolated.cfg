SPECIFICATION FairSpec
CONSTANTS
  p1 = p1  p2 = p2  a = a  b = b
  MainMod = main
  Procs = {p1, p2}
  Earlier = earlier
  Mods <- MCMods
  Stems <- MCStems
  Imports <- PrivateImports
  EmitIr <- PrivateEmitIr
  IrOut <- MCIrOut
  BinOut <- MCBinOut
  ModStem <- MCModStem
  TmpStem = "tmp_main"
  Left <- MCLeft
  Faults = {"main_ir", "import_ir", "clang", "kill"}
INVARIANTS TypeOK OwnBinary NoStrayBinary TempFilesRemoved EmittedIrKept
PROPERTY Termination
