----------------------------- MODULE MCBuildDriver -----------------------------
(* Instances of BuildDriver for TLC. *)
EXTENDS BuildDriver

CONSTANTS p1, p2, a, b

\* Names of files: the temporary main IR, one IR file per module, the argument
\* of --emit-ir, and the two -o arguments.
MCMods == {a, b}
MCStems == {"tmp_main", "mod_a", "mod_b", "out", "bin1", "bin2"}
MCModStem == [m \in MCMods |-> IF m = a THEN "mod_a" ELSE "mod_b"]
MCIrOut == [p \in Procs |-> [stem |-> "out", ext |-> "ll"]]
MCBinOut ==
  [p \in Procs |-> [stem |-> IF p = p1 THEN "bin1" ELSE "bin2", ext |-> ""]]

\* What earlier builds may have left of the files that are used here: code of the
\* same modules, in any of these groups of files.  MCNothingLeft is a clean system.
OldContent(f) ==
  {<<Earlier, CASE f.stem = "mod_a" -> a [] f.stem = "mod_b" -> b
                [] OTHER -> MainMod>>}
MCGroups ==
  {{[stem |-> s, ext |-> "ll"]} : s \in {"tmp_main", "mod_a", "mod_b", "out"}}
  \cup {{MCBinOut[p]} : p \in Procs}
  \cup {{[stem |-> s, ext |-> "o"] : s \in {"tmp_main", "mod_a", "mod_b", "out"}}}
MCLeft ==
  {[f \in Paths |-> IF f \in UNION kept THEN OldContent(f) ELSE Absent] :
     kept \in SUBSET MCGroups}
MCNothingLeft == {[f \in Paths |-> Absent]}

\* p1 has two imports, p2 none; p2 was given --emit-ir.
PrivateImports == [p \in Procs |-> IF p = p1 THEN <<a, b>> ELSE << >>]
PrivateEmitIr == [p \in Procs |-> p # p1]

\* Neither has imports or --emit-ir.
PlainImports == [p \in Procs |-> << >>]
PlainEmitIr == [p \in Procs |-> FALSE]

=============================================================================
