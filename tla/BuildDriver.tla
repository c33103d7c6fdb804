------------------------------ MODULE BuildDriver ------------------------------
(***************************************************************************)
(* The compiler driver: main.c, cmd-exec.cpp, the error state of error.cpp *)
(* and the file output of codegen.cpp.  Each member of Procs is one        *)
(* invocation of the compiler; invocations run concurrently and share only *)
(* the file system.  The front end and the passes appear here by their     *)
(* verdicts (what they report, and whether they exit); what they compute   *)
(* is the subject of the other modules.                                    *)
(*                                                                         *)
(* A file is the set of translation units whose code it holds: <<p, m>> is *)
(* module m as compiled by invocation p, <<Earlier, m>> what some build    *)
(* before them made of a module m.  The empty set is no file at all.       *)
(* Nothing is known of the files that are there at the start: the IR of an *)
(* import is never unlinked, a failed build leaves object files and an old *)
(* executable, an interrupted one leaves anything.                         *)
(* clang++ and the linker are external programs: each is one atomic step   *)
(* that reads its inputs and writes its output, or fails.                  *)
(***************************************************************************)
EXTENDS Integers, Sequences

CONSTANTS
  Procs,     \* compiler invocations
  Earlier,   \* stands for all invocations that came before them
  Mods,      \* modules that can be imported
  MainMod,   \* stands for the program's own file
  Stems,     \* file names without their extension
  Imports,   \* Imports[p]: the modules codegen pushes on ir_out, in order
  EmitIr,    \* EmitIr[p]: was --emit-ir given
  IrOut,     \* IrOut[p]: the argument of --emit-ir
  BinOut,    \* BinOut[p]: the argument of -o
  ModStem,   \* ModStem[m]: "/tmp/suvarnam_" and m's path with / turned into _
  TmpStem,   \* "/tmp/temp_suvarnam_main"
  Left,      \* the file systems that earlier invocations may have left
  Faults     \* what the environment may do: a subset of FaultKinds

FaultKinds == {"main_ir", "import_ir", "clang", "kill"}

Paths == [stem : Stems, ext : {"ll", "o", ""}]
Units == Mods \cup {MainMod}
Absent == {}

\* Code of these invocations, and of earlier ones.
NewCode == Procs \X Units
OldCode == {Earlier} \X Units
Files == [Paths -> SUBSET (NewCode \cup OldCode)]

ASSUME DriverConstants ==
  /\ MainMod \notin Mods
  /\ Earlier \notin Procs
  /\ Imports \in [Procs -> Seq(Mods)]
  /\ EmitIr \in [Procs -> BOOLEAN]
  /\ IrOut \in [Procs -> Paths]
  /\ \A p \in Procs : IrOut[p].ext # "o"
  /\ BinOut \in [Procs -> Paths]
  /\ ModStem \in [Mods -> Stems]
  /\ TmpStem \in Stems
  /\ Left \subseteq [Paths -> SUBSET OldCode]
  /\ Faults \subseteq FaultKinds

VARIABLES
  pc,            \* where invocation p is
  n,             \* the import that the loops over ir_out are at
  isError,       \* error.cpp
  error_fatal,   \* error.cpp
  noModule,      \* an import of p names no loaded module
  success,       \* codegen printed its SUCCESS line
  status,        \* the value main returns, or exit() was given
  unwritten,     \* history: the imports of p whose IR file was not written
  fs             \* the file system

vars == <<pc, n, isError, error_fatal, noModule, success, status,
          unwritten, fs>>

Stopped == {"exited", "crashed", "killed"}
Steps == {"parse_arguments", "setup_input_file", "parse_file", "semantic_check",
          "HIRGen", "codegen", "emit_ir", "compile_main", "compile_import",
          "cleanup", "check_err"}

TypeOK ==
  /\ pc \in [Procs -> Steps \cup Stopped]
  /\ n \in [Procs -> Nat \ {0}]
  /\ isError \in [Procs -> BOOLEAN]
  /\ error_fatal \in [Procs -> BOOLEAN]
  /\ noModule \in [Procs -> BOOLEAN]
  /\ success \in [Procs -> BOOLEAN]
  /\ status \in [Procs -> {-1, 0, 1}]
  /\ unwritten \in [Procs -> SUBSET (Nat \ {0})]
  /\ fs \in Files

-----------------------------------------------------------------------------
(* Paths *)

main_ir_path(p) ==
  IF EmitIr[p] THEN IrOut[p] ELSE [stem |-> TmpStem, ext |-> "ll"]

mod_ir_path(m) == [stem |-> ModStem[m], ext |-> "ll"]

\* A trailing ".ll" is dropped and ".o" added: stem.ll and stem both become
\* stem.o.  (IR paths do not end in ".o": DriverConstants.)
make_object_path(ir) == [stem |-> ir.stem, ext |-> "o"]

\* The translation units of p: its own file and then its imports.
Unit(p, i) == IF i = 0 THEN MainMod ELSE Imports[p][i]
UnitIr(p, i) == IF i = 0 THEN main_ir_path(p) ELSE mod_ir_path(Imports[p][i])
object_path(p, i) == make_object_path(UnitIr(p, i))
UnitIndex(p) == 0 .. Len(Imports[p])

Code(p, i) == {<<p, Unit(p, i)>>}
OwnCode(p) == {<<p, Unit(p, i)>> : i \in UnitIndex(p)}

-----------------------------------------------------------------------------
(* Steps shared by the handlers *)

At(p, step) == pc[p] = step
Goto(p, step) == pc' = [pc EXCEPT ![p] = step]
Return(p, code) == status' = [status EXCEPT ![p] = code]
Set(v, p, b) == [v EXCEPT ![p] = b]

\* panic: the error is recorded; with error_fatal set the process exits at
\* once, otherwise the caller goes on.
panic(p, next) ==
  /\ isError' = Set(isError, p, TRUE)
  /\ IF error_fatal[p]
     THEN Goto(p, "exited") /\ Return(p, 1)
     ELSE Goto(p, next) /\ UNCHANGED status

Init ==
  /\ pc = [p \in Procs |-> "parse_arguments"]
  /\ n = [p \in Procs |-> 1]
  /\ isError = [p \in Procs |-> FALSE]
  /\ error_fatal = [p \in Procs |-> TRUE]
  /\ noModule = [p \in Procs |-> FALSE]
  /\ success = [p \in Procs |-> FALSE]
  /\ status = [p \in Procs |-> 0]
  /\ unwritten = [p \in Procs |-> {}]
  /\ fs \in Left

-----------------------------------------------------------------------------
(* main *)

\* A bad command line ends in syserr, which exits whatever error_fatal is.
parse_arguments(p) ==
  /\ At(p, "parse_arguments")
  /\ \/ Goto(p, "setup_input_file") /\ UNCHANGED <<isError, status>>
     \/ /\ isError' = Set(isError, p, TRUE)
        /\ Goto(p, "exited")
        /\ Return(p, 1)
  /\ UNCHANGED <<n, error_fatal, noModule, success, unwritten, fs>>

setup_input_file(p) ==
  /\ At(p, "setup_input_file")
  /\ \/ /\ Goto(p, "parse_file")
        /\ error_fatal' = Set(error_fatal, p, FALSE)
        /\ UNCHANGED status
     \/ /\ Goto(p, "exited")
        /\ Return(p, 1)
        /\ UNCHANGED error_fatal
  /\ UNCHANGED <<n, isError, noModule, success, unwritten, fs>>

\* The parser yields a tree; or no tree and no error, for a file without
\* statements; or errors, which are collected and skip compile_and_execute.
parse_file(p) ==
  /\ At(p, "parse_file")
  /\ \/ Goto(p, "semantic_check") /\ UNCHANGED <<isError, status>>
     \/ Goto(p, "check_err") /\ UNCHANGED <<isError, status>>
     \/ panic(p, "check_err")
  /\ UNCHANGED <<n, error_fatal, noModule, success, unwritten, fs>>

\* Mutant: the error count is the exit code.
check_err_exits_with_count(p) ==
  /\ At(p, "check_err")
  /\ Goto(p, "exited")
  /\ \E err_no \in 1..2 : Return(p, IF isError[p] THEN err_no ELSE status[p])
  /\ UNCHANGED <<n, isError, error_fatal, noModule, success, unwritten, fs>>

\* check_err exits with EXIT_FAILURE when an error was reported; otherwise main
\* returns the status of compile_and_execute.
check_err(p) ==
  /\ At(p, "check_err")
  /\ Goto(p, "exited")
  /\ Return(p, IF isError[p] THEN 1 ELSE status[p])
  /\ UNCHANGED <<n, isError, error_fatal, noModule, success, unwritten, fs>>

-----------------------------------------------------------------------------
(* compile_and_execute *)

\* Errors of the semantic pass are collected; one of them may be an import that
\* names no module.  error_fatal is set again afterwards.
semantic_check(p) ==
  /\ At(p, "semantic_check")
  /\ \/ UNCHANGED <<isError, noModule>>
     \/ /\ isError' = Set(isError, p, TRUE)
        /\ \E missing \in BOOLEAN :
             noModule' = Set(noModule, p, missing)
  /\ Goto(p, "HIRGen")
  /\ error_fatal' = Set(error_fatal, p, TRUE)
  /\ UNCHANGED <<n, success, status, unwritten, fs>>

\* Mutant: the isError test after HIR generation is gone.
HIRGen_no_error_test(p) ==
  /\ At(p, "HIRGen")
  /\ Goto(p, IF noModule[p] THEN "crashed" ELSE "codegen")
  /\ UNCHANGED <<n, isError, error_fatal, noModule, success, status, unwritten, fs>>

\* HIR generation runs before isError is looked at.  It dereferences the module
\* of every import, and a panic of its own is fatal.
HIRGen(p) ==
  /\ At(p, "HIRGen")
  /\ \/ panic(p, "codegen")
     \/ /\ noModule[p]
        /\ Goto(p, "crashed")
        /\ UNCHANGED <<isError, status>>
     \/ /\ ~noModule[p]
        /\ IF isError[p]
           THEN Goto(p, "check_err") /\ Return(p, -1)
           ELSE Goto(p, "codegen") /\ UNCHANGED status
        /\ UNCHANGED isError
  /\ UNCHANGED <<n, error_fatal, noModule, success, unwritten, fs>>

\* Mutant: an IR file that exists is taken for up to date.
codegen_import_if_absent(p) ==
  /\ At(p, "codegen")
  /\ n[p] <= Len(Imports[p])
  /\ fs' = IF fs[UnitIr(p, n[p])] = Absent
           THEN [fs EXCEPT ![UnitIr(p, n[p])] = Code(p, n[p])] ELSE fs
  /\ n' = [n EXCEPT ![p] = @ + 1]
  /\ UNCHANGED <<pc, isError, error_fatal, noModule, success, status, unwritten>>

\* codegen of an import.  Its result is not looked at: the path goes on ir_out
\* whether or not the file could be written; what was there before stays there.
\* A panic is fatal.
codegen_import(p) ==
  /\ At(p, "codegen")
  /\ n[p] <= Len(Imports[p])
  /\ \/ /\ fs' = [fs EXCEPT ![UnitIr(p, n[p])] = Code(p, n[p])]
        /\ n' = [n EXCEPT ![p] = @ + 1]
        /\ UNCHANGED <<pc, isError, status, unwritten>>
     \/ /\ "import_ir" \in Faults
        /\ n' = [n EXCEPT ![p] = @ + 1]
        /\ unwritten' = [unwritten EXCEPT ![p] = @ \cup {n[p]}]
        /\ UNCHANGED <<pc, isError, status, fs>>
     \/ /\ panic(p, "codegen")
        /\ UNCHANGED <<n, unwritten, fs>>
  /\ UNCHANGED <<error_fatal, noModule, success>>

\* codegen of the program itself, after its imports.  There may be no main
\* function, or the IR file may not open: codegen then returns EXIT_FAILURE.
codegen_main(p) ==
  /\ At(p, "codegen")
  /\ n[p] > Len(Imports[p])
  /\ \/ /\ fs' = [fs EXCEPT ![main_ir_path(p)] = Code(p, 0)]
        /\ success' = Set(success, p, TRUE)
        /\ n' = [n EXCEPT ![p] = 1]
        /\ Goto(p, IF EmitIr[p] THEN "emit_ir" ELSE "compile_main")
        /\ UNCHANGED <<isError, status>>
     \/ /\ Goto(p, "check_err")
        /\ Return(p, 1)
        /\ UNCHANGED <<n, isError, success, fs>>
     \/ /\ panic(p, "codegen")
        /\ UNCHANGED <<n, success, fs>>
  /\ UNCHANGED <<error_fatal, noModule, unwritten>>

\* With --emit-ir the text is written to the same file once more; a file that
\* does not open is passed over.
emit_ir(p) ==
  /\ At(p, "emit_ir")
  /\ \/ fs' = [fs EXCEPT ![IrOut[p]] = Code(p, 0)]
     \/ "main_ir" \in Faults /\ UNCHANGED fs
  /\ Goto(p, "compile_main")
  /\ UNCHANGED <<n, isError, error_fatal, noModule, success, status, unwritten>>

\* Mutant: the IR file is removed with --emit-ir too.
UnlinkMainIr_always(p) == [fs EXCEPT ![main_ir_path(p)] = Absent]

\* The files without the main IR file, which only --emit-ir keeps.
UnlinkMainIr(p) ==
  IF EmitIr[p] THEN fs ELSE [fs EXCEPT ![main_ir_path(p)] = Absent]

\* compile_ir_to_object: clang++ may fail, and does when its input is gone.
\* A failure removes the main IR file and returns 1; object files made so far
\* stay, and one from an earlier build that clang++ was to replace may.
compile_ir_to_object(p, i, next) ==
  \/ /\ fs[UnitIr(p, i)] # Absent
     /\ fs' = [fs EXCEPT ![object_path(p, i)] = fs[UnitIr(p, i)]]
     /\ Goto(p, next)
     /\ UNCHANGED status
  \/ /\ "clang" \in Faults \/ fs[UnitIr(p, i)] = Absent
     /\ fs' \in {UnlinkMainIr(p), [UnlinkMainIr(p) EXCEPT ![object_path(p, i)] = Absent]}
     /\ Goto(p, "check_err")
     /\ Return(p, 1)

compile_main(p) ==
  /\ At(p, "compile_main")
  /\ compile_ir_to_object(p, 0, "compile_import")
  /\ UNCHANGED <<n, isError, error_fatal, noModule, success, unwritten>>

compile_import(p) ==
  /\ At(p, "compile_import")
  /\ n[p] <= Len(Imports[p])
  /\ compile_ir_to_object(p, n[p], "compile_import")
  /\ n' = [n EXCEPT ![p] = IF pc'[p] = "check_err" THEN @ ELSE @ + 1]
  /\ UNCHANGED <<isError, error_fatal, noModule, success, unwritten>>

\* The linker needs every object file, and no module defined in two of them.
UnitsIn(file) == {c[2] : c \in fs[file]}
Linkable(p) ==
  /\ \A i \in UnitIndex(p) : fs[object_path(p, i)] # Absent
  /\ \A i, j \in UnitIndex(p) :
       i # j => UnitsIn(object_path(p, i)) \cap UnitsIn(object_path(p, j)) = {}

\* Mutant: the link waits for one object file too many.
link_waits(p) ==
  /\ At(p, "compile_import")
  /\ n[p] > Len(Imports[p]) + 1
  /\ Goto(p, "cleanup")
  /\ UNCHANGED <<n, isError, error_fatal, noModule, success, status, unwritten, fs>>

link(p) ==
  /\ At(p, "compile_import")
  /\ n[p] > Len(Imports[p])
  /\ \/ /\ Linkable(p)
        /\ fs' = [fs EXCEPT ![BinOut[p]] =
                    UNION {fs[object_path(p, i)] : i \in UnitIndex(p)}]
        /\ Return(p, 0)
     \/ /\ "clang" \in Faults \/ ~Linkable(p)
        /\ fs' \in {fs, [fs EXCEPT ![BinOut[p]] = Absent]}
        /\ Return(p, 1)
  /\ Goto(p, "cleanup")
  /\ UNCHANGED <<n, isError, error_fatal, noModule, success, unwritten>>

\* After the link, whatever it returned.
ObjectFiles(p) == {object_path(p, i) : i \in UnitIndex(p)}

\* Mutant: only the main object file is removed.
cleanup_main_only(p) ==
  /\ At(p, "cleanup")
  /\ fs' = [UnlinkMainIr(p) EXCEPT ![object_path(p, 0)] = Absent]
  /\ Goto(p, "check_err")
  /\ UNCHANGED <<n, isError, error_fatal, noModule, success, status, unwritten>>

cleanup(p) ==
  /\ At(p, "cleanup")
  /\ fs' = [f \in Paths |->
              IF f \in ObjectFiles(p) THEN Absent ELSE UnlinkMainIr(p)[f]]
  /\ Goto(p, "check_err")
  /\ UNCHANGED <<n, isError, error_fatal, noModule, success, status, unwritten>>

-----------------------------------------------------------------------------
(* The user may interrupt the compiler between any two steps. *)
interrupt(p) ==
  /\ "kill" \in Faults
  /\ pc[p] \notin Stopped
  /\ Goto(p, "killed")
  /\ UNCHANGED <<n, isError, error_fatal, noModule, success, status, unwritten, fs>>

Step(p) ==
  \/ parse_arguments(p) \/ setup_input_file(p) \/ parse_file(p)
  \/ semantic_check(p) \/ HIRGen(p) \/ codegen_import(p) \/ codegen_main(p)
  \/ emit_ir(p) \/ compile_main(p) \/ compile_import(p) \/ link(p)
  \/ cleanup(p) \/ check_err(p)

AllStopped == \A p \in Procs : pc[p] \in Stopped
Finished == AllStopped /\ UNCHANGED vars

Next == (\E p \in Procs : Step(p) \/ interrupt(p)) \/ Finished

Spec == Init /\ [][Next]_vars
\* The operating system schedules every process, and clang++ returns.
FairSpec == Spec /\ \A p \in Procs : WF_vars(Step(p))

-----------------------------------------------------------------------------
(* Properties *)

\* The files invocation p writes: its IR files, its object files, its binary.
FilesOf(p) ==
  {UnitIr(p, i) : i \in UnitIndex(p)} \cup ObjectFiles(p) \cup {BinOut[p]}

\* The -o path of an invocation is not used for anything else.
PrivateOutput ==
  \A p \in Procs :
    /\ BinOut[p] \notin {UnitIr(p, i) : i \in UnitIndex(p)} \cup ObjectFiles(p)
    /\ \A q \in Procs \ {p} : BinOut[p] \notin FilesOf(q)

\* No two invocations use the same file, and no invocation uses a file for two
\* purposes.  The command line can break every part of this; two compilations
\* without --emit-ir break it by themselves, since both use TmpStem.
PrivatePaths ==
  /\ PrivateOutput
  /\ \A p, q \in Procs : p # q => FilesOf(p) \cap FilesOf(q) = {}
  /\ \A p \in Procs : \A i, j \in UnitIndex(p) : i # j =>
       UnitIr(p, i) # UnitIr(p, j) /\ object_path(p, i) # object_path(p, j)

\* The units of p whose IR was written.
WrittenCode(p) == {<<p, Unit(p, i)>> : i \in UnitIndex(p) \ unwritten[p]}

\* An invocation that compiled a program and exits with 0 leaves, at its -o path,
\* an executable made of exactly its own main file and its own imports, whatever
\* earlier builds left in the files it uses (cmd-exec.cpp, compile_and_execute from
\* codegen to the end).  The one exception is an import whose IR file could not be
\* written (codegen.cpp:196, result not looked at): in its place, and nowhere else,
\* the executable has what an earlier build left under that name.
OwnBinary ==
  \A p \in Procs :
    At(p, "exited") /\ status[p] = 0 /\ success[p] =>
      /\ fs[BinOut[p]] \cap NewCode = WrittenCode(p)
      /\ unwritten[p] = {} => fs[BinOut[p]] = OwnCode(p)

\* No new executable appears for a program with a reported error, and an
\* invocation that fails leaves none: what is at its -o path then was there
\* before, or is gone.  The isError test after HIR generation and the returned
\* link_res together guard the -o path.
NoStrayBinary ==
  \A p \in Procs :
    fs[BinOut[p]] \cap NewCode # {} =>
      ~isError[p] /\ (At(p, "exited") => status[p] = 0)

\* An invocation that got through codegen and ran to its end has removed the
\* temporary main IR file on every path; its object files too, once it has tried
\* to link ("Clean up object files", cmd-exec.cpp:261).  An object file of an
\* earlier build may outlive a failure, but not a success.
TempFilesRemoved ==
  \A p \in Procs :
    At(p, "exited") /\ success[p] =>
      /\ ~EmitIr[p] => fs[main_ir_path(p)] = Absent
      /\ n[p] > Len(Imports[p]) => \A f \in ObjectFiles(p) : fs[f] \cap NewCode = {}
      /\ status[p] = 0 => \A f \in ObjectFiles(p) : fs[f] = Absent

\* What --emit-ir wrote is still there, and is the IR of this program, when the
\* compiler exits, whether clang++ and the linker succeeded or not.
EmittedIrKept ==
  \A p \in Procs :
    At(p, "exited") /\ EmitIr[p] /\ success[p] => fs[IrOut[p]] = Code(p, 0)

-----------------------------------------------------------------------------
(* The inductive invariants behind these properties *)

\* No error has been reported once code is generated, and panics are fatal.
ErrorState(p) ==
  /\ pc[p] \in {"HIRGen", "codegen"} => error_fatal[p]
  /\ pc[p] = "codegen" => ~isError[p]
  /\ success[p] => ~isError[p]

\* The SUCCESS line stands for being past codegen.
Building == {"emit_ir", "compile_main", "compile_import", "cleanup"}
SuccessState(p) ==
  /\ pc[p] = "emit_ir" => EmitIr[p]
  /\ pc[p] \in Building => success[p]
  /\ success[p] => pc[p] \in Building \cup {"check_err"} \cup Stopped

\* There is a new executable only after a link, and then the status is 0.
OutputState(p) ==
  fs[BinOut[p]] \cap NewCode # {} =>
    /\ success[p]
    /\ pc[p] \in {"cleanup", "check_err"} \cup Stopped
    /\ pc[p] \in {"cleanup", "check_err", "exited"} => status[p] = 0

\* What holds if only the -o paths are private.
OutputInv ==
  TypeOK /\ \A p \in Procs : ErrorState(p) /\ SuccessState(p) /\ OutputState(p)

\* Codegen has been through the IR file of unit i; the main one may have been
\* removed again.
Generated(p, i) ==
  IF i = 0
  THEN success[p] /\ (EmitIr[p] \/ pc[p] \in Building)
  ELSE success[p] \/ i < n[p]

\* The IR files codegen has been through are p's own, but for those it could not
\* write: these, and the later ones, are as earlier builds left them.
IrState(p) ==
  \A i \in UnitIndex(p) :
    /\ Generated(p, i) /\ i \notin unwritten[p] => fs[UnitIr(p, i)] = Code(p, i)
    /\ i # 0 /\ (~Generated(p, i) \/ i \in unwritten[p]) =>
         fs[UnitIr(p, i)] \cap NewCode = {}
    /\ i # 0 /\ i \in unwritten[p] => Generated(p, i)

\* Object files are made one after the other, each from its IR file; there is none
\* of p's before, and none when the link was tried.
ObjectState(p) ==
  /\ pc[p] \notin {"compile_import", "cleanup", "check_err"} \cup Stopped =>
       \A i \in UnitIndex(p) : fs[object_path(p, i)] \cap NewCode = {}
  /\ pc[p] \in {"emit_ir", "compile_main"} => n[p] = 1
  /\ pc[p] = "compile_import" =>
       \A i \in UnitIndex(p) : i < n[p] => fs[object_path(p, i)] = fs[UnitIr(p, i)]
  /\ success[p] /\ pc[p] \in {"check_err", "exited"} =>
       /\ ~EmitIr[p] => fs[main_ir_path(p)] = Absent
       /\ n[p] > Len(Imports[p]) =>
            \A i \in UnitIndex(p) : fs[object_path(p, i)] \cap NewCode = {}
       /\ status[p] = 0 => \A i \in UnitIndex(p) : fs[object_path(p, i)] = Absent

\* After a successful link the executable is made of the IR files' code.
BinaryState(p) ==
  success[p] /\ status[p] = 0 /\ pc[p] \in {"cleanup", "check_err", "exited"} =>
    /\ fs[BinOut[p]] \cap NewCode = WrittenCode(p)
    /\ unwritten[p] = {} => fs[BinOut[p]] = OwnCode(p)

FileState(p) == IrState(p) /\ ObjectState(p) /\ BinaryState(p)

DriverInv == OutputInv /\ \A p \in Procs : FileState(p)

\* Every invocation comes to an end.
Termination == \A p \in Procs : <>(pc[p] \in Stopped)

=============================================================================
