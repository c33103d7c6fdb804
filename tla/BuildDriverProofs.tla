--------------------------- MODULE BuildDriverProofs ---------------------------
(***************************************************************************)
(* Concurrent invocations whose files are private build correctly, whatever *)
(* fails and whatever earlier builds have left in these files: for any      *)
(* number of invocations, imports and paths.                                *)
(***************************************************************************)
EXTENDS BuildDriver, TLAPS

-----------------------------------------------------------------------------
(* Facts about paths *)

\* Every file the driver names is a path.
LEMMA PathTypes ==
  ASSUME NEW p \in Procs
  PROVE  /\ BinOut[p] \in Paths
         /\ main_ir_path(p) \in Paths
         /\ UnitIr(p, 0) = main_ir_path(p)
         /\ 0 \in UnitIndex(p)
         /\ Len(Imports[p]) \in Nat
         /\ UnitIndex(p) = 0 .. Len(Imports[p])
         /\ \A i \in UnitIndex(p) : /\ UnitIr(p, i) \in Paths
                                    /\ object_path(p, i) \in Paths
                                    /\ Unit(p, i) \in Units
<1>0. /\ Imports[p] \in Seq(Mods)
      /\ IrOut[p] \in Paths
      /\ BinOut[p] \in Paths
      /\ EmitIr[p] \in BOOLEAN
  BY DriverConstants
<1>1. Len(Imports[p]) \in Nat
  BY <1>0
<1>2. main_ir_path(p) \in Paths
  BY <1>0, DriverConstants DEF main_ir_path, Paths
<1>3. ASSUME NEW i \in UnitIndex(p)
      PROVE  UnitIr(p, i) \in Paths /\ Unit(p, i) \in Units
  <2>1. CASE i = 0
    BY <2>1, <1>2 DEF UnitIr, Unit, Units
  <2>2. CASE i # 0
    <3>1. i \in 1 .. Len(Imports[p])
      BY <2>2, <1>1 DEF UnitIndex
    <3>2. Imports[p][i] \in Mods
      BY <3>1, <1>0
    <3>3. ModStem[Imports[p][i]] \in Stems
      BY <3>2, DriverConstants
    <3>4. QED
      BY <2>2, <3>2, <3>3 DEF UnitIr, Unit, Units, mod_ir_path, Paths
  <2>3. QED
    BY <2>1, <2>2
<1>4. ASSUME NEW i \in UnitIndex(p)
      PROVE  object_path(p, i) \in Paths
  BY <1>3 DEF object_path, make_object_path, Paths
<1>5. QED
  BY <1>0, <1>1, <1>2, <1>3, <1>4 DEF UnitIr, UnitIndex

\* An IR file is never an object file: make_object_path changes the extension.
LEMMA IrNotObject ==
  ASSUME NEW p \in Procs, NEW i \in UnitIndex(p), NEW j \in UnitIndex(p)
  PROVE  UnitIr(p, i) # object_path(p, j)
<1>1. object_path(p, j).ext = "o"
  BY DEF object_path, make_object_path
<1>2. UnitIr(p, i).ext # "o"
  BY DriverConstants DEF UnitIr, main_ir_path, mod_ir_path
<1>3. QED
  BY <1>1, <1>2

\* With private paths, the files of one invocation are pairwise distinct.
LEMMA OwnPathsDistinct ==
  ASSUME PrivatePaths, NEW p \in Procs
  PROVE  /\ \A i \in UnitIndex(p) : /\ BinOut[p] # UnitIr(p, i)
                                    /\ BinOut[p] # object_path(p, i)
         /\ \A i, j \in UnitIndex(p) :
              /\ UnitIr(p, i) # object_path(p, j)
              /\ i # j => /\ UnitIr(p, i) # UnitIr(p, j)
                          /\ object_path(p, i) # object_path(p, j)
  BY IrNotObject DEF PrivatePaths, PrivateOutput, ObjectFiles

\* Code of these invocations is not code of earlier ones.
LEMMA OldIsNotNew == OldCode \cap NewCode = {}
  BY DriverConstants DEF OldCode, NewCode

-----------------------------------------------------------------------------
(* Type correctness, for any paths *)

LEMMA CodeTypes ==
  ASSUME NEW p \in Procs
  PROVE  /\ \A i \in UnitIndex(p) : Code(p, i) \in SUBSET (NewCode \cup OldCode)
         /\ \A k \in Nat \ {0} : k <= Len(Imports[p]) => k \in UnitIndex(p)
  BY PathTypes DEF Code, NewCode

LEMMA WriteTypes ==
  ASSUME NEW g \in Files, NEW f \in Paths, NEW c \in SUBSET (NewCode \cup OldCode)
  PROVE  [g EXCEPT ![f] = c] \in Files /\ [g EXCEPT ![f] = Absent] \in Files
  BY DEF Files, Absent

LEMMA UnlinkTypes ==
  ASSUME TypeOK, NEW p \in Procs
  PROVE  UnlinkMainIr(p) \in Files
  BY PathTypes DEF TypeOK, UnlinkMainIr, Files, Absent

\* panic keeps the control variables in their types.
LEMMA PanicTypes ==
  ASSUME TypeOK, NEW p \in Procs, NEW next \in Steps, panic(p, next)
  PROVE  /\ pc' \in [Procs -> Steps \cup Stopped]
         /\ isError' \in [Procs -> BOOLEAN]
         /\ status' \in [Procs -> {-1, 0, 1}]
  BY DEF TypeOK, panic, Goto, Return, Set, Steps, Stopped

LEMMA CompileTypes ==
  ASSUME TypeOK, NEW p \in Procs, NEW i \in UnitIndex(p), NEW next \in Steps,
         compile_ir_to_object(p, i, next)
  PROVE  /\ pc' \in [Procs -> Steps \cup Stopped]
         /\ status' \in [Procs -> {-1, 0, 1}]
         /\ fs' \in Files
<1>1. UnitIr(p, i) \in Paths /\ object_path(p, i) \in Paths
  BY PathTypes
<1>2. pc' \in [Procs -> Steps \cup Stopped] /\ status' \in [Procs -> {-1, 0, 1}]
  BY DEF TypeOK, compile_ir_to_object, Goto, Return, Steps, Stopped
<1>3. [fs EXCEPT ![object_path(p, i)] = fs[UnitIr(p, i)]] \in Files
  BY <1>1 DEF TypeOK, Files
<1>4. [UnlinkMainIr(p) EXCEPT ![object_path(p, i)] = Absent] \in Files
  BY <1>1, UnlinkTypes DEF Files, Absent
<1>4a. fs' \in Files
  BY <1>3, <1>4, UnlinkTypes DEF compile_ir_to_object
<1>5. QED
  BY <1>2, <1>4a

LEMMA TypeStep ==
  ASSUME TypeOK, [Next]_vars
  PROVE  TypeOK'
<1> USE DEF TypeOK, At, Goto, Return, Set, Steps, Stopped
<1>1. ASSUME NEW p \in Procs, parse_arguments(p) PROVE TypeOK'
  BY <1>1 DEF parse_arguments
<1>2. ASSUME NEW p \in Procs, setup_input_file(p) PROVE TypeOK'
  BY <1>2 DEF setup_input_file
<1>3. ASSUME NEW p \in Procs, parse_file(p) PROVE TypeOK'
  BY <1>3, PanicTypes DEF parse_file
<1>4. ASSUME NEW p \in Procs, semantic_check(p) PROVE TypeOK'
  BY <1>4 DEF semantic_check
<1>5. ASSUME NEW p \in Procs, HIRGen(p) PROVE TypeOK'
  BY <1>5, PanicTypes DEF HIRGen
<1>6. ASSUME NEW p \in Procs, codegen_import(p) PROVE TypeOK'
  <2>1. n[p] \in UnitIndex(p)
    BY <1>6, CodeTypes DEF codegen_import
  <2>2. UnitIr(p, n[p]) \in Paths /\ Code(p, n[p]) \in SUBSET (NewCode \cup OldCode)
    BY <2>1, PathTypes, CodeTypes
  <2>3. [fs EXCEPT ![UnitIr(p, n[p])] = Code(p, n[p])] \in Files
    BY <2>2, WriteTypes
  <2>4. fs' \in Files
    BY <1>6, <2>3 DEF codegen_import
  <2>5. n' \in [Procs -> Nat \ {0}] /\ unwritten' \in [Procs -> SUBSET (Nat \ {0})]
    BY <1>6 DEF codegen_import
  <2>6. QED
    BY <1>6, <2>4, <2>5, PanicTypes DEF codegen_import
<1>7. ASSUME NEW p \in Procs, codegen_main(p) PROVE TypeOK'
  <2>1. main_ir_path(p) \in Paths /\ Code(p, 0) \in SUBSET (NewCode \cup OldCode)
    BY PathTypes, CodeTypes
  <2>2. [fs EXCEPT ![main_ir_path(p)] = Code(p, 0)] \in Files
    BY <2>1, WriteTypes
  <2>3. fs' \in Files
    BY <1>7, <2>2 DEF codegen_main
  <2>4. /\ pc' \in [Procs -> Steps \cup Stopped]
        /\ isError' \in [Procs -> BOOLEAN]
        /\ status' \in [Procs -> {-1, 0, 1}]
    <3>1. CASE panic(p, "codegen")
      BY <3>1, PanicTypes
    <3>2. CASE ~panic(p, "codegen")
      <4>1. pc' = [pc EXCEPT ![p] = "emit_ir"] \/ pc' = [pc EXCEPT ![p] = "compile_main"]
              \/ pc' = [pc EXCEPT ![p] = "check_err"]
        BY <1>7, <3>2 DEF codegen_main
      <4>2. isError' = isError /\ (status' = status \/ status' = [status EXCEPT ![p] = 1])
        BY <1>7, <3>2 DEF codegen_main
      <4>3. QED
        BY <4>1, <4>2
    <3>3. QED
      BY <3>1, <3>2
  <2>5. success' \in [Procs -> BOOLEAN] /\ n' \in [Procs -> Nat \ {0}]
    <3>1. success' = success \/ success' = [success EXCEPT ![p] = TRUE]
      BY <1>7 DEF codegen_main
    <3>2. n' = n \/ n' = [n EXCEPT ![p] = 1]
      BY <1>7 DEF codegen_main
    <3>3. success' \in [Procs -> BOOLEAN]
      BY <3>1
    <3>4. n' \in [Procs -> Nat \ {0}]
      BY <3>2
    <3>5. QED
      BY <3>3, <3>4
  <2>6. QED
    BY <1>7, <2>3, <2>4, <2>5 DEF codegen_main
<1>8. ASSUME NEW p \in Procs, emit_ir(p) PROVE TypeOK'
  <2>1. IrOut[p] \in Paths /\ Code(p, 0) \in SUBSET (NewCode \cup OldCode)
    BY PathTypes, CodeTypes, DriverConstants
  <2>2. QED
    <3>1. [fs EXCEPT ![IrOut[p]] = Code(p, 0)] \in Files
      BY <2>1, WriteTypes
    <3>2. QED
      BY <1>8, <3>1 DEF emit_ir
<1>9. ASSUME NEW p \in Procs, compile_main(p) PROVE TypeOK'
  <2>1. 0 \in UnitIndex(p)
    BY PathTypes
  <2>2. QED
    BY <1>9, <2>1, CompileTypes DEF compile_main
<1>10. ASSUME NEW p \in Procs, compile_import(p) PROVE TypeOK'
  <2>1. n[p] \in UnitIndex(p)
    BY <1>10, CodeTypes DEF compile_import
  <2>2. n' \in [Procs -> Nat \ {0}]
    BY <1>10 DEF compile_import
  <2>3. QED
    BY <1>10, <2>1, <2>2, CompileTypes DEF compile_import
<1>11. ASSUME NEW p \in Procs, link(p) PROVE TypeOK'
  <2>1. UNION {fs[object_path(p, i)] : i \in UnitIndex(p)} \in SUBSET (NewCode \cup OldCode)
    BY PathTypes DEF Files
  <2>2. fs' \in Files
    <3>1. BinOut[p] \in Paths
      BY PathTypes
    <3>2. /\ [fs EXCEPT ![BinOut[p]] = UNION {fs[object_path(p, i)] : i \in UnitIndex(p)}]
               \in Files
          /\ [fs EXCEPT ![BinOut[p]] = Absent] \in Files
      BY <2>1, <3>1, WriteTypes
    <3>3. QED
      BY <1>11, <3>2 DEF link
  <2>3. QED
    BY <1>11, <2>2 DEF link
<1>12. ASSUME NEW p \in Procs, cleanup(p) PROVE TypeOK'
  <2>1. fs' \in Files
    BY <1>12, UnlinkTypes DEF cleanup, Files, Absent
  <2>2. QED
    BY <1>12, <2>1 DEF cleanup
<1>13. ASSUME NEW p \in Procs, check_err(p) PROVE TypeOK'
  BY <1>13 DEF check_err
<1>14. ASSUME NEW p \in Procs, interrupt(p) PROVE TypeOK'
  BY <1>14 DEF interrupt
<1>15. CASE UNCHANGED vars
  BY <1>15 DEF vars
<1>16. QED
  BY <1>1, <1>2, <1>3, <1>4, <1>5, <1>6, <1>7, <1>8, <1>9, <1>10, <1>11, <1>12,
     <1>13, <1>14, <1>15 DEF Next, Step, Finished

\* Every variable keeps its type, whatever paths the command lines name.
THEOREM TypeCorrect == Spec => []TypeOK
<1>1. Init => TypeOK
  BY DriverConstants DEF Init, TypeOK, Steps, Stopped, Files
<1>2. TypeOK /\ [Next]_vars => TypeOK'
  BY TypeStep
<1>3. QED
  BY <1>1, <1>2, PTL DEF Spec

-----------------------------------------------------------------------------
(* What a step of p leaves alone *)

\* A step of p changes no file that is not p's and no other invocation's state.
StepOf(p) ==
  /\ \A f \in Paths \ FilesOf(p) : fs'[f] = fs[f]
  /\ \A q \in Procs \ {p} :
       /\ pc'[q] = pc[q]
       /\ n'[q] = n[q]
       /\ isError'[q] = isError[q]
       /\ error_fatal'[q] = error_fatal[q]
       /\ success'[q] = success[q]
       /\ status'[q] = status[q]
       /\ unwritten'[q] = unwritten[q]

LEMMA FilesOfFacts ==
  ASSUME NEW p \in Procs
  PROVE  /\ BinOut[p] \in FilesOf(p)
         /\ main_ir_path(p) \in FilesOf(p)
         /\ \A i \in UnitIndex(p) : UnitIr(p, i) \in FilesOf(p) /\ object_path(p, i) \in FilesOf(p)
  BY PathTypes DEF FilesOf, ObjectFiles

LEMMA StepFrame ==
  ASSUME TypeOK, NEW p \in Procs, SuccessState(p), Step(p) \/ interrupt(p)
  PROVE  StepOf(p)
<1> USE DEF At, Goto, Return, Set, panic
<1>1. CASE \/ parse_arguments(p) \/ setup_input_file(p) \/ parse_file(p)
           \/ semantic_check(p) \/ HIRGen(p) \/ check_err(p) \/ interrupt(p)
  BY <1>1 DEF StepOf, TypeOK, parse_arguments, setup_input_file, parse_file,
         semantic_check, HIRGen, check_err, interrupt
<1>2. CASE codegen_import(p)
  <2>1. n[p] \in UnitIndex(p)
    BY <1>2, CodeTypes DEF codegen_import, TypeOK
  <2>2. \A f \in Paths \ FilesOf(p) : fs'[f] = fs[f]
    BY <1>2, <2>1, FilesOfFacts DEF codegen_import, TypeOK, Files
  <2>3. QED
    BY <1>2, <2>2 DEF StepOf, codegen_import, TypeOK
<1>3. CASE codegen_main(p)
  <2>1. \A f \in Paths \ FilesOf(p) : fs'[f] = fs[f]
    BY <1>3, FilesOfFacts DEF codegen_main, TypeOK, Files
  <2>2. QED
    BY <1>3, <2>1 DEF StepOf, codegen_main, TypeOK
<1>4. CASE emit_ir(p)
  <2>1. IrOut[p] = main_ir_path(p)
    BY <1>4 DEF emit_ir, SuccessState, main_ir_path
  <2>2. \A f \in Paths \ FilesOf(p) : fs'[f] = fs[f]
    BY <1>4, <2>1, FilesOfFacts DEF emit_ir, TypeOK, Files
  <2>3. QED
    BY <1>4, <2>2 DEF StepOf, emit_ir, TypeOK
<1>5. ASSUME NEW i \in UnitIndex(p), compile_ir_to_object(p, i, "compile_import")
      PROVE  /\ \A f \in Paths \ FilesOf(p) : fs'[f] = fs[f]
             /\ \A q \in Procs \ {p} : pc'[q] = pc[q] /\ status'[q] = status[q]
  <2>1. \A f \in Paths \ FilesOf(p) : fs'[f] = fs[f]
    BY <1>5, FilesOfFacts DEF compile_ir_to_object, UnlinkMainIr, TypeOK, Files
  <2>2. QED
    BY <1>5, <2>1 DEF compile_ir_to_object, TypeOK
<1>6. CASE compile_main(p)
  BY <1>5, <1>6, PathTypes DEF StepOf, compile_main, TypeOK
<1>7. CASE compile_import(p)
  <2>1. n[p] \in UnitIndex(p)
    BY <1>7, CodeTypes DEF compile_import, TypeOK
  <2>2. \A q \in Procs \ {p} : n'[q] = n[q]
    BY <1>7 DEF compile_import, TypeOK
  <2>3. QED
    BY <1>5, <1>7, <2>1, <2>2 DEF StepOf, compile_import
<1>8. CASE link(p)
  <2>1. \A f \in Paths \ FilesOf(p) : fs'[f] = fs[f]
    BY <1>8, FilesOfFacts DEF link, TypeOK, Files
  <2>2. QED
    BY <1>8, <2>1 DEF StepOf, link, TypeOK
<1>9. CASE cleanup(p)
  <2>1. \A f \in Paths \ FilesOf(p) : fs'[f] = fs[f]
    BY <1>9, FilesOfFacts DEF cleanup, UnlinkMainIr, FilesOf, TypeOK, Files
  <2>2. QED
    BY <1>9, <2>1 DEF StepOf, cleanup, TypeOK
<1>10. QED
  BY <1>1, <1>2, <1>3, <1>4, <1>6, <1>7, <1>8, <1>9 DEF Step

-----------------------------------------------------------------------------
(* Errors, the SUCCESS line and the -o path, if only the -o paths are private *)

\* Errors and the SUCCESS line are the business of one invocation.
LEMMA ControlStep ==
  ASSUME TypeOK, NEW p \in Procs, ErrorState(p), SuccessState(p), Step(p) \/ interrupt(p)
  PROVE  ErrorState(p)' /\ SuccessState(p)'
<1> USE DEF At, Goto, Return, Set, panic, Building, Stopped
<1>1. CASE \/ parse_arguments(p) \/ setup_input_file(p) \/ parse_file(p)
           \/ semantic_check(p) \/ HIRGen(p)
  <2>1. ~success[p] /\ success' = success
    BY <1>1 DEF SuccessState, parse_arguments, setup_input_file, parse_file,
                semantic_check, HIRGen
  <2>2. pc'[p] \in {"setup_input_file", "parse_file", "semantic_check", "HIRGen",
                    "codegen", "check_err", "exited", "crashed"}
    BY <1>1 DEF parse_arguments, setup_input_file, parse_file, semantic_check, HIRGen,
                TypeOK
  <2>3. /\ pc'[p] = "HIRGen" => error_fatal'[p]
        /\ pc'[p] = "codegen" => error_fatal'[p] /\ ~isError'[p]
    BY <1>1 DEF parse_arguments, setup_input_file, parse_file, semantic_check, HIRGen,
                TypeOK, ErrorState
  <2>4. QED
    BY <2>1, <2>2, <2>3 DEF ErrorState, SuccessState
<1>2. CASE codegen_import(p)
  <2>1. pc[p] = "codegen" /\ ~success[p] /\ error_fatal[p] /\ ~isError[p]
    BY <1>2 DEF codegen_import, SuccessState, ErrorState
  <2>2. UNCHANGED <<success, error_fatal>>
    BY <1>2 DEF codegen_import
  <2>3. (pc'[p] = "codegen" /\ isError' = isError) \/ pc'[p] = "exited"
    BY <1>2, <2>1 DEF codegen_import, TypeOK
  <2>4. QED
    BY <2>1, <2>2, <2>3 DEF ErrorState, SuccessState
<1>3. CASE codegen_main(p)
  <2>1. pc[p] = "codegen" /\ ~success[p] /\ error_fatal[p] /\ ~isError[p]
    BY <1>3 DEF codegen_main, SuccessState, ErrorState
  <2>2. UNCHANGED error_fatal
    BY <1>3 DEF codegen_main
  <2>3. \/ /\ pc'[p] = IF EmitIr[p] THEN "emit_ir" ELSE "compile_main"
           /\ success'[p] /\ isError' = isError
        \/ success' = success /\ pc'[p] \in {"check_err", "exited"}
    BY <1>3, <2>1 DEF codegen_main, TypeOK
  <2>4. QED
    BY <2>1, <2>2, <2>3 DEF ErrorState, SuccessState
<1>4. CASE emit_ir(p) \/ compile_main(p) \/ compile_import(p) \/ link(p) \/ cleanup(p)
  <2>1. success[p] /\ ~isError[p]
    BY <1>4 DEF emit_ir, compile_main, compile_import, link, cleanup, SuccessState, ErrorState
  <2>2. UNCHANGED <<success, isError>>
    BY <1>4 DEF emit_ir, compile_main, compile_import, link, cleanup
  <2>3. pc'[p] \in {"compile_main", "compile_import", "cleanup", "check_err"}
    BY <1>4 DEF emit_ir, compile_main, compile_import, compile_ir_to_object, link, cleanup,
                TypeOK
  <2>4. QED
    BY <2>1, <2>2, <2>3 DEF ErrorState, SuccessState
<1>5. CASE check_err(p) \/ interrupt(p)
  <2>1. UNCHANGED <<success, isError, error_fatal>> /\ pc'[p] \in {"exited", "killed"}
    BY <1>5 DEF check_err, interrupt, TypeOK
  <2>2. QED
    BY <2>1 DEF ErrorState, SuccessState
<1>6. QED
  BY <1>1, <1>2, <1>3, <1>4, <1>5 DEF Step

\* Only the link writes the -o path, and only then is there a new executable.
LEMMA OutputStep ==
  ASSUME TypeOK, PrivateOutput, NEW p \in Procs, ErrorState(p), SuccessState(p),
         OutputState(p), Step(p) \/ interrupt(p)
  PROVE  OutputState(p)'
<1> USE DEF At, Goto, Return, Set, panic, Building, Stopped
<1> DEFINE bin == BinOut[p]
<1>1. /\ bin \in Paths
      /\ \A i \in UnitIndex(p) : bin # UnitIr(p, i) /\ bin # object_path(p, i)
      /\ bin # main_ir_path(p)
  BY PathTypes DEF PrivateOutput, ObjectFiles
<1>2. CASE \/ parse_arguments(p) \/ setup_input_file(p) \/ parse_file(p)
           \/ semantic_check(p) \/ HIRGen(p) \/ codegen_import(p) \/ codegen_main(p)
           \/ emit_ir(p) \/ compile_main(p) \/ compile_import(p)
  <2>1. pc[p] \notin {"cleanup", "check_err"} \cup Stopped
    BY <1>2 DEF parse_arguments, setup_input_file, parse_file, semantic_check, HIRGen,
                codegen_import, codegen_main, emit_ir, compile_main, compile_import
  <2>2. fs[bin] \cap NewCode = {}
    BY <2>1 DEF OutputState
  <2>3. fs'[bin] = fs[bin]
    <3>1. CASE codegen_import(p)
      <4>1. n[p] \in UnitIndex(p)
        BY <3>1, CodeTypes DEF codegen_import, TypeOK
      <4>2. QED
        BY <1>1, <3>1, <4>1 DEF codegen_import, TypeOK, Files
    <3>2. CASE codegen_main(p)
      BY <1>1, <3>2 DEF codegen_main, TypeOK, Files
    <3>3. CASE emit_ir(p)
      <4>1. IrOut[p] = main_ir_path(p)
        BY <3>3 DEF emit_ir, SuccessState, main_ir_path
      <4>2. QED
        BY <1>1, <3>3, <4>1 DEF emit_ir, TypeOK, Files
    <3>4. ASSUME NEW i \in UnitIndex(p), compile_ir_to_object(p, i, "compile_import")
          PROVE  fs'[bin] = fs[bin]
      BY <1>1, <3>4 DEF compile_ir_to_object, UnlinkMainIr, TypeOK, Files
    <3>5. CASE compile_main(p)
      BY <3>4, <3>5, PathTypes DEF compile_main
    <3>6. CASE compile_import(p)
      <4>1. n[p] \in UnitIndex(p)
        BY <3>6, CodeTypes DEF compile_import, TypeOK
      <4>2. QED
        BY <3>4, <3>6, <4>1 DEF compile_import
    <3>7. CASE \/ parse_arguments(p) \/ setup_input_file(p) \/ parse_file(p)
               \/ semantic_check(p) \/ HIRGen(p)
      BY <3>7 DEF parse_arguments, setup_input_file, parse_file, semantic_check, HIRGen
    <3>8. QED
      BY <1>2, <3>1, <3>2, <3>3, <3>5, <3>6, <3>7
  <2>4. QED
    BY <2>2, <2>3 DEF OutputState
<1>3. CASE link(p)
  <2>1. success[p] /\ success' = success /\ pc'[p] = "cleanup" /\ fs[bin] \cap NewCode = {}
    BY <1>3 DEF link, SuccessState, OutputState, TypeOK
  <2>2. status'[p] = 0 \/ fs'[bin] = fs[bin] \/ fs'[bin] = Absent
    BY <1>1, <1>3 DEF link, TypeOK, Files
  <2>3. QED
    BY <2>1, <2>2 DEF OutputState, Absent
<1>4. CASE cleanup(p)
  <2>1. fs'[bin] = fs[bin]
    BY <1>1, <1>4 DEF cleanup, UnlinkMainIr, ObjectFiles, TypeOK, Files
  <2>2. UNCHANGED <<success, status>> /\ pc[p] = "cleanup" /\ pc'[p] = "check_err"
    BY <1>4 DEF cleanup, TypeOK
  <2>3. QED
    BY <2>1, <2>2 DEF OutputState
<1>5. CASE check_err(p) \/ interrupt(p)
  <2>1. UNCHANGED <<fs, success>>
    BY <1>5 DEF check_err, interrupt
  <2>2. CASE check_err(p)
    <3>1. pc[p] = "check_err" /\ pc'[p] = "exited" /\ (~isError[p] => status'[p] = status[p])
      BY <2>2 DEF check_err, TypeOK
    <3>2. QED
      BY <2>1, <3>1 DEF OutputState, ErrorState
  <2>3. CASE interrupt(p)
    <3>1. pc[p] \notin Stopped /\ pc'[p] = "killed"
      BY <2>3 DEF interrupt, TypeOK
    <3>2. QED
      BY <2>1, <3>1 DEF OutputState
  <2>4. QED
    BY <1>5, <2>2, <2>3
<1>6. QED
  BY <1>2, <1>3, <1>4, <1>5 DEF Step

LEMMA OutputInit ==
  ASSUME Init
  PROVE  OutputInv
<1>1. TypeOK
  BY DriverConstants DEF Init, TypeOK, Steps, Stopped, Files
<1>2. ASSUME NEW p \in Procs PROVE ErrorState(p) /\ SuccessState(p) /\ OutputState(p)
  <2>1. pc[p] = "parse_arguments" /\ ~success[p]
    BY DEF Init
  <2>2. fs[BinOut[p]] \subseteq OldCode
    BY PathTypes, DriverConstants DEF Init
  <2>3. fs[BinOut[p]] \cap NewCode = {}
    BY <2>2, OldIsNotNew
  <2>4. QED
    BY <2>1, <2>3 DEF ErrorState, SuccessState, OutputState, Building
<1>3. QED
  BY <1>1, <1>2 DEF OutputInv

LEMMA OutputInvStep ==
  ASSUME PrivateOutput, OutputInv, [Next]_vars
  PROVE  OutputInv'
<1>1. TypeOK'
  BY TypeStep DEF OutputInv
<1>2. CASE UNCHANGED vars
  <2>1. ASSUME NEW p \in Procs PROVE (ErrorState(p) /\ SuccessState(p) /\ OutputState(p))'
    BY <1>2 DEF OutputInv, ErrorState, SuccessState, OutputState, vars
  <2>2. QED
    BY <1>1, <2>1 DEF OutputInv
<1>3. ASSUME NEW p \in Procs, Step(p) \/ interrupt(p)
      PROVE  OutputInv'
  <2>1. StepOf(p)
    BY <1>3, StepFrame DEF OutputInv
  <2>2. (ErrorState(p) /\ SuccessState(p) /\ OutputState(p))'
    BY <1>3, ControlStep, OutputStep DEF OutputInv
  <2>3. ASSUME NEW q \in Procs, q # p
        PROVE  (ErrorState(q) /\ SuccessState(q) /\ OutputState(q))'
    <3>1. /\ pc'[q] = pc[q] /\ isError'[q] = isError[q] /\ error_fatal'[q] = error_fatal[q]
          /\ success'[q] = success[q] /\ status'[q] = status[q]
      BY <2>1, <2>3 DEF StepOf
    <3>2. fs'[BinOut[q]] = fs[BinOut[q]]
      BY <2>1, <2>3, PathTypes DEF StepOf, PrivateOutput
    <3>3. QED
      BY <3>1, <3>2, <2>3 DEF OutputInv, ErrorState, SuccessState, OutputState
  <2>4. QED
    BY <1>1, <2>2, <2>3 DEF OutputInv
<1>4. QED
  BY <1>2, <1>3 DEF Next, Finished

\* If -o paths are private, and whatever else is shared or left over: no new
\* executable exists for a program with errors or for an invocation that failed
\* (the isError test and link_res).
THEOREM NoBinaryOnFailure ==
  ASSUME PrivateOutput
  PROVE  Spec => []NoStrayBinary
<1>1. Init => OutputInv
  BY OutputInit
<1>2. OutputInv /\ [Next]_vars => OutputInv'
  BY OutputInvStep
<1>3. OutputInv => NoStrayBinary
  BY DEF OutputInv, OutputState, ErrorState, NoStrayBinary, At
<1>4. QED
  BY <1>1, <1>2, <1>3, PTL DEF Spec

-----------------------------------------------------------------------------
(* What the files hold, if all paths are private *)

\* The control part of the invariant, and what it says of unit 0.
LEMMA ControlFacts ==
  ASSUME OutputInv, NEW p \in Procs
  PROVE  /\ TypeOK /\ ErrorState(p) /\ SuccessState(p) /\ OutputState(p)
         /\ 0 \notin unwritten[p]
         /\ n[p] \in Nat \ {0}
         /\ fs \in Files
  BY DEF OutputInv, TypeOK

\* The files of p are p's to change: what others do leaves them alone.
LEMMA FileFrame ==
  ASSUME PrivatePaths, NEW p \in Procs, NEW q \in Procs, q # p,
         StepOf(p), FileState(q)
  PROVE  FileState(q)'
<1>1. /\ pc'[q] = pc[q]
      /\ n'[q] = n[q]
      /\ success'[q] = success[q]
      /\ status'[q] = status[q]
      /\ unwritten'[q] = unwritten[q]
  BY DEF StepOf
<1>2. \A f \in FilesOf(q) : f \in Paths => fs'[f] = fs[f]
  BY DEF StepOf, PrivatePaths
<1>3. /\ fs'[BinOut[q]] = fs[BinOut[q]]
      /\ fs'[main_ir_path(q)] = fs[main_ir_path(q)]
      /\ \A i \in UnitIndex(q) : /\ fs'[UnitIr(q, i)] = fs[UnitIr(q, i)]
                                 /\ fs'[object_path(q, i)] = fs[object_path(q, i)]
  BY <1>2, PathTypes, FilesOfFacts
<1>4. \A i : Generated(q, i)' <=> Generated(q, i)
  BY <1>1 DEF Generated
<1>5. IrState(q)'
  BY <1>1, <1>3, <1>4 DEF FileState, IrState
<1>6. ObjectState(q)'
  BY <1>1, <1>3 DEF FileState, ObjectState
<1>7. BinaryState(q)'
  BY <1>1, <1>3 DEF FileState, BinaryState, WrittenCode
<1>8. QED
  BY <1>5, <1>6, <1>7 DEF FileState

\* Steps that touch no file: before codegen, codegen that fails, and the end.
LEMMA QuietStep ==
  ASSUME OutputInv, NEW p \in Procs, FileState(p),
         UNCHANGED <<fs, success, n, unwritten>>,
         \/ /\ ~success[p]
            /\ pc[p] \notin {"compile_import", "cleanup", "check_err"} \cup Stopped
            /\ pc'[p] \notin Building
         \/ pc[p] = "check_err" /\ pc'[p] = "exited" /\ (success[p] => status'[p] = status[p])
         \/ pc'[p] = "killed"
  PROVE  FileState(p)'
<1> USE DEF Building, Stopped
<1>1. \A i \in UnitIndex(p) :
        IF i = 0 THEN Generated(p, i)' => Generated(p, i)
                 ELSE Generated(p, i)' <=> Generated(p, i)
  BY DEF Generated
<1>2. IrState(p)'
  BY <1>1 DEF FileState, IrState
<1>3. ObjectState(p)'
  BY DEF FileState, ObjectState
<1>4. BinaryState(p)'
  BY DEF FileState, BinaryState, WrittenCode
<1>5. QED
  BY <1>2, <1>3, <1>4 DEF FileState

LEMMA QuietSteps ==
  ASSUME OutputInv, NEW p \in Procs, FileState(p),
         \/ parse_arguments(p) \/ setup_input_file(p) \/ parse_file(p)
         \/ semantic_check(p) \/ HIRGen(p) \/ check_err(p) \/ interrupt(p)
  PROVE  FileState(p)'
<1> USE DEF At, Goto, Return, Set, panic
<1>1. UNCHANGED <<fs, success, n, unwritten>>
  BY DEF parse_arguments, setup_input_file, parse_file, semantic_check, HIRGen,
         check_err, interrupt
<1>2. TypeOK /\ ErrorState(p) /\ SuccessState(p)
  BY ControlFacts
<1>3. CASE \/ parse_arguments(p) \/ setup_input_file(p) \/ parse_file(p)
           \/ semantic_check(p) \/ HIRGen(p)
  <2>1. pc[p] \in {"parse_arguments", "setup_input_file", "parse_file",
                   "semantic_check", "HIRGen"}
    BY <1>3 DEF parse_arguments, setup_input_file, parse_file, semantic_check, HIRGen
  <2>2. ~success[p]
    BY <1>2, <2>1 DEF SuccessState, Building, Stopped
  <2>3. pc'[p] \notin Building
    BY <1>2, <1>3 DEF parse_arguments, setup_input_file, parse_file, semantic_check,
                      HIRGen, TypeOK, Building
  <2>4. QED
    BY <1>1, <2>1, <2>2, <2>3, QuietStep DEF Stopped
<1>4. CASE check_err(p)
  <2>1. pc[p] = "check_err" /\ pc'[p] = "exited" /\ (success[p] => status'[p] = status[p])
    BY <1>2, <1>4 DEF check_err, TypeOK, ErrorState
  <2>2. QED
    BY <1>1, <2>1, QuietStep
<1>5. CASE interrupt(p)
  BY <1>1, <1>2, <1>5, QuietStep DEF interrupt, TypeOK
<1>6. QED
  BY <1>3, <1>4, <1>5

\* The IR file of an import is p's now, or is counted as unwritten.
LEMMA CodegenImportStep ==
  ASSUME PrivatePaths, OutputInv, NEW p \in Procs, FileState(p), codegen_import(p)
  PROVE  FileState(p)'
<1>0. PICK k : k = n[p]
  OBVIOUS
<1> USE <1>0 DEF At, Goto, Return, Set
<1>1. TypeOK /\ pc[p] = "codegen" /\ ~success[p] /\ error_fatal[p] /\ k \in Nat \ {0}
  BY ControlFacts DEF codegen_import, SuccessState, ErrorState, Building, Stopped
<1>2. k \in UnitIndex(p) /\ UnitIr(p, k) \in Paths
  BY <1>1, CodeTypes, PathTypes DEF codegen_import
<1>3. CASE panic(p, "codegen") /\ UNCHANGED <<n, unwritten, fs>>
  <2>1. pc'[p] = "exited" /\ UNCHANGED success
    BY <1>1, <1>3 DEF codegen_import, panic, TypeOK
  <2>2. QED
    BY <1>1, <1>3, <2>1, QuietStep DEF Building, Stopped
<1>4. CASE /\ n' = [n EXCEPT ![p] = @ + 1]
           /\ UNCHANGED <<pc, status, success>>
           /\ \/ /\ fs' = [fs EXCEPT ![UnitIr(p, k)] = Code(p, k)]
                 /\ UNCHANGED unwritten
              \/ /\ unwritten' = [unwritten EXCEPT ![p] = @ \cup {k}]
                 /\ UNCHANGED fs
  <2>1. n'[p] = k + 1
    BY <1>1, <1>4 DEF TypeOK
  <2>2. \A f \in Paths : f # UnitIr(p, k) => fs'[f] = fs[f]
    BY <1>2, <1>4, ControlFacts DEF Files
  <2>3. \A i \in UnitIndex(p) :
          /\ fs'[object_path(p, i)] = fs[object_path(p, i)]
          /\ i # k => fs'[UnitIr(p, i)] = fs[UnitIr(p, i)]
    BY <1>2, <2>2, OwnPathsDistinct, PathTypes
  <2>4. \A i \in UnitIndex(p) : i # k => (i \in unwritten'[p] <=> i \in unwritten[p])
    BY <1>1, <1>4 DEF TypeOK
  <2>5. \A i \in UnitIndex(p) : i # 0 => (Generated(p, i) <=> i < k)
    BY <1>1 DEF Generated
  <2>6. \A i \in UnitIndex(p) : i # 0 => (Generated(p, i)' <=> i < k + 1)
    BY <1>1, <1>4, <2>1 DEF Generated
  <2>7. ~Generated(p, 0)' /\ 0 \notin unwritten'[p]
    BY <1>1, <1>2, <1>4, <2>4, ControlFacts, PathTypes DEF Generated
  <2>8. ASSUME NEW i \in UnitIndex(p), i # k, i # 0
        PROVE  Generated(p, i)' <=> Generated(p, i)
    <3>1. i \in Nat
      BY PathTypes
    <3>2. QED
      BY <1>1, <2>5, <2>6, <2>8, <3>1
  <2>9. k \notin unwritten[p] /\ fs[UnitIr(p, k)] \cap NewCode = {}
    BY <1>1, <1>2, <2>5 DEF FileState, IrState
  <2>10. Generated(p, k)'
    BY <1>1, <1>2, <2>6
  <2>11. IF k \in unwritten'[p] THEN fs'[UnitIr(p, k)] \cap NewCode = {}
                                ELSE fs'[UnitIr(p, k)] = Code(p, k)
    BY <1>1, <1>2, <1>4, <2>9, ControlFacts DEF TypeOK, Files
  <2>12. ASSUME NEW i \in UnitIndex(p)
         PROVE  /\ Generated(p, i)' /\ i \notin unwritten'[p] =>
                     fs'[UnitIr(p, i)] = Code(p, i)
                /\ i # 0 /\ (~Generated(p, i)' \/ i \in unwritten'[p]) =>
                     fs'[UnitIr(p, i)] \cap NewCode = {}
                /\ i # 0 /\ i \in unwritten'[p] => Generated(p, i)'
    <3>1. CASE i = k
      BY <2>10, <2>11, <3>1
    <3>2. CASE i = 0
      BY <2>7, <3>2
    <3>3. CASE i # k /\ i # 0
      BY <2>3, <2>4, <2>8, <3>3 DEF FileState, IrState
    <3>4. QED
      BY <3>1, <3>2, <3>3
  <2>13. IrState(p)'
    BY <2>12 DEF IrState
  <2>14. ObjectState(p)' /\ BinaryState(p)'
    BY <1>1, <1>4, <2>3 DEF FileState, ObjectState, BinaryState, Stopped
  <2>15. QED
    BY <2>13, <2>14 DEF FileState
<1>5. QED
  BY <1>3, <1>4 DEF codegen_import

\* With the main IR file written, all units are generated.
LEMMA CodegenMainStep ==
  ASSUME PrivatePaths, OutputInv, NEW p \in Procs, FileState(p), codegen_main(p)
  PROVE  FileState(p)'
<1> DEFINE ir == main_ir_path(p)
<1> USE DEF At, Goto, Return, Set
<1>1. /\ TypeOK /\ pc[p] = "codegen" /\ ~success[p] /\ error_fatal[p]
      /\ n[p] > Len(Imports[p]) /\ n[p] \in Nat
      /\ UNCHANGED unwritten
  BY ControlFacts DEF codegen_main, SuccessState, ErrorState, Building, Stopped
<1>2. 0 \in UnitIndex(p) /\ ir \in Paths /\ ir = UnitIr(p, 0)
  BY PathTypes
<1>3. CASE /\ fs' = [fs EXCEPT ![ir] = Code(p, 0)]
           /\ success' = [success EXCEPT ![p] = TRUE]
           /\ n' = [n EXCEPT ![p] = 1]
           /\ pc' = [pc EXCEPT ![p] = IF EmitIr[p] THEN "emit_ir" ELSE "compile_main"]
  <2>1. \A f \in Paths : f # ir => fs'[f] = fs[f]
    BY <1>2, <1>3, ControlFacts DEF Files
  <2>2. fs'[ir] = Code(p, 0)
    BY <1>2, <1>3, ControlFacts DEF Files
  <2>3. \A i \in UnitIndex(p) : /\ fs'[object_path(p, i)] = fs[object_path(p, i)]
                                /\ i # 0 => fs'[UnitIr(p, i)] = fs[UnitIr(p, i)]
    BY <1>2, <2>1, OwnPathsDistinct, PathTypes
  <2>4. success'[p] /\ n'[p] = 1 /\ pc'[p] \in {"emit_ir", "compile_main"}
    BY <1>1, <1>3 DEF TypeOK
  <2>5. ASSUME NEW i \in UnitIndex(p) PROVE i # 0 => Generated(p, i) /\ Generated(p, i)'
    <3>1. i \in Nat /\ i <= Len(Imports[p]) /\ Len(Imports[p]) \in Nat
      BY PathTypes
    <3>2. QED
      BY <1>1, <2>4, <3>1 DEF Generated
  <2>6. IrState(p)'
    BY <1>1, <1>2, <2>2, <2>3, <2>5, ControlFacts DEF FileState, IrState
  <2>7. ObjectState(p)' /\ BinaryState(p)'
    BY <1>1, <2>3, <2>4 DEF FileState, ObjectState, BinaryState, Stopped
  <2>8. QED
    BY <2>6, <2>7 DEF FileState
<1>4. CASE UNCHANGED <<fs, success, n>> /\ pc'[p] \in {"check_err", "exited"}
  BY <1>1, <1>4, QuietStep DEF Building, Stopped
<1>5. QED
  BY <1>1, <1>3, <1>4 DEF codegen_main, panic, TypeOK

\* The second write of the IR text leaves the file as codegen left it.
LEMMA EmitIrStep ==
  ASSUME PrivatePaths, OutputInv, NEW p \in Procs, FileState(p), emit_ir(p)
  PROVE  FileState(p)'
<1> USE DEF At, Goto
<1>1. TypeOK /\ pc[p] = "emit_ir" /\ success[p] /\ EmitIr[p]
  BY ControlFacts DEF emit_ir, SuccessState, Building
<1>2. IrOut[p] = UnitIr(p, 0) /\ IrOut[p] \in Paths /\ 0 \in UnitIndex(p)
  BY <1>1, PathTypes DEF main_ir_path
<1>3. fs[IrOut[p]] = Code(p, 0)
  BY <1>1, <1>2, ControlFacts DEF FileState, IrState, Generated
<1>4. fs' = fs
  BY <1>1, <1>3 DEF emit_ir, TypeOK, Files
<1>5. pc'[p] = "compile_main" /\ UNCHANGED <<n, success, status, unwritten>>
  BY <1>1 DEF emit_ir, TypeOK
<1>6. \A i : Generated(p, i)' <=> Generated(p, i)
  BY <1>1, <1>5 DEF Generated
<1>7. IrState(p)'
  BY <1>4, <1>5, <1>6 DEF FileState, IrState
<1>8. ObjectState(p)' /\ BinaryState(p)'
  BY <1>1, <1>4, <1>5 DEF FileState, ObjectState, BinaryState, Stopped
<1>9. QED
  BY <1>7, <1>8 DEF FileState

-----------------------------------------------------------------------------
(* clang++ *)

\* Whichever unit is compiled, success makes its object file from its IR file; a
\* failure removes the temporary main IR file, and at most an object file besides.
LEMMA CompileEffect ==
  ASSUME PrivatePaths, OutputInv, NEW p \in Procs, NEW i \in UnitIndex(p),
         compile_ir_to_object(p, i, "compile_import")
  PROVE  /\ \A j \in UnitIndex(p) :
              /\ j # 0 \/ EmitIr[p] => fs'[UnitIr(p, j)] = fs[UnitIr(p, j)]
              /\ j # i => fs'[object_path(p, j)] = fs[object_path(p, j)]
         /\ \/ /\ pc'[p] = "compile_import" /\ status' = status
               /\ fs'[UnitIr(p, 0)] = fs[UnitIr(p, 0)]
               /\ fs'[object_path(p, i)] = fs[UnitIr(p, i)]
            \/ /\ pc'[p] = "check_err" /\ status'[p] = 1
               /\ fs'[object_path(p, i)] \in {fs[object_path(p, i)], Absent}
               /\ ~EmitIr[p] => fs'[main_ir_path(p)] = Absent
<1> DEFINE ir == main_ir_path(p)
<1> DEFINE ob == object_path(p, i)
<1> USE DEF Goto, Return
<1>1. TypeOK /\ 0 \in UnitIndex(p) /\ ir \in Paths /\ ir = UnitIr(p, 0) /\ ob \in Paths
  BY PathTypes, ControlFacts
<1>2. \A j \in UnitIndex(p) : /\ UnitIr(p, j) \in Paths /\ object_path(p, j) \in Paths
                              /\ ob # UnitIr(p, j) /\ ir # object_path(p, j)
                              /\ j # i => ob # object_path(p, j)
                              /\ j # 0 => ir # UnitIr(p, j)
  BY <1>1, OwnPathsDistinct, PathTypes
<1>3. CASE /\ fs' = [fs EXCEPT ![ob] = fs[UnitIr(p, i)]]
           /\ pc' = [pc EXCEPT ![p] = "compile_import"]
           /\ UNCHANGED status
  <2>1. \A f \in Paths : f # ob => fs'[f] = fs[f]
    BY <1>1, <1>3, ControlFacts DEF Files
  <2>2. fs'[ob] = fs[UnitIr(p, i)]
    BY <1>1, <1>3, ControlFacts DEF Files
  <2>3. pc'[p] = "compile_import"
    BY <1>1, <1>3 DEF TypeOK
  <2>4. QED
    BY <1>1, <1>2, <1>3, <2>1, <2>2, <2>3
<1>4. CASE /\ fs' \in {UnlinkMainIr(p), [UnlinkMainIr(p) EXCEPT ![ob] = Absent]}
           /\ pc' = [pc EXCEPT ![p] = "check_err"]
           /\ status' = [status EXCEPT ![p] = 1]
  <2>1. UnlinkMainIr(p) \in Files
    BY <1>1, UnlinkTypes
  <2>2. \A f \in Paths : f # ir \/ EmitIr[p] => UnlinkMainIr(p)[f] = fs[f]
    BY <1>1, ControlFacts DEF Files, UnlinkMainIr
  <2>3. ~EmitIr[p] => UnlinkMainIr(p)[ir] = Absent
    BY <1>1, ControlFacts DEF Files, UnlinkMainIr
  <2>4. \A f \in Paths : f # ob => fs'[f] = UnlinkMainIr(p)[f]
    BY <1>1, <1>4, <2>1 DEF Files
  <2>5. fs'[ob] \in {UnlinkMainIr(p)[ob], Absent}
    BY <1>1, <1>4, <2>1 DEF Files
  <2>6. fs'[ob] \in {fs[ob], Absent}
    BY <1>1, <1>2, <2>2, <2>5
  <2>7. ~EmitIr[p] => fs'[ir] = Absent
    BY <1>1, <1>2, <2>3, <2>4
  <2>8. \A j \in UnitIndex(p) :
          /\ j # 0 \/ EmitIr[p] => fs'[UnitIr(p, j)] = fs[UnitIr(p, j)]
          /\ j # i => fs'[object_path(p, j)] = fs[object_path(p, j)]
    BY <1>2, <2>2, <2>4
  <2>9. pc'[p] = "check_err" /\ status'[p] = 1
    BY <1>1, <1>4 DEF TypeOK
  <2>10. QED
    BY <2>6, <2>7, <2>8, <2>9
<1>5. QED
  BY <1>3, <1>4 DEF compile_ir_to_object

LEMMA CompileStep ==
  ASSUME PrivatePaths, OutputInv, NEW p \in Procs, FileState(p),
         compile_main(p) \/ compile_import(p)
  PROVE  FileState(p)'
<1> DEFINE k == IF pc[p] = "compile_main" THEN 0 ELSE n[p]
<1>1. pc[p] \in {"compile_main", "compile_import"}
  BY DEF compile_main, compile_import, At
<1>2. k \in UnitIndex(p) /\ compile_ir_to_object(p, k, "compile_import")
  BY ControlFacts, PathTypes, CodeTypes DEF compile_main, compile_import, At
<1>3. TypeOK /\ success[p] /\ UNCHANGED <<success, unwritten>> /\ n[p] \in Nat \ {0}
  BY <1>1, ControlFacts DEF SuccessState, Building, compile_main, compile_import
<1>4. /\ \A j \in UnitIndex(p) :
           /\ j # 0 \/ EmitIr[p] => fs'[UnitIr(p, j)] = fs[UnitIr(p, j)]
           /\ j # k => fs'[object_path(p, j)] = fs[object_path(p, j)]
      /\ \/ /\ pc'[p] = "compile_import" /\ status' = status
            /\ fs'[UnitIr(p, 0)] = fs[UnitIr(p, 0)]
            /\ fs'[object_path(p, k)] = fs[UnitIr(p, k)]
         \/ /\ pc'[p] = "check_err" /\ status'[p] = 1
            /\ fs'[object_path(p, k)] \in {fs[object_path(p, k)], Absent}
            /\ ~EmitIr[p] => fs'[main_ir_path(p)] = Absent
  <2> HIDE DEF k
  <2>1. QED
    BY <1>2, CompileEffect
<1>5. IrState(p)'
  <2>1. \A j \in UnitIndex(p) :
          /\ j # 0 => Generated(p, j) /\ Generated(p, j)'
          /\ Generated(p, j)' => Generated(p, j) /\ fs'[UnitIr(p, j)] = fs[UnitIr(p, j)]
    BY <1>1, <1>3, <1>4 DEF Generated, Building
  <2>2. QED
    BY <1>3, <2>1 DEF FileState, IrState
<1>6. BinaryState(p)'
  BY <1>4 DEF BinaryState
<1>7. CASE pc'[p] = "compile_import"
  <2>1. ASSUME NEW j \in UnitIndex(p), j < n'[p]
        PROVE  fs'[object_path(p, j)] = fs'[UnitIr(p, j)]
    <3>1. fs'[UnitIr(p, j)] = fs[UnitIr(p, j)]
      BY <1>4, <1>7
    <3>2. CASE j = k
      BY <1>4, <1>7, <3>1, <3>2
    <3>3. CASE j # k
      <4>1. CASE compile_main(p)
        <5>1. pc[p] = "compile_main" /\ n'[p] = n[p]
          BY <4>1 DEF compile_main, At
        <5>2. n'[p] = 1 /\ j \in Nat
          BY <5>1, PathTypes DEF FileState, ObjectState
        <5>3. j = 0
          BY <2>1, <5>2
        <5>4. QED
          BY <3>3, <5>1, <5>3
      <4>2. CASE compile_import(p)
        <5>1. pc[p] = "compile_import" /\ n'[p] = n[p] + 1 /\ k = n[p]
          BY <1>3, <1>7, <4>2 DEF compile_import, At, TypeOK
        <5>2. j \in Nat /\ j # n[p]
          BY <3>3, <5>1, PathTypes
        <5>3. j < n[p]
          BY <1>3, <2>1, <5>1, <5>2
        <5>4. fs[object_path(p, j)] = fs[UnitIr(p, j)]
          BY <5>1, <5>3 DEF FileState, ObjectState
        <5>5. QED
          BY <1>4, <3>1, <3>3, <5>4
      <4>3. QED
        BY <4>1, <4>2
    <3>4. QED
      BY <3>2, <3>3
  <2>2. ObjectState(p)'
    BY <1>7, <2>1 DEF ObjectState
  <2>3. QED
    BY <1>5, <1>6, <2>2 DEF FileState
<1>8. CASE pc'[p] = "check_err"
  <2>1. /\ status'[p] = 1
        /\ ~EmitIr[p] => fs'[main_ir_path(p)] = Absent
        /\ \A j \in UnitIndex(p) :
             fs'[object_path(p, j)] \in {fs[object_path(p, j)], Absent}
    BY <1>4, <1>8
  <2>2. n'[p] > Len(Imports[p]) =>
          \A j \in UnitIndex(p) : fs'[object_path(p, j)] \cap NewCode = {}
    <3>1. CASE compile_main(p)
      <4>1. \A j \in UnitIndex(p) : fs[object_path(p, j)] \cap NewCode = {}
        BY <3>1 DEF compile_main, At, FileState, ObjectState, Stopped
      <4>2. QED
        BY <2>1, <4>1 DEF Absent
    <3>2. CASE compile_import(p)
      <4>1. n'[p] = n[p] /\ n[p] <= Len(Imports[p]) /\ Len(Imports[p]) \in Nat
        BY <1>3, <1>8, <3>2, PathTypes DEF compile_import, TypeOK
      <4>2. QED
        BY <1>3, <4>1
    <3>3. QED
      BY <3>1, <3>2
  <2>3. ObjectState(p)'
    BY <1>8, <2>1, <2>2 DEF ObjectState
  <2>4. QED
    BY <1>5, <1>6, <2>3 DEF FileState
<1>9. QED
  BY <1>4, <1>7, <1>8

-----------------------------------------------------------------------------
(* The linker and the clean-up *)

\* The object files hold what the IR files held: p's code, but for the imports
\* that were not written.
LEMMA LinkedCode ==
  ASSUME OutputInv, NEW p \in Procs, FileState(p), link(p)
  PROVE  LET objects == UNION {fs[object_path(p, i)] : i \in UnitIndex(p)}
         IN  /\ objects \cap NewCode = WrittenCode(p)
             /\ unwritten[p] = {} => objects = OwnCode(p)
<1> DEFINE objects == UNION {fs[object_path(p, i)] : i \in UnitIndex(p)}
<1>1. pc[p] = "compile_import" /\ success[p] /\ n[p] > Len(Imports[p]) /\ n[p] \in Nat
  BY ControlFacts DEF link, At, SuccessState, Building
<1>2. ASSUME NEW i \in UnitIndex(p)
      PROVE  /\ fs[object_path(p, i)] = fs[UnitIr(p, i)]
             /\ Generated(p, i)
  <2>1. i \in Nat /\ i < n[p]
    BY <1>1, PathTypes
  <2>2. QED
    BY <1>1, <2>1 DEF FileState, ObjectState, Generated, Building
<1>3. ASSUME NEW i \in UnitIndex(p)
      PROVE  IF i \in unwritten[p] THEN fs[object_path(p, i)] \cap NewCode = {}
                                   ELSE fs[object_path(p, i)] = {<<p, Unit(p, i)>>}
  BY <1>2, ControlFacts DEF FileState, IrState, Code
<1>4. \A i \in UnitIndex(p) : <<p, Unit(p, i)>> \in NewCode
  BY PathTypes DEF NewCode
<1>5. objects \cap NewCode = WrittenCode(p)
  <2>1. ASSUME NEW c \in objects \cap NewCode PROVE c \in WrittenCode(p)
    <3>1. PICK i \in UnitIndex(p) : c \in fs[object_path(p, i)]
      BY <2>1
    <3>2. i \notin unwritten[p]
      BY <1>3, <2>1, <3>1
    <3>3. QED
      BY <1>3, <3>1, <3>2 DEF WrittenCode
  <2>2. ASSUME NEW c \in WrittenCode(p) PROVE c \in objects \cap NewCode
    <3>1. PICK i \in UnitIndex(p) \ unwritten[p] : c = <<p, Unit(p, i)>>
      BY <2>2 DEF WrittenCode
    <3>2. c \in fs[object_path(p, i)]
      BY <1>3, <3>1
    <3>3. QED
      BY <1>4, <3>1, <3>2
  <2>3. QED
    BY <2>1, <2>2
<1>6. unwritten[p] = {} => objects = OwnCode(p)
  BY <1>3 DEF OwnCode
<1>7. QED
  BY <1>5, <1>6

LEMMA LinkStep ==
  ASSUME PrivatePaths, OutputInv, NEW p \in Procs, FileState(p), link(p)
  PROVE  FileState(p)'
<1> DEFINE objects == UNION {fs[object_path(p, i)] : i \in UnitIndex(p)}
<1> DEFINE bin == BinOut[p]
<1> USE DEF At, Goto, Return
<1>1. /\ TypeOK /\ pc[p] = "compile_import" /\ pc'[p] = "cleanup"
      /\ UNCHANGED <<n, success, unwritten>>
      /\ bin \in Paths
  BY ControlFacts, PathTypes DEF link, TypeOK
<1>2. fs' = fs \/ fs' = [fs EXCEPT ![bin] = Absent] \/ fs' = [fs EXCEPT ![bin] = objects]
  BY DEF link
<1>3. \A f \in Paths : f # bin => fs'[f] = fs[f]
  BY <1>1, <1>2, ControlFacts DEF Files
<1>4. \A i \in UnitIndex(p) : fs'[UnitIr(p, i)] = fs[UnitIr(p, i)]
  BY <1>3, OwnPathsDistinct, PathTypes
<1>5. IrState(p)'
  <2>1. \A i \in UnitIndex(p) : Generated(p, i)' <=> Generated(p, i)
    BY <1>1 DEF Generated, Building
  <2>2. QED
    BY <1>1, <1>4, <2>1 DEF FileState, IrState
<1>6. ObjectState(p)'
  BY <1>1 DEF ObjectState
<1>7. status'[p] = 1 \/ fs'[bin] = objects
  <2>1. CASE status' = [status EXCEPT ![p] = 1]
    BY <1>1, <2>1 DEF TypeOK
  <2>2. CASE fs' = [fs EXCEPT ![bin] = objects]
    BY <1>1, <2>2, ControlFacts DEF Files
  <2>3. QED
    BY <2>1, <2>2 DEF link
<1>8. objects \cap NewCode = WrittenCode(p) /\ (unwritten[p] = {} => objects = OwnCode(p))
  BY LinkedCode
<1>9. WrittenCode(p)' = WrittenCode(p)
  BY <1>1 DEF WrittenCode
<1>10. BinaryState(p)'
  <2> HIDE DEF objects
  <2>1. QED
    BY <1>1, <1>7, <1>8, <1>9 DEF BinaryState
<1>11. QED
  BY <1>5, <1>6, <1>10 DEF FileState

LEMMA CleanupStep ==
  ASSUME PrivatePaths, OutputInv, NEW p \in Procs, FileState(p), cleanup(p)
  PROVE  FileState(p)'
<1> DEFINE ir == main_ir_path(p)
<1> USE DEF At, Goto
<1>1. /\ TypeOK /\ pc[p] = "cleanup" /\ pc'[p] = "check_err" /\ success[p]
      /\ UNCHANGED <<n, success, status, unwritten>>
  BY ControlFacts DEF cleanup, SuccessState, Building, TypeOK
<1>2. 0 \in UnitIndex(p) /\ ir \in Paths /\ ir = UnitIr(p, 0) /\ BinOut[p] \in Paths
  BY PathTypes
<1>3. \A f \in ObjectFiles(p) : f \in Paths => fs'[f] = Absent
  BY DEF cleanup
<1>4. \A f \in Paths \ ObjectFiles(p) :
        fs'[f] = IF f = ir /\ ~EmitIr[p] THEN Absent ELSE fs[f]
  BY <1>2, ControlFacts DEF cleanup, UnlinkMainIr, Files
<1>5. \A i \in UnitIndex(p) : fs'[object_path(p, i)] = Absent
  BY <1>3, PathTypes DEF ObjectFiles
<1>6. fs'[BinOut[p]] = fs[BinOut[p]]
  BY <1>2, <1>4, OwnPathsDistinct DEF ObjectFiles
<1>7. \A i \in UnitIndex(p) :
        fs'[UnitIr(p, i)] = IF i = 0 /\ ~EmitIr[p] THEN Absent ELSE fs[UnitIr(p, i)]
  BY <1>2, <1>4, OwnPathsDistinct, PathTypes DEF ObjectFiles
<1>8. \A i \in UnitIndex(p) : /\ i # 0 => (Generated(p, i)' <=> Generated(p, i))
                              /\ Generated(p, 0)' => EmitIr[p] /\ Generated(p, 0)
  BY <1>1 DEF Generated, Building
<1>9. IrState(p)'
  BY <1>1, <1>7, <1>8 DEF FileState, IrState
<1>10. ObjectState(p)'
  BY <1>1, <1>2, <1>5, <1>7 DEF ObjectState, Stopped, Absent
<1>11. BinaryState(p)'
  BY <1>1, <1>6 DEF FileState, BinaryState, WrittenCode
<1>12. QED
  BY <1>9, <1>10, <1>11 DEF FileState

-----------------------------------------------------------------------------
(* The invariant is inductive *)

LEMMA DriverInit ==
  ASSUME Init
  PROVE  DriverInv
<1>1. OutputInv
  BY OutputInit
<1>2. ASSUME NEW p \in Procs PROVE FileState(p)
  <2>1. /\ pc[p] = "parse_arguments" /\ n[p] = 1
        /\ ~success[p] /\ unwritten[p] = {}
    BY DEF Init
  <2>2. \A f \in Paths : fs[f] \cap NewCode = {}
    BY DriverConstants, OldIsNotNew DEF Init
  <2>3. \A i \in UnitIndex(p) : ~Generated(p, i)
    <3>1. \A i \in UnitIndex(p) : i \in Nat
      BY PathTypes
    <3>2. QED
      BY <2>1, <3>1 DEF Generated
  <2>4. IrState(p)
    BY <2>1, <2>2, <2>3, PathTypes DEF IrState
  <2>5. ObjectState(p) /\ BinaryState(p)
    BY <2>1, <2>2, PathTypes DEF ObjectState, BinaryState
  <2>6. QED
    BY <2>4, <2>5 DEF FileState
<1>3. QED
  BY <1>1, <1>2 DEF DriverInv

LEMMA DriverStep ==
  ASSUME PrivatePaths, DriverInv, [Next]_vars
  PROVE  DriverInv'
<1>1. OutputInv'
  BY OutputInvStep DEF DriverInv, PrivatePaths
<1>2. CASE UNCHANGED vars
  <2>1. ASSUME NEW p \in Procs PROVE FileState(p)'
    <3>1. FileState(p) /\ UNCHANGED <<pc, n, success, status, unwritten, fs>>
      BY <1>2 DEF DriverInv, vars
    <3>2. QED
      BY <3>1 DEF FileState, IrState, ObjectState, BinaryState, Generated, WrittenCode
  <2>2. QED
    BY <1>1, <2>1 DEF DriverInv
<1>3. ASSUME NEW p \in Procs, Step(p) \/ interrupt(p)
      PROVE  DriverInv'
  <2>1. FileState(p)'
    BY <1>3, QuietSteps, CodegenImportStep, CodegenMainStep, EmitIrStep, CompileStep,
       LinkStep, CleanupStep DEF Step, DriverInv
  <2>2. StepOf(p)
    BY <1>3, StepFrame DEF DriverInv, OutputInv
  <2>3. ASSUME NEW q \in Procs, q # p PROVE FileState(q)'
    BY <2>2, <2>3, FileFrame DEF DriverInv
  <2>4. QED
    BY <1>1, <2>1, <2>3 DEF DriverInv
<1>4. QED
  BY <1>2, <1>3 DEF Next, Finished

\* What is true of every invocation on the way, whatever the others do with files of
\* their own and whatever earlier builds have left (compile_and_execute).
THEOREM DriverInvariant ==
  ASSUME PrivatePaths
  PROVE  Spec => []DriverInv
<1>1. Init => DriverInv
  BY DriverInit
<1>2. DriverInv /\ [Next]_vars => DriverInv'
  BY DriverStep
<1>3. QED
  BY <1>1, <1>2, PTL DEF Spec

\* With private paths, an invocation that compiled a program and exits with 0 has
\* left an executable of exactly its own units, but for imports whose IR it could
\* not write (compile_and_execute).
THEOREM IsolatedBuild ==
  ASSUME PrivatePaths
  PROVE  Spec => []OwnBinary
<1>1. DriverInv => OwnBinary
  BY DEF DriverInv, FileState, BinaryState, OwnBinary, At
<1>2. QED
  BY <1>1, DriverInvariant, PTL

\* With private paths, an invocation that got through codegen leaves no temporary
\* IR file, and none of its object files once it has tried to link.
THEOREM TempFilesAreRemoved ==
  ASSUME PrivatePaths
  PROVE  Spec => []TempFilesRemoved
<1>1. DriverInv => TempFilesRemoved
  BY DEF DriverInv, FileState, ObjectState, TempFilesRemoved, ObjectFiles, At
<1>2. QED
  BY <1>1, DriverInvariant, PTL

\* With private paths, what --emit-ir wrote survives every outcome of the build.
THEOREM EmittedIrIsKept ==
  ASSUME PrivatePaths
  PROVE  Spec => []EmittedIrKept
<1>1. ASSUME DriverInv, NEW p \in Procs, At(p, "exited"), EmitIr[p], success[p]
      PROVE  fs[IrOut[p]] = Code(p, 0)
  <2>1. 0 \in UnitIndex(p) /\ UnitIr(p, 0) = IrOut[p]
    BY <1>1, PathTypes DEF main_ir_path
  <2>2. Generated(p, 0) /\ 0 \notin unwritten[p]
    BY <1>1, ControlFacts DEF Generated, DriverInv
  <2>3. QED
    BY <1>1, <2>1, <2>2 DEF DriverInv, FileState, IrState
<1>2. DriverInv => EmittedIrKept
  BY <1>1 DEF EmittedIrKept
<1>3. QED
  BY <1>2, DriverInvariant, PTL

=============================================================================
