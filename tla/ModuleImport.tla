------------------------------ MODULE ModuleImport ------------------------------
(***************************************************************************)
(* Imports, from handle_import to ir_out: one compilation loads the modules *)
(* its program imports, checks them (semantic pass), lowers them (HIRGen)   *)
(* and generates code for them (codegen).  Each of the three passes walks   *)
(* the import graph by recursion of its own; stack is its call stack, top   *)
(* first, one frame per activation.                                         *)
(*                                                                          *)
(* A file's text is its import statements followed by its body, in which    *)
(* only functions and global variables are told apart, and at most one      *)
(* fault, which decides what each pass reports about the file.  The program *)
(* itself is the unit ROOT: it is not in g_modules, so that when a module   *)
(* imports the program's file that file is loaded again, as a module.       *)
(***************************************************************************)
EXTENDS Integers, Sequences, FiniteSets, Functions

CONSTANTS
  Files,       \* canonical paths
  MainFile,    \* the one given on the command line
  ROOT,        \* the program's own tree
  Names,       \* what import statements request; never a canonical path
  NoFile,
  Lookup,      \* Lookup[name]: the file it names in MainFile's directory or -I
  Programs,    \* the programs to compile: functions from Files to texts
  StackLimit   \* activations of generate that fit on the machine's stack

Units == Files \cup {ROOT}
BodyItems == {"fn", "var"}
\* "syntax": no tree; "partial": errors, and a tree after recovery;
\* "type": an error of the semantic pass; "lower": an error of HIRGen.
FaultKinds == {"none", "unreadable", "syntax", "partial", "type", "lower"}

Texts == [imports : Seq(Names), body : Seq(BodyItems), fault : FaultKinds]
Empty(t) == t.imports = << >> /\ t.body = << >>

ASSUME ImportConstants ==
  /\ MainFile \in Files /\ ROOT \notin Files /\ IsFiniteSet(Files)
  /\ Names \cap Files = {} /\ NoFile \notin Files
  /\ Lookup \in [Names -> Files \cup {NoFile}]
  /\ StackLimit \in Nat /\ StackLimit > Cardinality(Files) + 1
  /\ \A P \in Programs :
       /\ P \in [Files -> Texts]
       \* main goes on only with a tree and no error (main.c:32)
       /\ P[MainFile].fault \in {"none", "type", "lower"} /\ ~Empty(P[MainFile])

VARIABLES
  text,        \* the program; never changes
  phase,       \* the pass that runs, or how the compilation ended
  crash,       \* why it crashed
  stack,
  path,        \* path[u][i]: importNode.path of unit u's i-th import
  g_modules,   \* the module table
  fns,         \* the files whose functions are in g_semantic_functions
  is_glob_var_allowed,
  errors,      \* what panic was called for: kind, file at fault, file named
  hirMod,      \* the lowered modules
  ir_out       \* the modules whose IR is compiled and linked, in order

vars == <<text, phase, crash, stack, path, g_modules, fns, is_glob_var_allowed,
          errors, hirMod, ir_out>>

Module == [state : {"absent", "MOD_LOADING", "MOD_LOADED"},
           ast : {"null", "tree"}, parsed : BOOLEAN, semantic_done : BOOLEAN]
Frames == [unit : Units, step : {"begin", "first", "again"}, i : Nat \ {0}]
ErrorKinds == {"import", "syntax", "redefinition", "at_sym", "type", "lower"}
Ended == {"done", "no_main", "reported", "crashed"}

TypeOK ==
  /\ text \in [Files -> Texts]
  /\ phase \in {"semantic", "HIRGen", "codegen"} \cup Ended
  /\ crash \in {"no", "no_module", "stack", "bad_root"}
  /\ stack \in Seq(Frames)
  /\ path \in [Units -> Seq(Names \cup Files)]
  /\ g_modules \in [Files -> Module]
  /\ fns \subseteq Files
  /\ is_glob_var_allowed \in BOOLEAN
  /\ errors \subseteq [kind : ErrorKinds, at : Files, named : Files]
  /\ hirMod \in [Files -> {"absent", "null", "tree"}]
  /\ ir_out \in Seq(Files)

-----------------------------------------------------------------------------
(* Units and errors *)

FileOf(u) == IF u = ROOT THEN MainFile ELSE u
Body(u) == text[FileOf(u)].body
Fault(u) == text[FileOf(u)].fault
HasFn(u) == "fn" \in Range(Body(u))

isError == errors # {}

\* panic outside parse_file names file->filename, which is MainFile: load_module
\* sets it for the parse and restores it before the module is checked.
Error(kind, u) == [kind |-> kind, at |-> FileOf(u), named |-> MainFile]

-----------------------------------------------------------------------------
(* The call stack *)

Frame(u, step) == [unit |-> u, step |-> step, i |-> 1]
top == Head(stack)
Push(frame, s) == <<frame>> \o s
\* Mutant: a sequence does not go on to its next statement.
Advance_stuck == stack
Advance == [stack EXCEPT ![1].i = @ + 1]
AtImport(ph) == phase = ph /\ stack # << >> /\ top.step # "begin"
                  /\ top.i <= Len(path[top.unit])
AtBody(ph) == phase = ph /\ stack # << >> /\ top.step # "begin"
                /\ top.i > Len(path[top.unit])
Crash(why) == phase' = "crashed" /\ crash' = why

Init ==
  /\ text \in Programs
  /\ phase = "semantic"
  /\ crash = "no"
  /\ stack = <<Frame(ROOT, "begin")>>
  /\ path = [u \in Units |-> IF u = ROOT THEN text[MainFile].imports ELSE << >>]
  /\ g_modules = [f \in Files |-> [state |-> "absent", ast |-> "null",
                                   parsed |-> FALSE, semantic_done |-> FALSE]]
  /\ fns = {}
  /\ is_glob_var_allowed = FALSE
  /\ errors = {}
  /\ hirMod = [f \in Files |-> "absent"]
  /\ ir_out = << >>

-----------------------------------------------------------------------------
(* The semantic pass.  import_parse_failed is left out: import.cpp and          *)
(* semanic.cpp have a static variable of that name each, and the one that is    *)
(* tested is never set.                                                         *)

\* Mutant: register_global_var_and_fn is not called.
semantic_check_without_registration ==
  /\ phase = "semantic" /\ stack # << >> /\ top.step = "begin"
  /\ is_glob_var_allowed' = TRUE
  /\ stack' = [stack EXCEPT ![1].step = "first"]
  /\ UNCHANGED <<fns, errors, text, phase, crash, path, g_modules, hirMod, ir_out>>

\* semantic_check up to check_expr: register_global_var_and_fn runs over the unit
\* before any of its imports is looked at.
semantic_check ==
  /\ phase = "semantic" /\ stack # << >> /\ top.step = "begin"
  /\ is_glob_var_allowed' = TRUE
  /\ LET u == top.unit IN
     IF HasFn(u)
     THEN /\ fns' = fns \cup {FileOf(u)}
          /\ errors' = IF FileOf(u) \in fns
                       THEN errors \cup {Error("redefinition", u)} ELSE errors
     ELSE UNCHANGED <<fns, errors>>
  /\ stack' = [stack EXCEPT ![1].step = "first"]
  /\ UNCHANGED <<text, phase, crash, path, g_modules, hirMod, ir_out>>

\* Mutant: a path that is resolved already is looked up like any other.
resolve_names_only(request) == IF request \in Files THEN NoFile ELSE Lookup[request]

\* A path that is resolved already resolves to itself.
resolve(request) == IF request \in Files THEN request ELSE Lookup[request]

\* Mutant: the module table is asked for the name requested, not the file found.
cached_by_name(f, request) ==
  f # NoFile /\ g_modules[f].state = "MOD_LOADED" /\ request \in Files

\* load_module finds the file in the table, loaded.
cached(f, request) == f # NoFile /\ g_modules[f].state = "MOD_LOADED"

\* Mutant: no error for a file that cannot be opened.
import_fails_silently ==
  /\ AtImport("semantic")
  /\ LET f == resolve(path[top.unit][top.i]) IN
     /\ f # NoFile /\ g_modules[f].state = "absent" /\ Fault(f) = "unreadable"
     /\ g_modules' = [g_modules EXCEPT ![f].state = "MOD_LOADING"]
  /\ stack' = Advance
  /\ UNCHANGED <<text, phase, crash, path, fns, is_glob_var_allowed, errors, hirMod,
                 ir_out>>

\* No such file, or one that is being loaded; or one that cannot be opened, which
\* leaves its entry in the table.  (A request of a single character that names no file
\* is left out: the substr in load_module throws for it.)
import_fails ==
  /\ AtImport("semantic")
  /\ LET f == resolve(path[top.unit][top.i]) IN
     \/ /\ f = NoFile \/ (f # NoFile /\ g_modules[f].state = "MOD_LOADING")
        /\ UNCHANGED g_modules
     \/ /\ f # NoFile /\ g_modules[f].state = "absent" /\ Fault(f) = "unreadable"
        /\ g_modules' = [g_modules EXCEPT ![f].state = "MOD_LOADING"]
  /\ errors' = errors \cup {Error("import", top.unit)}
  /\ stack' = Advance
  /\ UNCHANGED <<text, phase, crash, path, fns, is_glob_var_allowed, hirMod, ir_out>>

\* The module is in the table: the node gets its path, nothing is checked.
import_cached ==
  /\ AtImport("semantic")
  /\ LET request == path[top.unit][top.i]
         f == resolve(request)
     IN /\ cached(f, request)
        /\ path' = [path EXCEPT ![top.unit][top.i] = f]
  /\ stack' = Advance
  /\ UNCHANGED <<text, phase, crash, g_modules, fns, is_glob_var_allowed, errors,
                 hirMod, ir_out>>

\* raw->parsed = !isError: errors reported before this module was opened count.
parsed_without_error(f) == ~isError /\ Fault(f) \notin {"syntax", "partial"}

\* A new module is parsed.  Unless an error has been reported by now, handle_import
\* goes on to check it: semantic_check, then check_expr once more.
import_new ==
  /\ AtImport("semantic")
  /\ LET request == path[top.unit][top.i]
         f == resolve(request)
     IN /\ f # NoFile /\ Fault(f) # "unreadable"
        /\ g_modules[f].state # "MOD_LOADING" /\ ~cached(f, request)
        /\ LET tree == ~Empty(text[f]) /\ Fault(f) # "syntax"
               parsed == parsed_without_error(f)
           IN /\ g_modules' = [g_modules EXCEPT ![f] =
                   [state |-> "MOD_LOADED", ast |-> IF tree THEN "tree" ELSE "null",
                    parsed |-> parsed, semantic_done |-> parsed /\ ~tree]]
              /\ path' = [path EXCEPT ![top.unit][top.i] = f,
                            ![f] = IF tree THEN text[f].imports ELSE << >>]
              /\ stack' = IF parsed /\ tree THEN Push(Frame(f, "begin"), Advance)
                          ELSE Advance
        /\ errors' = IF Fault(f) \in {"syntax", "partial"}
                     THEN errors \cup {[kind |-> "syntax", at |-> f, named |-> f]}
                     ELSE errors
  /\ UNCHANGED <<text, phase, crash, fns, is_glob_var_allowed, hirMod, ir_out>>

\* What check_expr reports about a body: a global variable is rejected once a
\* function has been checked since the last semantic_check began.
at_sym_rejected(u) ==
  \E j \in DOMAIN Body(u) :
    /\ Body(u)[j] = "var"
    /\ ~is_glob_var_allowed \/ \E k \in 1 .. j - 1 : Body(u)[k] = "fn"

BodyErrors(u) ==
  (IF at_sym_rejected(u) THEN {Error("at_sym", u)} ELSE {})
    \cup (IF Fault(u) = "type" THEN {Error("type", u)} ELSE {})

\* The body is checked after the imports.  The first time ends semantic_check, and
\* a module then starts over; the second time ends handle_import.
check_body ==
  /\ AtBody("semantic")
  /\ errors' = errors \cup BodyErrors(top.unit)
  /\ is_glob_var_allowed' = (is_glob_var_allowed /\ ~HasFn(top.unit))
  /\ IF top.unit = ROOT
     THEN /\ phase' = "HIRGen"
          /\ stack' = <<Frame(ROOT, "first")>>
          /\ UNCHANGED g_modules
     ELSE /\ IF top.step = "first"
             THEN /\ g_modules' = [g_modules EXCEPT ![top.unit].semantic_done = TRUE]
                  /\ stack' = Push(Frame(top.unit, "again"), Tail(stack))
             ELSE stack' = Tail(stack) /\ UNCHANGED g_modules
          /\ UNCHANGED phase
  /\ UNCHANGED <<text, crash, path, fns, hirMod, ir_out>>

-----------------------------------------------------------------------------
(* HIR generation *)

\* loadOrCreateMod: the first tree stays.
loadOrCreateMod(f, node) ==
  hirMod' = IF hirMod[f] = "absent" THEN [hirMod EXCEPT ![f] = node] ELSE hirMod

\* Mutant: a module that is being generated is not generated again.
generate_once(f) ==
  /\ stack' = IF \E k \in DOMAIN stack : stack[k].unit = f THEN Advance
              ELSE Push(Frame(f, "first"), Advance)
  /\ UNCHANGED <<phase, crash>>

\* Nothing remembers which modules have been generated, or are being generated.
generate(f) ==
  IF Len(stack) < StackLimit
  THEN stack' = Push(Frame(f, "first"), Advance) /\ UNCHANGED <<phase, crash>>
  ELSE Crash("stack") /\ UNCHANGED stack

\* generate of an import node.  get_module gives null for a path that was never
\* resolved, and null is dereferenced.
generate_import ==
  /\ AtImport("HIRGen")
  /\ LET f == path[top.unit][top.i] IN
     \/ /\ f \notin Files
        /\ Crash("no_module")
        /\ UNCHANGED <<stack, hirMod>>
     \/ /\ f \in Files /\ g_modules[f].ast = "null"
        /\ loadOrCreateMod(f, "null")
        /\ stack' = Advance
        /\ UNCHANGED <<phase, crash>>
     \/ /\ f \in Files /\ g_modules[f].ast = "tree"
        /\ generate(f)
        /\ UNCHANGED hirMod
  /\ UNCHANGED <<text, path, g_modules, fns, is_glob_var_allowed, errors, ir_out>>

\* Mutant: the error test after HIR generation is gone.
generate_body_no_error_test ==
  /\ AtBody("HIRGen") /\ Fault(top.unit) # "lower"
  /\ IF top.unit = ROOT
     THEN /\ phase' = "codegen"
          /\ stack' = <<Frame(ROOT, "first")>>
          /\ UNCHANGED hirMod
     ELSE /\ loadOrCreateMod(top.unit, "tree")
          /\ stack' = Tail(stack)
          /\ UNCHANGED phase
  /\ UNCHANGED <<text, crash, path, g_modules, fns, is_glob_var_allowed, errors, ir_out>>

\* The rest of the unit.  Panics are fatal here.  Errors of the semantic pass are
\* looked at when the whole program has been lowered.
generate_body ==
  /\ AtBody("HIRGen")
  /\ IF Fault(top.unit) = "lower"
     THEN /\ errors' = errors \cup {Error("lower", top.unit)}
          /\ phase' = "reported"
          /\ UNCHANGED <<stack, hirMod>>
     ELSE /\ IF top.unit = ROOT
             THEN /\ phase' = IF isError THEN "reported" ELSE "codegen"
                  /\ stack' = <<Frame(ROOT, "first")>>
                  /\ UNCHANGED hirMod
             ELSE /\ loadOrCreateMod(top.unit, "tree")
                  /\ stack' = Tail(stack)
                  /\ UNCHANGED phase
          /\ UNCHANGED errors
  /\ UNCHANGED <<text, crash, path, g_modules, fns, is_glob_var_allowed, ir_out>>

-----------------------------------------------------------------------------
(* Code generation *)

\* What the tree of a unit is: a lone statement is not wrapped in a block.
RootKind(u) ==
  LET t == text[FileOf(u)] IN
  IF Len(t.imports) + Len(t.body) # 1 THEN "block"
  ELSE IF t.body = << >> THEN "import" ELSE t.body[1]

\* Mutant: a module's IR goes on ir_out before its imports are generated.
codegen_import_first ==
  /\ AtImport("codegen") /\ RootKind(top.unit) = "block"
  /\ LET f == path[top.unit][top.i] IN
     /\ stack' = IF hirMod[f] = "tree" THEN Push(Frame(f, "first"), Advance) ELSE Advance
     /\ ir_out' = IF hirMod[f] = "tree" THEN Append(ir_out, f) ELSE ir_out
  /\ UNCHANGED <<text, phase, crash, path, g_modules, fns, is_glob_var_allowed, errors,
                 hirMod>>

\* pre_declare_import_stmts, for a block: every import with a tree is generated.
codegen_import ==
  /\ AtImport("codegen") /\ RootKind(top.unit) = "block"
  /\ LET f == path[top.unit][top.i] IN
     stack' = IF hirMod[f] = "tree" THEN Push(Frame(f, "first"), Advance) ELSE Advance
  /\ UNCHANGED <<text, phase, crash, path, g_modules, fns, is_glob_var_allowed, errors,
                 hirMod, ir_out>>

\* For a lone statement block_stmts is not the active member of HIRNode's union, and
\* what is there is read as a vector.  A function has a vector there, without
\* imports.  An import has its path: bytes that are no address, or look like an
\* empty vector.  An assignment has its target node.
codegen_lone ==
  /\ \/ AtImport("codegen") /\ RootKind(top.unit) = "import"
     \/ AtBody("codegen") /\ RootKind(top.unit) = "var"
  /\ \/ Crash("bad_root") /\ UNCHANGED stack
     \/ /\ RootKind(top.unit) = "import"
        /\ stack' = Advance
        /\ UNCHANGED <<phase, crash>>
  /\ UNCHANGED <<text, path, g_modules, fns, is_glob_var_allowed, errors, hirMod, ir_out>>

\* Mutant: the program's own IR goes on ir_out too.
codegen_end_with_root ==
  /\ AtBody("codegen") /\ RootKind(top.unit) # "var"
  /\ ir_out' = Append(ir_out, top.unit)
  /\ IF top.unit = ROOT
     THEN phase' = "done" /\ UNCHANGED stack
     ELSE stack' = Tail(stack) /\ UNCHANGED phase
  /\ UNCHANGED <<text, crash, path, g_modules, fns, is_glob_var_allowed, errors, hirMod>>

\* The end of codegen for a unit; a module's IR goes on ir_out when codegen returns.
codegen_end ==
  /\ AtBody("codegen") /\ RootKind(top.unit) # "var"
  /\ IF top.unit = ROOT
     THEN /\ phase' = IF HasFn(ROOT) THEN "done" ELSE "no_main"
          /\ UNCHANGED <<stack, ir_out>>
     ELSE /\ ir_out' = Append(ir_out, top.unit)
          /\ stack' = Tail(stack)
          /\ UNCHANGED phase
  /\ UNCHANGED <<text, crash, path, g_modules, fns, is_glob_var_allowed, errors, hirMod>>

-----------------------------------------------------------------------------
Finished == phase \in Ended /\ UNCHANGED vars

Step ==
  \/ semantic_check \/ import_fails \/ import_cached \/ import_new \/ check_body
  \/ generate_import \/ generate_body
  \/ codegen_import \/ codegen_lone \/ codegen_end

Next == Step \/ Finished

Spec == Init /\ [][Next]_vars
\* The compiler is one process that never waits.
FairSpec == Spec /\ WF_vars(Step)

-----------------------------------------------------------------------------
(* The import graph, as the resolved nodes give it *)

\* What can be reached from S: the least set that has S in it and that no edge
\* leaves.
Closed(C, edges) == \A u \in C : edges[u] \subseteq C
ReachFrom(S, edges) ==
  LET closed == {C \in SUBSET Files : S \subseteq C /\ Closed(C, edges)}
  IN {f \in Files : \A C \in closed : f \in C}

Edges == [u \in Units |-> Range(path[u]) \cap Files]
Reachable == ReachFrom(Edges[ROOT], Edges)
Cyclic == \E f \in Reachable : f \in ReachFrom(Edges[f], Edges)

\* The edges that codegen follows.
BlockEdges == [u \in Units |->
  IF RootKind(u) = "block" THEN {f \in Edges[u] : g_modules[f].ast = "tree"} ELSE {}]

-----------------------------------------------------------------------------
(* Properties *)

\* When the body of a unit is checked, in either pass and whatever the shape of the
\* graph, the functions of every module it imports are known, although on a cycle
\* that module's own check has not ended (semanic.cpp:43-46, import.cpp:92-125).
DirectImportsVisible ==
  AtBody("semantic") =>
    \A f \in Edges[top.unit] :
      g_modules[f].parsed /\ g_modules[f].ast = "tree" /\ HasFn(f) => f \in fns

\* A module is registered once, however often and under however many names it is
\* imported; only the program's own file can be registered again
\* (SemanticSymbolTable.cpp:252-266).
RedefinitionOnlyOfMain ==
  \A e \in errors : e.kind = "redefinition" => e.at = MainFile

\* When code is generated, no error has been reported and every module in the table
\* has been loaded and checked to the end (cmd-exec.cpp:173-182, import.cpp:92-98).
NoUncheckedCode ==
  phase \in {"codegen", "done", "no_main"} =>
    /\ ~isError
    /\ \A f \in Files : g_modules[f].state # "absent" =>
         g_modules[f].state = "MOD_LOADED" /\ g_modules[f].semantic_done

\* HIRGen, which runs before the errors are looked at, only meets an import without
\* a module after an error has been reported.
MissingModuleReported == crash = "no_module" => isError

\* generate recurses without end exactly on the programs with an import cycle: such
\* a program never gets to codegen, and no other program exhausts the stack.
OverflowOnlyOnCycles ==
  /\ crash = "stack" => Cyclic
  /\ phase \in {"codegen", "done", "no_main"} => ~Cyclic

\* A finished compilation has generated IR for exactly the modules in reach, each
\* with its imports before it (codegen.cpp:180-200).  How often is not said: a module
\* stands there once for every path of imports that leads to it.
IrInOrder ==
  phase = "done" =>
    /\ Range(ir_out) = ReachFrom(BlockEdges[ROOT], BlockEdges)
    /\ \A k \in DOMAIN ir_out : \A f \in BlockEdges[ir_out[k]] :
         \E j \in 1 .. k - 1 : ir_out[j] = f

\* A program without faults, whose imports all name files and which declares no
\* global variable, is compiled to the end, unless its imports are cyclic: modules
\* imported twice, from several places or under two names do no harm up to here.
SoundText ==
  /\ HasFn(ROOT)
  /\ \A f \in Files :
       /\ Fault(f) = "none"
       /\ RootKind(f) \in {"block", "fn"} /\ "var" \notin Range(Body(f))
       /\ \A k \in Range(text[f].imports) : Lookup[k] # NoFile
SoundProgramsCompile == SoundText => <>(phase = "done" \/ Cyclic)

\* Every compilation ends.
Termination == <>(phase \in Ended)

(* What the source says and the code does not do *)

\* SemanticSymbolTable.cpp:259, "Circular Import detected!": a cycle is reported.
CircularImportDetected == phase \notin {"semantic"} /\ Cyclic => isError

\* cmd-exec.cpp:172, "collect semantic errors like Rust": an import error is one of
\* the errors collected and counted, and does not end the compiler.
ErrorsAreCollected == crash # "no_module"

-----------------------------------------------------------------------------
(* The inductive invariant behind the safety properties *)

HasTree(u) == u = ROOT \/ g_modules[u].ast = "tree"
Resolved(u) == \A j \in DOMAIN path[u] : path[u][j] \in Files
Checking(f) == \E k \in DOMAIN stack : stack[k].unit = f
Beginning(f) == phase = "semantic" /\ stack[1].unit = f /\ stack[1].step = "begin"

\* The program is at the bottom of the stack; only the top frame is about to begin.
StackInv ==
  /\ stack # << >>
  /\ \A k \in DOMAIN stack : /\ HasTree(stack[k].unit)
                             /\ stack[k].unit = ROOT <=> k = Len(stack)
                             /\ stack[k].step = "begin" => k = 1 /\ phase = "semantic"

\* What the tables say of a module.  While there is no error, a loaded module is
\* checked already or its check goes on.
TableInv ==
  \A f \in Files :
    /\ g_modules[f].state = "absent" => g_modules[f].ast = "null"
    /\ g_modules[f].state = "MOD_LOADING" => isError /\ g_modules[f].ast = "null"
    /\ g_modules[f].state = "MOD_LOADED" /\ ~isError /\ ~g_modules[f].semantic_done =>
         /\ phase = "semantic"
         /\ \E k \in DOMAIN stack : stack[k].unit = f /\ stack[k].step # "again"
    /\ hirMod[f] = "tree" => g_modules[f].ast = "tree"

\* Registration happens between load_module and the first import.
FnsInv ==
  /\ \A f \in fns : f = MainFile \/ (g_modules[f].state = "MOD_LOADED" /\ ~Beginning(f))
  /\ \A f \in Files :
       g_modules[f].parsed /\ g_modules[f].ast = "tree" /\ HasFn(f) =>
         f \in fns \/ Beginning(f)

\* Without errors, the nodes are resolved as far as the semantic pass has come.
FrameResolved(x) ==
  IF x.step = "again" THEN Resolved(x.unit)
  ELSE \A j \in DOMAIN path[x.unit] : j < x.i => path[x.unit][j] \in Files

PathInv ==
  ~isError =>
    /\ phase = "semantic" =>
         /\ \A k \in DOMAIN stack : FrameResolved(stack[k])
         /\ \A f \in Files : HasTree(f) => Resolved(f) \/ Checking(f)
    /\ phase # "semantic" => \A u \in Units : HasTree(u) => Resolved(u)

CodegenInv == phase \in {"codegen", "done", "no_main"} => ~isError

ImportInv ==
  /\ TypeOK /\ StackInv /\ TableInv /\ FnsInv /\ PathInv /\ CodegenInv
  /\ RedefinitionOnlyOfMain /\ MissingModuleReported

=============================================================================
