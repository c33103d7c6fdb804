# A verification project for the Suvarnam compiler

TLA+ models of the compiler in this repository (`src/` is its root), the TLC
runs that check them on small instances, and TLAPS proofs of what holds for
every instance. Paths below are relative to the repository.

The compiler reads a program (`.sa`), loads the modules it imports, checks
everything, lowers it to a tree called HIR, generates LLVM IR for every module,
and lets `clang++` compile and link the results. A tree-walking interpreter is
built too, but `main` does not call it.

    main ─ parse_arguments ─ setup_input_file ─ parse_file        cmd-exec, parser
      └ compile_and_execute                                        cmd-exec
          ├ semantic_check ── handle_import ── load_module         semantic, SymbolTable
          │     └ scopes, types, calls, numeric literals
          ├ HIRGen::generate (one call per imported module)        HIRGen
          │     └ loops to while, calls, temporaries
          ├ codegen ── pre_declare_import_stmts ── codegen ...     codegen
          ├ clang++ -c  (one run for each IR file)
          ├ clang++     (link)
          └ clean-up ─ check_err

Passes communicate through shared state, not messages: the tree (`ASTNode`),
whose nodes one pass annotates for the next, the module table `g_modules`, the
function table `g_semantic_functions`, the scope stack, the error counters of
`error.cpp`, and the vector `ir_out`. Concurrent compilations communicate
through the file system only, which none of the code locks.

## Inventory

For each component: its state, its operations, what makes it hard, and what it
must do to be correct.

### Compiler driver (`src/src/main.c`, `src/src/cmd-exec`, `src/src/utils/error_handler`)
* State: command line (`-o`, `--emit-ir`, `-I`), `isError`, `error_fatal`, the
  counters, the files written so far.
* Operations: `parse_arguments`, `setup_input_file`, `parse_file`,
  `compile_and_execute` with its phases, `panic`/`warn`/`syserr`, `check_err`.
* Hard: error paths between the phases (each must clean up what exists by
  then), `error_fatal` that changes what `panic` does, external programs that
  fail, concurrent compilations, an interrupt.
* Correct: exit status 0 means an executable made of exactly this program,
  whatever earlier builds left behind; failure makes none; temporary files go,
  `--emit-ir` output stays.

### Module system (`semantic/import.cpp`, `SymbolTable/SemanticSymbolTable.cpp`, `HIRSymbolTable.cpp`)
* State: `g_modules` with a state per module, `importNode.path` of every import
  node, `g_semantic_functions`, `is_glob_var_allowed`, the HIR modules.
* Operations: `resolve`, `load_module`, `handle_import`, `ensure_semantic`,
  `register_global_var_and_fn`, the walks of `generate` and
  `pre_declare_import_stmts`.
* Hard: three recursive walks over a graph with cycles and shared nodes, each
  with a different idea of what was visited; checks that run twice; one error
  flag for everything.
* Correct: every import is loaded once and checked before code is generated;
  the functions of a direct import are known wherever they are called; IR is
  generated for exactly the modules in reach, each after its imports.

### Semantic scopes and types (`SemanticSymbolTable.cpp`, `semantic/*.cpp`)
* State: the scope stack, the `g_is_global` flags, `g_in_fn`, `g_fn_ret`,
  `g_current_fn_ret_type`, `g_in_loop`, the function table.
* Operations: `scope_push`/`pop`, `declare`, `lookup`, `assign_check`,
  `fn_declare`, `handle_fn`, `call`, `ret`, `check_for_loop`, `analyze_returns`.
* Hard: context saved and restored by hand across nested functions, early
  returns between push and pop, two passes that declare.
* Correct: scopes balance on every path; a name means the innermost
  declaration; an accepted function with a result returns on every path.

### Loops and control flow (`HIRGen/handle_loops.cpp`, `codegen/handle_loops.cpp`, `emit_expr.cpp`, `emit_if`, `emit_function`)
* State: the side-effect buffer, the loop counter that names temporaries, the
  stack of loop targets, the insertion block and whether it is terminated.
* Operations: range and list loops lowered to `while`, `break`, `continue`,
  `if`, `return`, the fallback return.
* Hard: `continue` against a step that is a body statement; ranges that end at
  a type's limit, go down, or are empty; code after a terminator.
* Correct: a lowered loop visits what the source says, in order, once, and
  ends; every basic block has one terminator.

### HIR generation of expressions (`HIRGen.cpp`, `call.cpp`, `constructor.cpp`, `helper.cpp`)
* State: the statement list under construction, temporaries for lists.
* Operations: `generate`, `handle_call` with argument packing for variadic
  groups, `flatten_sequence`, literals.
* Correct: every argument reaches the parameter the semantic pass gave it.

### Numeric types (`numeric_handler.cpp`, `numeric_helper.cpp`, `codegen/helper.cpp`, `op_handler.cpp`, eval's `binop.c`)
* Pure: promotion, literal ranges, signed/unsigned/float choices.
* Hard: the limits of each width, signed against unsigned, compiled against
  interpreted result.

### Interpreter (`src/src/eval`, `EvalSymbolTable.cpp`, `frontend/ast/env.c`)
* State: runtime frames with ids, bindings, the return flag.
* Hard: references that outlive their frame, values freed before they are
  copied, a return flag that is passed by value.
* Correct: a reference is detected as dangling or names the frame it was taken
  in; frames balance.

### String runtime (`src/lib/helper/StrHelper.cpp`)
* Pure: concatenation, repetition, code-point indexing, UTF-8 encoding.

### Functions and calls (`semantic/fn_handler.cpp`, `register_handler.cpp`, `HIRGen/call.cpp`, `codegen/handle_fn.cpp`, `BuiltinRegistry.cpp`)
* State: the function table with return types that bodies fill in, the types
  left on argument nodes, `current_group`, the declarations in the LLVM module,
  the registry (a table that `bootstrap` fills).
* Operations: registration, `call`, `ret`, `distribute_lowered_arg`,
  `emit_varargs_to_call`, prototypes, `emit_call`.
* Hard: arguments are dealt out to variadic groups in two passes; three makers
  of declarations; a type that is asked for before it is inferred.
* Correct: every argument reaches the parameter its signature names, and a call
  has the type of its value.

### Lexer and parser, diagnostics
Scanner and parser are generated; what they hand on (a tree, a recovered tree
with errors, or no tree) is an input of the models. The wording of messages is
not modelled.

## Plan

| order | module | about | composes | status |
|---|---|---|---|---|
| 1 | `BuildDriver` | invocations, files, error paths | — | done, proved |
| 2 | `ModuleImport` | imports through the three passes | gives `BuildDriver` its `Imports` and verdicts | done, proved |
| 3 | `RangeLoops`, `ForNest`, `LoopNest` | what a nest of loops promises, and the compiled one; `continue`, limits, allocas | abstract and detailed | done, proved |
| 4 | `ScopedPrograms`, `SemanticScopes`, `NameBinding` | scope rules; the semantic pass that binds names; codegen, which looks them up again | rules and two passes | done, proved |
| 5 | `ValueTypes`, `Signatures`, `CallBinding`, `CallChecking`, `CallLowering` | readings of a call; the semantic pass over a call and its callee; lowering, prototypes, casts | abstract and two passes | done, proved in part |
| 6 | `Numerals`, `NumberTypes`, `NumberChecking`, `Arithmetics`, `NumberMeaning`, `NumberCode` | numeric types and literals; what compiled and interpreted programs compute | types and meaning, checker, two back ends | done, proved in part |
| 7 | `FunctionBodies`, `FunctionPromise`, `ReturnChecking`, `FunctionCode` | where control goes; `analyze_returns`; basic blocks and their execution | abstract and two passes | done, refinement proved |
| 8 | `RuntimeEnv` | frames, references, the return flag of the interpreter | abstract store without ids | open |
| 9 | `Utf8`, lists | code points; list values, indices, pointers | — | open |

`Nesting` is the part of the programs of 4 and 7 that is about their constructs;
`NestingProofs` has the lemmas about levels, the constructs around a token, and
the call stack of a walk, which the proofs of both rest on.

Theorems still worth proving: the refinements of 5 and 6.
`RuntimeEnv` comes last because nothing calls the interpreter with a program
that has functions; `Utf8` is pure, and has no state to model.

## `BuildDriver`: invocations and their files

Each member of `Procs` is a run of the compiler; `pc[p]` names the phase it is
in, one action per phase, in the order of `compile_and_execute`. The only shared
variable is `fs`, in which a file is the set of translation units whose code it
holds; so an executable that mixes two programs, or a new program and an old
one, is visible as such. It starts with whatever earlier builds may have left
(`Left`; their code is that of `Earlier`): the IR of an import is never
unlinked, a failed build leaves object files and the old executable, an
interrupted one anything. `unwritten`, a history variable, has the imports whose
IR file did not open. Front end and passes appear by their verdicts: an error
collected or fatal, an import without a module, no tree, no `main`. `panic` is
modelled with both of its behaviours; `Faults` says what the environment may do:
an IR file that does not open (`main_ir`, `import_ir`), `clang++` failing
(`clang`), an interrupt (`kill`). `clang++` is external and atomic: it reads its
inputs and writes its output, or fails.

Runs:

| run | shows |
|---|---|
| `BuildIsolated` | two invocations with every fault, one with two imports, one with `--emit-ir`, that share no file with each other, in a file system with any of the files that earlier builds leave: `OwnBinary`, `NoStrayBinary`, `TempFilesRemoved`, `EmittedIrKept`, and that both end |
| `BuildSharedTemp` | two plain compilations at once: `/tmp/temp_suvarnam_main.ll` is everybody's, and one of them exits with 0 although its executable is the other's program (violation) |

Bounds: two invocations, since every property speaks about one invocation and
whatever the others do to its files; two imports, so that a failure falls
before, between and after them. No counter needs a cap: `n` runs over the
imports. Old files come and go in groups (`MCGroups`): each IR file and each
executable by itself, the object files together, since nothing reads one that
this build has not written. `BuildSharedTemp` starts with a clean system, so
that what it shows is not the fault of an old file.

Fairness is `WF(Step(p))` for each invocation: the operating system schedules
every process, and `clang++` returns. `interrupt` is not fair.

`SUCCESS` is printed by codegen, and so also when the IR of an import could not
be written. If an old file of that name is there, it is compiled and linked, and
the compiler exits with 0: this is the exception in `OwnBinary`, which says that
in place of such an import, and nowhere else, the executable has old code. If
there is none, `clang++` fails. A failing path before the link does not touch
the `-o` path, so that an old executable stays there; `NoStrayBinary` promises
that there is no *new* one. Object files of units compiled before a failing one
do stay behind; this is why `TempFilesRemoved` promises them only once the link
was tried.

### Proved (`BuildDriverProofs`)

For any number of invocations, modules and imports, and from every file system
that `Left` may name: `TypeCorrect` (no assumption beyond `DriverConstants`),
`NoBinaryOnFailure`, assuming only that `-o` paths are private (`PrivateOutput`),
and, assuming `PrivatePaths`, `IsolatedBuild`, `TempFilesAreRemoved` and
`EmittedIrIsKept`: these are the four safety properties of the run.
`PrivatePaths` says that no two of these invocations use one file and none uses a
file twice (earlier ones may have used all of them); `BuildSharedTemp` shows that it
cannot be dropped, and the module `MCBuildIsolated` has TLC evaluate it on the
instance of the run.

The properties speak about exited invocations and are far from inductive. For
`NoStrayBinary` it takes `OutputInv`: an error never gets past the test after HIR
generation (`ErrorState`), the `SUCCESS` line marks the phases after codegen
(`SuccessState`), and new code is at the `-o` path only behind a link that worked
(`OutputState`). `DriverInv` adds what each file holds in each phase: the IR that was
written and not yet unlinked (`IrState`), the object files made so far
(`ObjectState`), and what the link makes of them (`BinaryState`, which says of an
import that was not written that its place is taken by old code only). An old file is
always allowed where this build has not come to write yet. Steps of other invocations
are dealt with once, by lemmas about the files they leave alone (`StepFrame`,
`FileFrame`). `Termination` stays with TLC.

## `ModuleImport`: imports through the three passes

One compilation. A file's text is its imports, then its body (functions and
global variables), and at most one fault, which decides what the passes report.
`stack` is the call stack of the pass that runs; a frame is one activation of
`semantic_check`/`check_expr`, `generate` or `codegen`, with the statement it is
at. The actions are the pieces of these functions between two calls:
`semantic_check` (registration), `import_fails`, `import_cached`, `import_new`
(the outcomes of `handle_import` with `load_module`), `check_body`;
`generate_import`, `generate_body`; `codegen_import`, `codegen_lone`,
`codegen_end`. The program's own tree is not in `g_modules`, so it is the unit
`ROOT`, distinct from its file.

Read from the code and kept in the model:
* a module's imports are looked up in the *program's* directory, since
  `load_module` restores `file->filename` before the module is checked; `Lookup`
  is therefore one table for the whole compilation;
* `handle_import` checks a new module twice (`semantic_check`, `check_expr`);
* `parsed` is `!isError` of the whole compilation;
* `import_parse_failed` is two static variables of one name, one that is set and
  one that is tested, so it has no effect; `errors_before_parse` is unused;
* a root with a single statement is not wrapped in a block, and codegen reads
  `block_stmts` of it all the same;
* an error in a module's body is reported under the program's name (`named`, as
  opposed to `at`), since `file->filename` is restored after the parse;
* the second check of a module finds `is_glob_var_allowed` cleared by its first
  function, and rejects its global variables;
* when a module imports the program's own file, that file is loaded again as a
  module and its functions are redefinitions.

Runs:

| run | shows |
|---|---|
| `ImportGraphs` | every import graph over the program and two modules, cycles, self-imports, aliases and missing files included, with every fault in one file, and acyclic graphs over three modules: every import visible and checked, IR in order, sound programs compiled to the end |
| `ImportCircular` | a cycle of two modules: no error, although a comment says it is detected (violation) |
| `ImportMissing` | a missing import: HIR generation crashes before the errors are reported (violation) |

A module that two others import is generated twice, and is on `ir_out` twice: the
linker is given its object file two times, finds every symbol twice, and fails.
`IrInOrder` allows for it: it is about order and completeness, and says nothing of
how often a module is there.

Left out: `load_module` looks at the last two characters of a request that it
cannot resolve, and `substr` throws for a request of one character.

Bounds: two modules suffice for a cycle with and without the program on it, an
alias, a repeated import, and a module requested while it is being checked;
three for diamonds. `StackLimit` stands for the machine's stack: it is larger
than the deepest acyclic chain (`ImportConstants`), which is all
`OverflowOnlyOnCycles` needs to tell cycles from the rest. A body has at most
two items, enough for every order of a variable and a function.

Fairness is `WF(Step)`: the compiler is one process that never waits.

### Proved (`ModuleImportProofs`)

For every set of files, lookup table and program: `ImportTypes`,
`NoOtherRedefinition`, `NoUnreportedMissingModule`, `OnlyCheckedCode` and
`ImportsAreVisible`, from the inductive invariant `ImportInv`
(`ImportInvariant`). Types alone are not inductive: codegen reads
`hirMod[path[u][i]]`, which is a module only because every node was resolved.
The parts:
* `StackInv`: `ROOT` is at the bottom and nowhere else, only the top frame is
  about to begin, every unit on the stack has a tree;
* `TableInv`: a loaded module that is not checked yet is on the stack, unless an
  error was reported; errors never go away;
* `FnsInv`: a parsed module is registered, or about to be, before anything looks
  at its functions. A new module is absent from the table, hence neither on the
  stack nor registered, which is why nothing is registered twice;
* `PathInv`: without errors the import nodes are resolved up to where each
  activation is;
* `CodegenInv`: code generation means no error.

The two properties about reachability, `OverflowMeansCycle` and `IrIsInOrder`,
are proved in the same module for import graphs of any size, from
`GraphInv` (`GraphInvariant`). `ReachFrom` is the least set that is closed under
imports; so what is in reach is found by naming a closed set that it is not in,
and no induction over paths is needed.
* `LoweredInv`: a module in `hirMod` with a tree has only imports that HIRGen is
  done with, and is on no cycle; a module on a cycle is never finished.
* `DescentInv`: HIRGen's stack is a path of the graph: every frame is in reach of
  all below it. On an acyclic graph no file is on it twice, and a stack deeper
  than the number of files and the program is impossible (pigeonhole), so
  `StackLimit` is never reached.
* `WholeInv`: past HIRGen the graph has no cycle and the program is lowered.
* `EmitInv`: codegen's stack is a path of lowered modules in reach; every import
  that a frame has passed is on `ir_out`, which only holds modules in reach, each
  behind its imports. When the program's own frame is left, the modules on
  `ir_out` are closed under imports, hence all that are in reach.

`SoundProgramsCompile` and `Termination` (liveness) stay with TLC.

## `RangeLoops`, `ForNest`, `LoopNest`: loops, lowered and compiled

`RangeLoops` holds the loops as the parser and the type checker leave them, and
what their headers say: direction, step, members. `ForNest` is the promise: a
nest of loops in which each body runs once for every member of its range, in
order, whatever the loops inside do; `seen` is what a body finds in the
iterators around it. `LoopNest` is what the code makes of it. `block` and
`level` say where control is (the blocks `while.cond`, `while.body`,
`while.expr`, `while.end` of `emit_whileloop`), `var` holds the allocas of
iterators *by name*, as `get_or_create_alloca` finds them, `idx` the hidden
index of list loops, and `expr` what `while_loop.expr` of each node holds. An
action is what runs between two branches. `k` counts rounds; it is a history
variable, which gives `ForNest` its `k`.

Numbers: a type has limits, `Wrap` is two's complement, `i64` what the direction
test reads of a literal, and `step_val` what `emit_number` makes of a default
step that was written as `i64`. Floating-point values are whole numbers and
`NaN`; all that is used of them is that 1 read as a float is absorbed and -1 is
no number.

| run | shows |
|---|---|
| `LoopNests` | sound loops, alone and in pairs, left in every way, implement `ForNest` (`ImplementsForNest`) and end |
| `LoopContinue` | `continue` skips the step of a range loop (violation) |

`SoundNest`, under which the rest holds, excludes what the code gets wrong: the
default step of a floating-point range does not move it, a descending range with
a bound that is no literal is compiled as an ascending one and skipped, nested
loops with one iterator name, or without any, count with one variable,
`continue` skips the step, and the comparison that a user writes in a `while`
has the type `BOOL`, so that `emit_binop` compares unsigned operands as signed
ones (`compared`; the comparison of a lowered loop has the iterator's type). So:
no float, the direction and step that the lowering sees are those written, every
step leads towards the end and none (not even the one after the last member)
leaves the type, a `while` over an unsigned type tests only values of that half
of the type where its end is (`InHalf`), no range or list loop has a `continue`,
and no two loops of a nest have one iterator name. That excludes an inclusive
range up to the type's maximum and an unsigned one down to 0, which do not end.

Nothing sets `while_loop.expr` of a range or list loop, and codegen follows it:
undefined behaviour, harmless while the memory of the node is fresh and holds
null. `compile` has both outcomes.

Bounds: words of four bits (`WordMax`), types of three to five, so that every
bound and step up to the limits is enumerated (of the wider types those around
the limits and the middle), and a literal's low word differs from its value;
`while` loops over signed types, and over unsigned ones of every width, in both
halves; depth 2, which has a loop with one around it and one inside it. `k`
needs no cap, since it counts rounds of loops that end.

Fairness is `WF(Run)`: compiler and program are single processes that do not
wait. Leaving a loop early is a choice (the `if` around it is data), so
`Termination` does not rest on it.

### Proved (`LoopNestProofs`)

`LoopTypes` needs no assumption. `LoopInvariant` and `NestsImplementForNest`
assume `SoundNest` of every nest, and hold for any depth, any types and word
width. `LoopInv` says of the loop that runs what its counter is in each block
(before the step, a `while` loop lags by one round, a range loop does not; what
it tests is what `InHalf` speaks of, `Comparable`), and of every loop around it
that it is in a round: counter, iterator and member agree. The last part is what
makes it inductive and is where distinct names are used (`OtherRounds`);
soundness enters in `SoundPlus` and `SoundCondition`. `NestsImplementForNest`
maps `entry`, `compile` and `while_expr` to stutters and every other action to
one of `ForNest`. `Termination` stays with TLC.

Not in the model: bodies that assign a `mut` iterator, `while` loops without a
step expression, ranges whose bounds have effects (they are evaluated again
before every round: here an end is a constant), a step of a wider type than the
bounds, and what a list holds.

## `ScopedPrograms`, `SemanticScopes`, `NameBinding`: from names to storage

A name is resolved twice: the semantic pass binds it with a stack of scopes that
for loops and functions open, and codegen looks it up again in `Codegen::Scope`s
that loops and functions open. Nothing is handed from the one to the other but
`isglobal`. `ScopedPrograms` reduces a program to its names: declarations, reads,
assignments and the constructs around them, as the tokens in which the recursive
walks meet them; and it states the scope rules of the language on the text, by
positions, without walking it. `SemanticScopes` is the semantic pass
(`register_global_var_and_fn`, then `check_expr` with one action per handler, and
`check_end` for what a handler does behind its body); `calls` is the C++ call
stack, `bind` and `target` remember what reads and assignments were bound to.
`NameBinding` extends it with the two walks of codegen (`emit_functions`,
`emit_init`); `storage`, `load` and `dest` remember what a declaration was given
and what reads and assignments were emitted for. A declaration is its position.

Read from the code and kept in the model:
* a global variable is declared when it is registered and met again when it is
  checked, which is no error; its value is checked at both times;
* `is_glob_var_allowed` is cleared by the first function and not set again;
* `exists` compares `isglobal` with that of `node_ptr`, which is null for a
  parameter (a crash when it is read) and the iterable for an iterator;
* an undeclared target of an assignment, or condition, is a null dereference
  before the error is reported or looked at;
* the early return of `check_for_loop` is in front of `scope_push`;
* a block has no scope; a `while` body has one in codegen only;
* codegen declares the iterator in the scope around its loop, and gives a
  declaration any storage that is known under its name;
* `get_or_create_alloca` enters what it creates through `Scope::operator[]`, which
  goes up to the scope that has the name; if none has, that is the outermost one,
  and not "the current local block" its comment speaks of
  (`SymbolTableInternal.hpp:108`). So an inner declaration is never a variable of
  its own, and a name declared in the body of a `while` is found behind it;
* a block that is terminated skips what follows, except an `else`, the step of a
  `while`, and what is behind the construct.

| run | shows |
|---|---|
| `NameBindings` | every program of up to three statements (four in a function) over one name, and some over two names and of two functions: scopes match the running handlers (`ScopesMatchCalls`), names are bound as the rules say (`BindsLexically`), a program is accepted if and only if it obeys them (`AcceptsWellScoped`), loads and stores reach the storage of what was bound (`StorageFollowsBinding`), all declarations of a name in a function share one variable, and nothing else does (`OneVariablePerName`), and compilation ends |

The exceptions are definitions of their own, each a fault of the code: `Peculiar`
(a parameter is read, `@` behind a function, `@x` where a local `x` is in scope,
the iterator over a global list is read) for what is accepted; and for storage
`Captured` (a local variable of the top level, used in a function), `Doubled` (a
local variable of the top level, where a global one has that name too), `Covered`
(a global variable, used behind a local declaration of that name in the same
function, whether that is in scope or not) and `Masked` (`@x` where a local `x`
is in scope). So, behind a loop over `x`, an assignment to the global `x` goes to
the loop's iterator; and a global variable behind a function is rejected for an
`@` that nobody wrote. Two names of one function in nested scopes are one
variable, which `StorageFollowsBinding` cannot see, as the binding of each is to
its own declaration; `OneVariablePerName` says exactly when it happens.

Bounds: one name for most programs, since both tables are maps by name and the
rules of one name do not mention another; `@` tells the two variables of that
name apart. Programs over two names, with a declaration and uses of each or with
two loops behind each other, and programs of two functions are added, so that
storage of different names and functions is told apart. Three statements nest to
depth three and leave room for a declaration, a redeclaration and a use in any
nesting; `else`, `while` steps and two-part programs are added by hand. Programs
are finite, so `MaxLen` bounds nothing that the properties need.

Types are left out: a program is taken to be well typed where its names are
bound. Calls have models of their own, and so has what `analyze_returns` demands.

Fairness is `WF(Next)`: one process that never waits.

### Proved (`NameBindingProofs`)

For every set of programs and names: `TypeCorrect` and `ScopesPaired`, the first
two properties of the run, from the inductive invariant `ScopeInv`
(`ScopeInvariant`). Both need to know that the walk is where the call stack says
it is: `Shape` adds that `Len(calls)` is the level of the token that is met next
(`LevelOfNext`, `LevelBehind`), so that nothing is popped that was not pushed, a
statement that is skipped leaves the level as it was, and the walk ends with an
empty stack; and that in codegen a function is at the bottom of the stack only.
`ProgramConstants` says what the parser guarantees of a program: constructs are
closed, functions are at the top level, an assignment has a target.

`BindingIsLexical` and `AcceptsExactlyWellScoped` are the next two properties,
from `RulesInv` (`RulesInvariant`). The scope rules are stated by positions, the
pass has a stack of maps, so the invariant says what the stack is at a position,
as long as no error is reported:
* while globals are registered, the root scope has, by name, the first global
  declared in front of `pc`, and the values in front of it read such globals
  (`Registering`);
* while the program is checked (`Checked`), `calls` are the constructs around
  `pc` (`Inside`); behind the root and the file's scope, the stack has one scope
  for each of them that is a function or a `for`, outermost first, and that scope
  holds exactly the declarations in front of `pc` whose `ScopeOf` it is
  (`Layered`, `Owned`); `is_glob_var_allowed` and `g_in_fn` say whether a function
  is in front of `pc`, and around it;
* outside `Peculiar`, every position in front of `pc` is well scoped.

`TableDeclares`, `TableOpens`, `TableCloses` and `TableStays` carry the table
over a token; `TableLookup` says that the innermost entry of a name is then the
local declaration made last, because the declarations of an outer owner are in
front of those of an inner one (`OuterFirst`). One lemma per handler
(`DeclarationJudged`, `AssignJudged`, ...) shows that it reports an error, outside
`Peculiar`, if and only if its token breaks a rule. That needs the table up to
the first error only; behind it, nothing is claimed but that errors are kept.
Each part of `Peculiar` is used once, where the handler and the rules differ.
`Bound`, the half about `bind` and `target`, needs `Masked` alone.

`StorageIsFollowed` and `VariablesByName` are the two properties about codegen,
from `StorageInv` (`StorageInvariant`), which rests on the two invariants above.
The semantic pass binds by scopes, codegen by whatever is known under a name;
what connects them is that codegen, whatever its scopes, has one variable for a
name:
* while a function, or the rest of the top level, is emitted, its outermost scope
  knows exactly the names that have a declaration in front of `pc` there, each as
  the storage that declaration was given (`Root`); every other scope knows a name
  as the outermost one does, or not at all (`Uniform`);
* a local declaration has an alloca that was made for a declaration of that name
  in that function (`Origins`), and all of them have the same (`Sharing`), except for
  `Doubled` names, which may have the global variable;
* the walk is inside the constructs that `calls` names (`Walking`), functions are
  emitted first, and everything in the order of the text (`InOrder`);
* what a name was emitted for is the storage of what it was bound to (`Followed`).
  A global variable may be read in a function, which is emitted before the
  declaration is: `Reached` says what storage the declaration is going to have.

`UniformLookup` says that in such a table the innermost entry of a name is that
of the outermost scope; `DeclarationShares` that a declaration keeps the table so,
by way of `Registered`; `NameReaches` that a name bound to a local declaration
finds its alloca, and one bound to a global declaration the global variable unless
it is `Covered`. `TokenEmitted` and `DeclaredTable` put these together, and one
lemma per action (`StorageParam`, `StorageFor`, ...) ends the induction. A
parameter is entered in the scope of the function without a look at what is there;
that no other parameter has its name is what the semantic pass has checked
(`DistinctUpTo`, kept only as long as there is no error).

Only `Termination` stays with TLC.

## `CallBinding`, `CallChecking`, `CallLowering`: calls

`ValueTypes` holds the types of values, how they compare, how a literal is typed
and what a type is in LLVM; a type is its base and the base of its inner type.
`Signatures` adds parameters, the builtin registry (one builtin of each shape)
and the counting of fixed and variadic parameters, which `call` and `call.cpp`
do separately. `CallBinding` is the promise: a *reading* gives every argument a
parameter, by types and order, without any of the counters; a call is bound by
a reading, or rejected because there is none. `CallChecking` is the semantic
pass over one call and its callee: registration, the callee's body before or
behind the call, then one argument per step. `CallLowering` extends it with
HIRGen, which deals the arguments out again, and with codegen: the declaration
that is found (own, imported, a sibling module's, a builtin's), the casts, and
LLVM's verdict on the call.

Read from the code and kept in the model:
* a function without a declared return type gets it when its body is checked; a
  call that was checked before has no type for good (`CallHasItsType` says so);
* a parameter behind a variadic one is asked for its inner type, which is a
  null pointer for scalars: the compiler crashes;
* a variadic builtin does not count its arguments, and an argument that is
  missing ends the check without an error;
* `len` is checked by its last argument and compiled by its first;
* the declaration of a function that is not imported has no hidden counts;
* a user's function with a variadic builtin's name is checked as the builtin and
  lowered as the function;
* `types_are_equal` does not tell numeric types apart and the cast in
  `emit_call` only changes widths.

* a user's function named `len` is typed as the builtin and compiled as itself; a
  sibling module's function with a builtin's name is compiled as the builtin
  (`TakenForBuiltin`);
* a function without a declared return type that returns a call which was
  checked too early has a type that LLVM does not: `ir_type` returns null, and
  the compiler crashes (`no type`).

* the elements of a variadic group are stored as they are, in slots of the group's
  type (`generateList`): a number of another type, which the last group takes for want
  of a better one, or an integer literal in a group of `I64`, is not what the callee
  reads.

The last seven are in `Fragile`, `Shadowed`, `TakenForBuiltin` and `Misfit`, where
nothing but an end is promised. What is beyond these types: `len` of a variadic
parameter is 0, and the sizes of lists, which `types_are_equal` compares as well.

| run | shows |
|---|---|
| `Calls` | calls of every kind of callee with up to four arguments: each is read as its signature says, and its arguments arrive as they were passed, or it is rejected for want of a reading, or one of those listed (`ImplementsCallBinding`), both passes deal out alike (`GroupsAgree`), a call has the type of its value (`CallHasItsType`), and compilation ends |

Bounds: up to three groups behind at most one fixed parameter and four
arguments, so that a group can be empty, single, repeated, skipped, first and
last; disordered parameters up to three. One-parameter callees have every kind of
parameter, name and linkage with every kind of argument; `Namesakes` are user
functions with the names of all builtins, in each linkage. Fairness is
`WF(Compile)`: one process that does not wait.

### Proved (`CallProofs`)

For every set of calls over these types and builtins (`CallConstants` only says
that they are calls, and that a `return` has a typed value): `TypesAreKept`,
`BothPassesDealAlike` and `CallsHaveTheirTypes`, the three invariants of the
run, for any number of parameters, groups and arguments.

* `TypesInv`: a search for a group begins at one, and each group of the callee
  has its sequence; the search finds a group that is there (`FirstMatchRange`).
* `DealInv`: both passes compute `Begin(k)`, the group at which the search for
  argument `k` starts. It depends on the types of the arguments in front only,
  and these no longer change once an argument was passed; so what HIRGen deals
  out up to `arg_index` is what the semantic pass had checked. The invariant
  holds as long as there is no error, since the pass stops at the first one and
  HIRGen goes on (nothing is compiled then).
* `CallInv`: where the callee's return type comes from (`ReturnInv`), the
  signature the call was checked against (`SignatureInv`, `AcceptInv`), and the
  declaration that codegen finds (`CalleeInv`). `NothingIsPassed` is needed for
  variadic builtins without arguments, whose handler leaves the call without a
  type: LLVM's verdict rejects them for their fixed parameters.

`ImplementsCallBinding` compares the passes with all readings of a call, by types
and order, and stays with TLC, with `Termination`.

## `NumberMeaning`, `NumberChecking`, `NumberCode`: numbers

`Numerals` holds the numeric types, with their widths scaled by `Bits`, and the
nodes of expressions; `Arithmetics` the operations both back ends apply.
`NumberTypes` says of the text of a program which type each node means and
whether it is well typed, and `NumberMeaning` what it computes, in mathematics:
an operation converts to the promoted type of its operands, an assignment to the
variable's type.
`NumberChecking` is the semantic pass (types forced on literals, promotion,
ranges), one action per node in evaluation order. `NumberCode` runs an accepted
program in two ways: through codegen, where an instruction has the class and
width that `emit_binop` chooses, and through the interpreter, whose values are a
union read by the type of a node (`SA_as`, `SA_from`, `SA_cast_typed`).

`CompilerAstray` and `InterpreterAstray` cover the programs for which each back
end leaves something else in a variable: outside these lists a program leaves
what it means. Inside nothing is promised, and some that are listed come out
right all the same (an `I32` added to a `U32` has the right bits). Among them:
operands are not converted, comparisons are signed integers', `&&`, `||` and
powers are dropped with all they stand in, `~` is no operation, literals of 128
bits go through 64, and in the interpreter `y++` leaves `y` alone, and an `I64`
loses its sign or half its bits when it is cast. Only a lone literal of a
declaration is compared with its type's range; the rest is `Meaningless`.

| run | shows |
|---|---|
| `Numbers` | every operation on variables of two types (eleven types with six) at the limits of their ranges, lone literals at the limits of every type and next to variables, nested operations and compound assignments, compiled and interpreted: the accepted programs are the well-typed ones, up to literals that do not fit (`AcceptsWellTyped`), have the types they mean (`TypesAsMeant`), and leave the values they mean, or are listed (`ImplementsNumberMeaning`) |
| `NumberWidths` | the sum of an `I32` and an `I64` is one instruction with operands of both widths (violation) |

Bounds: widths of 2 to 6 bits, in the order of 8 to 128, so that all limits are
enumerated; programs of one or two statements over `x` and at most two read-only
variables, since an expression is computed node by node and a node has two
operands. Floating-point numbers are counted in halves and exact; they are added,
subtracted and compared, and what other operations make of them is left open
(`Undefined`), like a division by zero. `x op= e` is taken for numeric `x` only,
and `y++` where `y` is not read elsewhere in the expression. There is no
fairness: the programs are straight lines, and nothing is claimed of their end.
`main` never calls the interpreter (`ast_eval_main`), so the second path is that
of a back end at rest.

### Proved (`NumberProofs`)

For every set of programs, expressions of any size, and every width of the
types: `ValuesFitStorage` (`TypeOK`), `TypesKept` (`TypesAsMeant`) and
`AcceptedAreWellTyped` (`AcceptsWellTyped`). `NumInv` is what is inductive
(`NumberInvariant`):

* `StateInv`: the program is one of `Programs`, the cursor is at one of its
  nodes, and every node has a type;
* `CheckInv`: without an error, the nodes in front of the cursor have the types
  they mean and are well typed, and those behind it have the type that literals
  are forced to, or none; the first error is one of a node that is not well
  typed, or of a literal that does not fit. Neither property could do without
  the other: a promoted type is right only if the operands' are, and the operator
  checks are the rules of `NodeIsTyped` only for operands with the types they
  mean;
* `RunInv`: in compiled code every value made so far fits the width of its LLVM
  type, and is one bit where the node means a truth value: that is why `OP_NOT`
  cannot leave its range. So `TypeOK`, which is about variables, rests on the
  types of all nodes. The interpreter's values need no more than a type, since
  `SA_from` cuts whatever it stores.

Both sides of `TypesAsMeant` and the instructions of `Power` and `&` are
recursive functions, over nodes or numbers. That a recursive function has the
values its definition says, and is the only one that has them, is shown first
(`RecursionExists`, `RecursionUnique`): where two of them differ there is
a least number at which they do (`Least`, from the library's theorem on
well-founded relations), and the rule looks at smaller numbers only. `promote`
and `Promoted`, which are written differently, are then compared case by case.

The proofs assume `BitsAssumption` (larger types have more bits, as in
`numeric_bits`), `ProgramsAssumption` (what the parser and the binding of names
leave: operands are in front of what they belong to, only known names are read)
and `PowersOfTwo`, two facts of arithmetic that no installed prover knows.
`ImplementsNumberMeaning` stays with TLC: it says that two different recursive
computations give the same number, bit for bit.

## `FunctionPromise`, `ReturnChecking`, `FunctionCode`: what a function returns

`FunctionBodies` reduces a body to its control flow (what is returned, the
conditions, `if`, `while`, `break`, `continue`, and any other statement as a
mark), in the tokens of `Nesting`, and states on the text where control goes
(`Here`, `Successors`, `Reached`) and what a function must return
(`Acceptable`). `FunctionPromise` is the abstract machine: a function is
rejected for a reason, or control moves through its *text*, and ends at a return
statement if there is a result. `ReturnChecking` is the semantic pass: one
action per handler, then `analyze_returns`, a recursive function over the body
that returns the same `always_return` and `always_fallthrough`. `FunctionCode`
has codegen emit at an insertion point, block by block (`code`, `insert`,
`loopStack`), with what is passed over while the block is terminated; then
LLVM's verdict; then the *blocks* are executed. `Position` maps execution back
to the text, which makes `ImplementsPromise` a refinement.

Read from the code and kept in the model:
* `*cond->literal.raw` is read of every condition of an `if` outside loops, but
  `raw` is a member of a union: of a variable or a call it is the name, so a
  condition beginning with `t` counts as a return and one with `f` as false
  (`TrustsLetter`); of an operation it is the operator's number, used as an
  address (`NoLetter`): the compiler crashes on `if (a < b)`;
* an `if` with an `else` where something counts as a return, though control may run
  through a branch, is taken for a dead end, and a correct function is rejected
  (`OneArmed`);
* the returns of a function without a declared type are not compared with each
  other (`MixedReturns`), and what is returned is not converted to the type of
  the result (`OtherWidth`), which LLVM refuses;
* the fallback return behind the last statement is an integer's: for a
  floating-point number or a string the compiler aborts, although the end may
  not be reached (`NoInteger`);
* `flatten_sequence` would place the content of `side_effect_buffer` in front of a
  statement, but nothing is ever put there.

| run | shows |
|---|---|
| `Functions` | every body of up to three statements, with every kind of condition in bodies of up to two, and every type of result with every kind of value: `ImplementsPromise`; no closed block is changed (`ClosedBlocksStay`); all blocks are closed in the end and lead to blocks that exist (`EveryBlockCloses`); compilation ends |

Each of the exceptions is needed: without it the run fails. Bounds: three
statements nest to depth three, with something behind a jump, a branch or a
loop; `if` with an `else` has a statement or none in its first branch, one in the
other and one behind, or an `if` in one branch. Conditions beyond a variable's
and `false` matter to `analyze_returns` only one at a time. Fairness is
`WF(Compile)`: the compiler is one process; the compiled program may loop for
ever and nothing is claimed of its end.

### Proved (`FunctionCodeProofs`)

For every set of functions, of any length and nesting: `TypesAreKept`,
`ClosedBlocksAreLeftAlone` and `AllBlocksClose`, from `CodeInv`
(`CodeIsInvariant`). `EveryBlockCloses` speaks of the end and is far from
inductive. `Emitted` says what is true on the way: the open blocks are the
insertion block and those that the running constructs still have to fill
(`Pending`: of a `while` its step and what is behind it; of an `if` what is
behind it, and its `else` as long as that is not reached), all made before the
position that is met, and branches lead to blocks. When the call stack is empty
nothing is pending, and the fallback return closes the insertion block. The
argument needs `NestingProofs`, for blocks are named by the positions of their
constructs: the `end` that is met closes the construct on top of the stack, and
an `else` belongs to it. That a program's `else` is where `Else` looks for it is
in `FunctionConstants`, with the other guarantees of the parser.

`FunctionsImplementPromise` is the refinement: `Spec => ImplementsPromise`, for
functions of any length and nesting. `FunctionInv` (`BlocksFollowText`) adds two
invariants to `CodeInv`:

* `TextInv`: the blocks follow the text. A block stands for a place in the text
  (`Origin`); its statements are those that control comes to from there one after
  the other, and its terminator takes control to where the text does (`FlowsOn`).
  The insertion block, as long as it is open, ends where the token that is met is
  (`Points`), so each action has one thing to show of the one terminator it makes.
  Blocks that do nothing lead to blocks of lower `Rank`: so `Position`, which
  follows them, comes to an end and is `Place`, which needs no recursion
  (`PositionIsPlace`), and a step of the program is a step in the text (`RunsOn`).
* `VerdictInv`: what the semantic pass has found so far. The errors and the type
  are those that the returns in front of the token deserve (`SoFar`); a function
  that is accepted has its returns right and does not fall off its end, unless a
  letter is trusted (`Accepted`); execution stays in `Reached`.

Between the two is what `analyze_returns` says of the text, in both directions:
* it trusts no letter and says that a list returns: then a return is ahead of each
  place that is reached (`Alive`: in the list there, or behind a construct around
  it), which control never leaves (`AliveHere`, `AliveNext`), and none is ahead of
  the bottom;
* it says that a list does not return, and no `if` is `Armed`: then control that
  comes to the list may come to its end (`ComesThrough`, from the bottom of the
  text upwards), so the function may fall off its end and is rejected rightly.

`Reached` is defined by as many steps as the body has positions; `ReachedClosed`
shows that these are enough, since a set of positions cannot grow more often. The
definitions that `FunctionPromise` reads the text with are the same as the
code's by one lemma each (`SameLevel` to `SameMisjudged`). `OneArmed` has two cases,
a `return` in a branch and a nested `if` that only counts as one; the proof needs
both, and the bodies of `Trusted` in `MCFunctions` have the second.

What is assumed is `FunctionConstants`: what the parser guarantees of a body, that
no declared type is `UNKNOWN`, and that what is returned has a type. `Termination`
stays with TLC.

## What is not modelled

* Lexer and parser are generated; the text of diagnostics; instruction selection.
* Lists, strings and pointers as values. Element access is compiled without a
  bounds check (`codegen/list_handler.cpp:180`), so there is nothing between an
  index and memory for a property to be about; the string runtime is pure code
  on bytes.
* The interpreter's frames, references and calls; `main` does not call it.
* `eval/TQloop.c`, which is commented out as a whole.
* `ImportResolver` is a table from requests to files.

`PROJECT.json` lists the hazards of these parts with a note.

## Running

In this directory, `tlc -config <run>.cfg <module>` with the module that
`PROJECT.json` names for the run, and `tlapm <module>` for the modules whose
names end in `Proofs`.
