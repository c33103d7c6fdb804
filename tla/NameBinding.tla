----------------------------- MODULE NameBinding -----------------------------
(***************************************************************************)
(* From names to storage: codegen walks an accepted program once for its   *)
(* functions and once for the rest of the top level, and looks every name  *)
(* up again, in scopes of its own.  Its scopes are opened by loops and     *)
(* functions, those of the semantic pass by for loops and functions; a     *)
(* declaration takes the alloca of that name if there is one, and a new    *)
(* one is known in the outermost scope too.                                *)
(*                                                                         *)
(* HIRGen keeps the order of statements.  It turns for into a declaration  *)
(* of the iterator, in the scope around the loop, and a while.             *)
(***************************************************************************)
EXTENDS SemanticScopes

VARIABLES
  locals,    \* Codegen::Scope: storage by name, outermost first
  dead,      \* blockTerminated: what follows in this block is not emitted
  storage,   \* history: what a declaration was given
  load,      \* history: what a read was emitted for
  dest       \* history: what an assignment was emitted for

generated == <<locals, dead, storage, load, dest>>
vars == <<prog, phase, pc, calls, semantic, generated>>

Null == << >>
Unvisited == <<"unvisited">>
Global(x) == <<"global", x>>
Alloca(p) == <<"alloca", p>>
Storages == ({"global"} \X Names) \cup ({"alloca"} \X Positions) \cup {Null}
NoLocals == [x \in Names |-> Null]

TypeOK ==
  /\ SemanticTypeOK
  /\ locals \in Seq([Names -> Storages])
  /\ dead \in BOOLEAN
  /\ storage \in [Positions -> Storages \cup {Unvisited}]
  /\ load \in [Positions -> Storages \cup {Unvisited}]
  /\ dest \in [Positions -> Storages \cup {Unvisited}]

Init ==
  /\ SemanticInit
  /\ locals = << >>
  /\ dead = FALSE
  /\ storage = [p \in Positions |-> Unvisited]
  /\ load = [p \in Positions |-> Unvisited]
  /\ dest = [p \in Positions |-> Unvisited]

-----------------------------------------------------------------------------
(* Looking up *)

Top == Len(locals)

lookup(env, x) ==
  LET found == {i \in DOMAIN env : env[i][x] # Null} IN
  IF found = {} THEN Null ELSE env[CHOOSE i \in found : \A j \in found : j <= i][x]

\* emit_global has made the module's globals before.
getGlobalVariable(x) == IF Globals(prog, x) = {} THEN Null ELSE Global(x)

\* Mutant: a global variable of that name hides the local one.
variable_global_first(env, ref) ==
  IF getGlobalVariable(ref.name) # Null THEN getGlobalVariable(ref.name)
  ELSE lookup(env, ref.name)

variable(env, ref) ==
  IF ~ref.isglobal /\ lookup(env, ref.name) # Null THEN lookup(env, ref.name)
  ELSE getGlobalVariable(ref.name)

\* A read, if there is one, with the environment of that moment.
Load(env) ==
  load' = IF Node.rhs = NoRef THEN load ELSE [load EXCEPT ![pc] = variable(env, Node.rhs)]

get_or_create_alloca(x) == IF lookup(locals, x) # Null THEN lookup(locals, x) ELSE Alloca(pc)
Enter(env, k, x, s) == [env EXCEPT ![k] = [@ EXCEPT ![x] = s]]

\* Scope::operator[], with which get_or_create_alloca enters what it creates, goes up to
\* the scope that has the name, and so to the outermost one.
Registered(x) ==
  IF IsGlobal(prog, pc) \/ lookup(locals, x) # Null THEN locals
  ELSE Enter(locals, 1, x, Alloca(pc))

\* Mutant: it is entered in the scope of the declaration alone.
Declared_in_its_scope(x, s) == Enter(locals, Top, x, s)

\* The declaration itself enters the name in its own scope.
Declared(x, s) == Enter(Registered(x), Top, x, s)

-----------------------------------------------------------------------------
(* The two walks *)

\* emit_functions emits the functions, emit_init everything else at the top level;
\* emit_expr passes functions over.
Elsewhere ==
  IF calls = << >> THEN (phase = "functions") # (Node.k = "fn") ELSE Node.k = "fn"

Emit(k) == phase \in Emitting /\ AtNode /\ Node.k = k /\ ~Elsewhere

\* emit_expr returns at once if the block is terminated.
Live(k) == Emit(k) /\ ~dead
Semantic == UNCHANGED semantic

\* Mutant: the loop over the statements does not leave a terminated block.
skip_in_place ==
  /\ phase \in Emitting /\ AtNode
  /\ Elsewhere \/ (dead /\ Node.k \notin {"else", "step", "end"})
  /\ pc' = IF Elsewhere THEN Behind(prog, pc) ELSE pc
  /\ UNCHANGED <<prog, phase, calls, semantic, generated>>

skip ==
  /\ phase \in Emitting /\ AtNode
  /\ Elsewhere \/ (dead /\ Node.k \notin {"else", "step", "end"})
  /\ pc' = Behind(prog, pc)
  /\ UNCHANGED <<prog, phase, calls, semantic, generated>>

emit_functions_end ==
  /\ phase = "functions" /\ ~AtNode
  /\ phase' = "init" /\ pc' = 1
  /\ locals' = <<NoLocals>>
  /\ UNCHANGED <<prog, calls, semantic, dead, storage, load, dest>>

emit_init_end ==
  /\ phase = "init" /\ ~AtNode
  /\ phase' = "done"
  /\ UNCHANGED <<prog, pc, calls, semantic, generated>>

emit_function ==
  /\ Emit("fn") /\ Call /\ Step /\ Semantic
  /\ locals' = <<NoLocals>>
  /\ UNCHANGED <<dead, storage, load, dest>>

emit_param ==
  /\ Emit("param") /\ Step /\ Semantic
  /\ locals' = Enter(locals, Top, Node.lhs.name, Alloca(pc))
  /\ storage' = [storage EXCEPT ![pc] = Alloca(pc)]
  /\ UNCHANGED <<calls, dead, load, dest>>

\* emit_assing: the storage is resolved, and known under the name, before the value
\* is emitted.
emit_declaration ==
  LET x == Node.lhs.name
      s == IF IsGlobal(prog, pc) THEN Global(x) ELSE get_or_create_alloca(x) IN
  /\ Live("var") /\ Step /\ Semantic
  /\ locals' = Declared(x, s)
  /\ storage' = [storage EXCEPT ![pc] = s]
  /\ Load(Declared(x, s))
  /\ UNCHANGED <<calls, dead, dest>>

\* get_or_create_alloca casts what it finds to an alloca; if that is a global, the
\* assertion in cast fails in a build that has assertions.
bad_cast ==
  /\ Live("var") \/ Live("for")
  /\ ~IsGlobal(prog, pc)
  /\ lookup(locals, Node.lhs.name) = Global(Node.lhs.name)
  /\ phase' = "aborted"
  /\ UNCHANGED <<prog, pc, calls, semantic, generated>>

\* Without a target, the value is not emitted either.
Store ==
  /\ dest' = [dest EXCEPT ![pc] = variable(locals, Node.lhs)]
  /\ IF variable(locals, Node.lhs) = Null THEN UNCHANGED load ELSE Load(locals)

emit_assing ==
  /\ Live("set") /\ Store /\ Step /\ Semantic
  /\ UNCHANGED <<calls, locals, dead, storage>>

\* while.expr is a block of its own.
emit_while_expr ==
  /\ Emit("step") /\ Store /\ Step /\ Semantic
  /\ dead' = FALSE
  /\ UNCHANGED <<calls, locals, storage>>

emit_use ==
  /\ Live("use") /\ Load(locals) /\ Step /\ Semantic
  /\ UNCHANGED <<calls, locals, dead, storage, dest>>

emit_if ==
  /\ Live("if") /\ Load(locals) /\ Call /\ Step /\ Semantic
  /\ UNCHANGED <<locals, dead, storage, dest>>

emit_else ==
  /\ Emit("else") /\ Step /\ Semantic
  /\ dead' = FALSE
  /\ UNCHANGED <<calls, locals, storage, load, dest>>

emit_whileloop ==
  LET loopBodyScope == Append(locals, NoLocals) IN
  /\ Live("while") /\ Load(loopBodyScope) /\ Call /\ Step /\ Semantic
  /\ locals' = loopBodyScope
  /\ UNCHANGED <<dead, storage, dest>>

\* The iterator is declared in front of the loop, a list read behind that.  The step at
\* the end of the body declares it again, in the body's scope and with the same alloca.
emit_for_loop ==
  LET x == Node.lhs.name
      s == get_or_create_alloca(x) IN
  /\ Live("for") /\ Call /\ Step /\ Semantic
  /\ locals' = Append(Declared(x, s), NoLocals)
  /\ storage' = [storage EXCEPT ![pc] = s]
  /\ Load(Declared(x, s))
  /\ UNCHANGED <<dead, dest>>

emit_jump ==
  /\ Live("break") \/ Live("ret")
  /\ Step /\ Semantic
  /\ dead' = TRUE
  /\ UNCHANGED <<calls, locals, storage, load, dest>>

\* Behind every construct a new block begins.
emit_end ==
  /\ Emit("end") /\ calls # << >> /\ Return /\ Step /\ Semantic
  /\ locals' = CASE Caller \in {"while", "for"} -> SubSeq(locals, 1, Top - 1)
                 [] Caller = "fn" -> << >>
                 [] OTHER -> locals
  /\ dead' = FALSE
  /\ UNCHANGED <<storage, load, dest>>

CodegenNext ==
  \/ skip \/ emit_functions_end \/ emit_init_end \/ emit_function \/ emit_param
  \/ emit_declaration \/ bad_cast \/ emit_assing \/ emit_while_expr \/ emit_use
  \/ emit_if \/ emit_else \/ emit_whileloop \/ emit_for_loop \/ emit_jump \/ emit_end

Next == (SemanticNext /\ UNCHANGED generated) \/ CodegenNext
Spec == Init /\ [][Next]_vars
FairSpec == Spec /\ WF_vars(Next)

-----------------------------------------------------------------------------
(* Properties *)

Running(kinds) == {i \in DOMAIN calls : prog[calls[i]].k \in kinds}

\* The scopes and the loop depth are those of the handlers that are running, whatever
\* way the handlers before them were left (scope_push and scope_pop, and the changes of
\* g_in_loop, are paired by hand); so are the scopes of codegen.
ScopesMatchCalls ==
  /\ phase = "check" =>
       /\ Len(scopes) = 2 + Cardinality(Running({"fn", "for"}))
       /\ g_in_loop = Cardinality(Running({"for", "while"}))
  /\ phase \in Emitting =>
       Top = Cardinality(Running({"fn", "for", "while"})) + (IF phase = "init" THEN 1 ELSE 0)

Accepted == phase \in Emitting \cup {"done"}

\* @x where a local x is in scope.
Masked(P, p, ref) == ref # NoRef /\ ref.isglobal /\ Locals(P, p, ref.name) # {}

\* In an accepted program, what the scope stack binds a name to is what the scope
\* rules say, except for @x where a local x is in scope: the innermost x is looked at.
BindsLexically ==
  Accepted =>
    \A p \in DOMAIN prog :
      /\ bind[p] # 0 /\ ~Masked(prog, p, prog[p].rhs) => bind[p] = Read(prog, p, prog[p].rhs)
      /\ target[p] # 0 /\ ~Masked(prog, p, prog[p].lhs) => target[p] = Assigned(prog, p, prog[p].lhs)

\* Programs the pass judges differently from the scope rules:
\* a parameter is read,
ReadsParameter(P) ==
  \E p \in DOMAIN P : P[p].rhs # NoRef /\ Read(P, p, P[p].rhs) # 0 /\ P[Read(P, p, P[p].rhs)].k = "param"
\* @ is used at the top level, behind a function,
GlobalBehindFunction(P) ==
  \E o, p \in DOMAIN P :
    /\ P[o].k = "fn" /\ o < p /\ Function(P, p) = 0
    /\ IsGlobal(P, p) \/ (P[p].k \in {"set", "step"} /\ P[p].lhs.isglobal)
\* @x is used where a local x is in scope,
MaskedGlobal(P) ==
  \E p \in DOMAIN P : Masked(P, p, P[p].lhs) \/ Masked(P, p, P[p].rhs)
\* the iterator over a global list is read.
GlobalIterable(P) ==
  \E p \in DOMAIN P :
    /\ P[p].rhs # NoRef
    /\ LET d == Read(P, p, P[p].rhs) IN
       d # 0 /\ P[d].k = "for" /\ P[d].rhs # NoRef /\ P[d].rhs.isglobal

Peculiar(P) ==
  ReadsParameter(P) \/ GlobalBehindFunction(P) \/ MaskedGlobal(P) \/ GlobalIterable(P)

\* All others are accepted if, and only if, their names obey the scope rules.
AcceptsWellScoped ==
  ~Peculiar(prog) =>
    /\ Accepted => WellScoped(prog)
    /\ phase \in {"rejected", "crashed"} => ~WellScoped(prog)

\* Where codegen reaches other storage than that of the declaration the semantic pass
\* found:
\* d is a local variable of the top level, and p is in a function,
Captured(P, p, d) == ~IsGlobal(P, d) /\ Function(P, d) # Function(P, p)
\* the top level has a global variable of that name too,
Doubled(P, d) ==
  ~IsGlobal(P, d) /\ Function(P, d) = 0 /\ Globals(P, P[d].lhs.name) # {}
\* d is global, and p is behind a local variable of that name, in scope or not.
Covered(P, p, d) ==
  IsGlobal(P, d) /\ \E e \in DOMAIN P :
    /\ Declares(P, e, P[d].lhs.name) /\ ~IsGlobal(P, e)
    /\ Function(P, e) = Function(P, p) /\ e < p

\* Everywhere else, what a read or an assignment is emitted for is the storage of the
\* declaration the semantic pass bound it to.
Reaches(p, ref, d, s) ==
  d # 0 /\ s # Unvisited /\ storage[d] # Unvisited
    /\ ~Captured(prog, p, d) /\ ~Doubled(prog, d) /\ ~Masked(prog, p, ref)
    /\ (Covered(prog, p, d) => ref.isglobal)
    => s = storage[d]

StorageFollowsBinding ==
  phase = "done" =>
    \A p \in DOMAIN prog :
      /\ Reaches(p, prog[p].rhs, bind[p], load[p])
      /\ Reaches(p, prog[p].lhs, target[p], dest[p])

\* A declaration of a local variable, in a parameter list, a statement or a loop.
IsLocal(P, d) == P[d].k \in {"var", "for", "param"} /\ ~IsGlobal(P, d)

\* A function has one variable for each name, and so has the top level, whatever scopes
\* its declarations are in: an inner variable is the outer one, and the names of two
\* functions are never one variable.
OneVariablePerName ==
  phase = "done" =>
    \A d, e \in DOMAIN prog :
      /\ IsLocal(prog, d) /\ storage[d] # Unvisited /\ ~Doubled(prog, d)
      /\ IsLocal(prog, e) /\ storage[e] # Unvisited
      => (storage[d] = storage[e] <=>
            prog[d].lhs.name = prog[e].lhs.name /\ Function(prog, d) = Function(prog, e))

\* Compilation ends, whatever the program.
Termination == <>(phase \in Ended)

=============================================================================
