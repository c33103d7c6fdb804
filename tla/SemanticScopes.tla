---------------------------- MODULE SemanticScopes ----------------------------
(***************************************************************************)
(* The semantic pass as far as names go: global declarations are           *)
(* registered first, then the tree is walked with a stack of scopes.       *)
(* Types are left out: programs are taken to be well typed where their     *)
(* names are bound.                                                        *)
(*                                                                         *)
(* panic reports an error and returns: the walk goes on and the compiler   *)
(* stops when it is over.  An action is the check of one node up to its    *)
(* first child statement; calls is the C++ call stack.                     *)
(***************************************************************************)
EXTENDS ScopedPrograms

VARIABLES
  prog,                 \* the program; never changes
  phase,
  pc,                   \* the token that is met next
  calls,                \* the constructs whose handlers are running
  scopes,               \* g_semantic_scope: the declarations by name, root first
  g_in_loop,
  g_in_fn,
  is_glob_var_allowed,
  errors,               \* the codes panic was called with
  bind,                 \* history: the declaration each read was bound to
  target                \* history: the declaration each assignment was bound to

semantic == <<scopes, g_in_loop, g_in_fn, is_glob_var_allowed, errors, bind, target>>

Checking == {"register", "check"}
Emitting == {"functions", "init"}
Ended == {"rejected", "crashed", "aborted", "done"}
Codes == {"SEM_VAR_UNDECL", "SEM_VAR_UNDECL_AT_GLOB", "SEM_AT_SYM_IS_NOT_ALLOWED",
          "SEM_VAR_REDECL", "SEM_DUP_PARAM", "SEM_ASSIGN_IMMUTABLE",
          "SEM_FOR_ITERABLE_NOT_RANGE", "SEM_BREAK_OUTSIDE_LOOP", "SEM_RETURN_OUTSIDE_FN"}

\* A declaration is its position; 0 stands for null.
Decls == 0 .. MaxLen
EmptyScope == [x \in Names |-> 0]

SemanticTypeOK ==
  /\ prog \in Programs
  /\ phase \in Checking \cup Emitting \cup Ended
  /\ pc \in 1 .. MaxLen + 1
  /\ calls \in Seq(Positions)
  /\ scopes \in Seq([Names -> Decls]) /\ scopes # << >>
  /\ g_in_loop \in Nat
  /\ g_in_fn \in BOOLEAN
  /\ is_glob_var_allowed \in BOOLEAN
  /\ errors \subseteq Codes
  /\ bind \in [Positions -> Decls]
  /\ target \in [Positions -> Decls]

SemanticInit ==
  /\ prog \in Programs
  /\ phase = "register"
  /\ pc = 1
  /\ calls = << >>
  /\ scopes = <<EmptyScope>>
  /\ g_in_loop = 0
  /\ g_in_fn = FALSE
  /\ is_glob_var_allowed = TRUE
  /\ errors = {}
  /\ bind = [p \in Positions |-> 0]
  /\ target = [p \in Positions |-> 0]

-----------------------------------------------------------------------------
(* The symbol table *)

Node == prog[pc]
AtNode == pc <= Len(prog)

\* Mutant: the outermost symbol of that name.
semantic_find_symbol_outermost(x) ==
  LET found == {i \in DOMAIN scopes : scopes[i][x] # 0} IN
  IF found = {} THEN 0 ELSE scopes[CHOOSE i \in found : \A j \in found : i <= j][x]

semantic_find_symbol(x) ==
  LET found == {i \in DOMAIN scopes : scopes[i][x] # 0} IN
  IF found = {} THEN 0 ELSE scopes[CHOOSE i \in found : \A j \in found : j <= i][x]

semantic_find_global_symbol(x) == scopes[1][x]

\* node_ptr is the assignment of a variable, the iterable of an iterator, and null
\* for a parameter.
node_ptr_isglobal(d) ==
  IF prog[d].k = "for" THEN prog[d].rhs # NoRef /\ prog[d].rhs.isglobal
                       ELSE IsGlobal(prog, d)

exists(ref) ==
  IF ref = NoRef THEN "SUCCESS"
  ELSE LET d == semantic_find_symbol(ref.name) IN
       CASE d = 0 -> "NOT_DECLARED"
         [] d # 0 /\ prog[d].k = "param" -> "crash"
         [] d # 0 /\ prog[d].k # "param" ->
              IF node_ptr_isglobal(d) # ref.isglobal THEN "NOT_DEC_AT_GLOB_SCOPE"
                                                     ELSE "SUCCESS"

\* The errors check_expr reports for what is read.
ReadErrors ==
  CASE exists(Node.rhs) = "NOT_DECLARED" -> {"SEM_VAR_UNDECL"}
    [] exists(Node.rhs) = "NOT_DEC_AT_GLOB_SCOPE" -> {"SEM_VAR_UNDECL_AT_GLOB"}
    [] OTHER -> {}

Bind ==
  bind' = IF Node.rhs # NoRef /\ exists(Node.rhs) = "SUCCESS"
            THEN [bind EXCEPT ![pc] = semantic_find_symbol(Node.rhs.name)] ELSE bind

\* What follows a null pointer: the declaration node of a parameter that is read,
\* the type of an assignment's target, and the type of a condition.
derefs_null ==
  \/ exists(Node.rhs) = "crash"
  \/ Node.k \in {"set", "step"} /\ semantic_find_symbol(Node.lhs.name) = 0
  \/ Node.k \in {"if", "while"} /\ exists(Node.rhs) = "NOT_DECLARED"

-----------------------------------------------------------------------------
(* Assignments *)

\* Mutant: @ is allowed everywhere.
AtSymErrors_never(isglobal) == {}

AtSymErrors(isglobal) ==
  IF isglobal /\ ~is_glob_var_allowed THEN {"SEM_AT_SYM_IS_NOT_ALLOWED"} ELSE {}

\* A value without a type ends assign early: nothing is declared.  A global that
\* exists is not declared again, and that is no error: every global is met twice.
declare_variable ==
  LET isglobal == IsGlobal(prog, pc)
      x == Node.lhs.name
      scope == IF isglobal THEN 1 ELSE Len(scopes)
      typed == exists(Node.rhs) # "NOT_DECLARED"
      taken == scopes[scope][x] # 0 IN
  /\ Bind
  /\ scopes' = IF typed /\ ~taken THEN [scopes EXCEPT ![scope] = [@ EXCEPT ![x] = pc]]
                                  ELSE scopes
  /\ errors' = errors \cup AtSymErrors(isglobal) \cup ReadErrors
                 \cup IF typed /\ taken /\ ~isglobal THEN {"SEM_VAR_REDECL"} ELSE {}
  /\ UNCHANGED <<calls, g_in_loop, g_in_fn, is_glob_var_allowed, target>>

\* The symbol whose mutability decides; if there is no global of that name, the
\* node's flag does, which was set from the innermost symbol.
AssignedSymbol(ref) ==
  IF ref.isglobal /\ semantic_find_global_symbol(ref.name) # 0
    THEN semantic_find_global_symbol(ref.name)
    ELSE semantic_find_symbol(ref.name)

assign ==
  LET typed == exists(Node.rhs) # "NOT_DECLARED"
      d == AssignedSymbol(Node.lhs) IN
  /\ Bind
  /\ target' = IF typed THEN [target EXCEPT ![pc] = d] ELSE target
  /\ errors' = errors \cup AtSymErrors(Node.lhs.isglobal) \cup ReadErrors
                 \cup IF typed /\ ~Mutable(prog, d) THEN {"SEM_ASSIGN_IMMUTABLE"} ELSE {}
  /\ UNCHANGED <<calls, scopes, g_in_loop, g_in_fn, is_glob_var_allowed>>

-----------------------------------------------------------------------------
(* register_global_var_and_fn: only the top level, and no function body, so   *)
(* that no parameter is in scope                                             *)

register ==
  /\ phase = "register" /\ AtNode
  /\ IF IsGlobal(prog, pc) THEN declare_variable
     ELSE UNCHANGED <<calls, semantic>>
  /\ pc' = Behind(prog, pc)
  /\ UNCHANGED <<prog, phase>>

register_end ==
  /\ phase = "register" /\ ~AtNode
  /\ phase' = "check"
  /\ pc' = 1
  /\ scopes' = Append(scopes, EmptyScope)
  /\ UNCHANGED <<prog, calls, g_in_loop, g_in_fn, is_glob_var_allowed, errors, bind, target>>

-----------------------------------------------------------------------------
(* check_expr *)

Check(k) == phase = "check" /\ AtNode /\ Node.k = k /\ ~derefs_null

Step == pc' = pc + 1 /\ UNCHANGED <<prog, phase>>
Call == calls' = Append(calls, pc)

check_declaration == Check("var") /\ declare_variable /\ Step
check_assign == (Check("set") \/ Check("step")) /\ assign /\ Step

check_use ==
  /\ Check("use") /\ Bind /\ Step
  /\ errors' = errors \cup ReadErrors
  /\ UNCHANGED <<calls, scopes, g_in_loop, g_in_fn, is_glob_var_allowed, target>>

check_if ==
  /\ Check("if") /\ Bind /\ Call /\ Step
  /\ errors' = errors \cup ReadErrors
  /\ UNCHANGED <<scopes, g_in_loop, g_in_fn, is_glob_var_allowed, target>>

check_else == Check("else") /\ Step /\ UNCHANGED <<calls, semantic>>

\* Mutant: g_in_loop is not increased.
check_while_loop_uncounted ==
  /\ Check("while") /\ Bind /\ Call /\ Step
  /\ errors' = errors \cup ReadErrors
  /\ UNCHANGED <<scopes, g_in_loop, g_in_fn, is_glob_var_allowed, target>>

check_while_loop ==
  /\ Check("while") /\ Bind /\ Call /\ Step
  /\ g_in_loop' = g_in_loop + 1
  /\ errors' = errors \cup ReadErrors
  /\ UNCHANGED <<scopes, g_in_fn, is_glob_var_allowed, target>>

\* Mutant: scope_push in front of the early return.
check_for_loop_pushes_first ==
  /\ Check("for") /\ Bind
  /\ scopes' = Append(scopes, [EmptyScope EXCEPT ![Node.lhs.name] = pc])
  /\ IF exists(Node.rhs) = "NOT_DECLARED"
     THEN /\ pc' = Behind(prog, pc)
          /\ errors' = errors \cup ReadErrors \cup {"SEM_FOR_ITERABLE_NOT_RANGE"}
          /\ UNCHANGED <<calls, g_in_loop>>
     ELSE /\ pc' = pc + 1
          /\ errors' = errors \cup ReadErrors
          /\ Call
          /\ g_in_loop' = g_in_loop + 1
  /\ UNCHANGED <<prog, phase, g_in_fn, is_glob_var_allowed, target>>

\* The early return for an iterable without a type is in front of scope_push, and
\* of the body.
check_for_loop ==
  /\ Check("for") /\ Bind
  /\ IF exists(Node.rhs) = "NOT_DECLARED"
     THEN /\ pc' = Behind(prog, pc)
          /\ errors' = errors \cup ReadErrors \cup {"SEM_FOR_ITERABLE_NOT_RANGE"}
          /\ UNCHANGED <<calls, scopes, g_in_loop>>
     ELSE /\ pc' = pc + 1
          /\ errors' = errors \cup ReadErrors
          /\ Call
          /\ scopes' = Append(scopes, [EmptyScope EXCEPT ![Node.lhs.name] = pc])
          /\ g_in_loop' = g_in_loop + 1
  /\ UNCHANGED <<prog, phase, g_in_fn, is_glob_var_allowed, target>>

\* Functions are not nested: the g_in_fn that handle_fn saves and restores is FALSE.
handle_fn ==
  /\ Check("fn") /\ Call /\ Step
  /\ scopes' = Append(scopes, EmptyScope)
  /\ g_in_fn' = TRUE
  /\ is_glob_var_allowed' = FALSE
  /\ UNCHANGED <<g_in_loop, errors, bind, target>>

declare_param ==
  LET x == Node.lhs.name
      taken == scopes[Len(scopes)][x] # 0 IN
  /\ Check("param") /\ Step
  /\ scopes' = IF taken THEN scopes ELSE [scopes EXCEPT ![Len(scopes)] = [@ EXCEPT ![x] = pc]]
  /\ errors' = IF taken THEN errors \cup {"SEM_DUP_PARAM"} ELSE errors
  /\ UNCHANGED <<calls, g_in_loop, g_in_fn, is_glob_var_allowed, bind, target>>

check_unconditional_branches ==
  /\ Check("break") /\ Step
  /\ errors' = IF g_in_loop <= 0 THEN errors \cup {"SEM_BREAK_OUTSIDE_LOOP"} ELSE errors
  /\ UNCHANGED <<calls, scopes, g_in_loop, g_in_fn, is_glob_var_allowed, bind, target>>

ret ==
  /\ Check("ret") /\ Step
  /\ errors' = IF g_in_fn THEN errors ELSE errors \cup {"SEM_RETURN_OUTSIDE_FN"}
  /\ UNCHANGED <<calls, scopes, g_in_loop, g_in_fn, is_glob_var_allowed, bind, target>>

-----------------------------------------------------------------------------
(* What the handlers do behind the body *)

Caller == prog[calls[Len(calls)]].k
Return == calls' = SubSeq(calls, 1, Len(calls) - 1)
scope_pop == scopes' = IF Len(scopes) = 1 THEN <<EmptyScope>>
                       ELSE SubSeq(scopes, 1, Len(scopes) - 1)

check_end ==
  /\ Check("end") /\ calls # << >> /\ Return /\ Step
  /\ IF Caller \in {"for", "fn"} THEN scope_pop ELSE UNCHANGED scopes
  /\ g_in_loop' = IF Caller \in {"for", "while"} THEN g_in_loop - 1 ELSE g_in_loop
  /\ g_in_fn' = IF Caller = "fn" THEN FALSE ELSE g_in_fn
  /\ UNCHANGED <<is_glob_var_allowed, errors, bind, target>>

\* The end of semantic_check; compile_and_execute looks at the errors.
semantic_check_end ==
  /\ phase = "check" /\ ~AtNode
  /\ scope_pop
  /\ phase' = IF errors = {} THEN "functions" ELSE "rejected"
  /\ pc' = 1
  /\ UNCHANGED <<prog, calls, g_in_loop, g_in_fn, is_glob_var_allowed, errors, bind, target>>

crash ==
  /\ phase = "check" /\ AtNode /\ derefs_null
  /\ phase' = "crashed"
  /\ UNCHANGED <<prog, pc, calls, semantic>>

SemanticNext ==
  \/ register \/ register_end
  \/ check_declaration \/ check_assign \/ check_use \/ check_if \/ check_else
  \/ check_while_loop \/ check_for_loop \/ handle_fn \/ declare_param
  \/ check_unconditional_branches \/ ret \/ check_end
  \/ semantic_check_end \/ crash

=============================================================================
