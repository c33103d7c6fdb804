---------------------------- MODULE ReturnChecking ----------------------------
(***************************************************************************)
(* The semantic pass over a function: handle_fn sets the context for its   *)
(* body, checks the statements one by one, then asks analyze_returns       *)
(* whether the body always returns.  Errors are collected.                 *)
(***************************************************************************)
EXTENDS FunctionBodies

VARIABLES
  prog,          \* the function; never changes
  pc,            \* the phase
  p,             \* the statement that is met next
  calls,         \* the handlers that are running, as the positions of their constructs
  errors,        \* the codes of the errors reported
  type,          \* node_ptr.type and FnSymbol_t.ret, NoType while it is not known
  fn_name,       \* is set until a return statement has been checked
  g_in_loop

checkVars == <<errors, type, fn_name, g_in_loop>>

Body == prog.body
AtToken == p <= Len(Body)
Token == Body[p]

CheckInit ==
  /\ prog \in Functions
  /\ pc = "check" /\ p = 1 /\ calls = << >>
  /\ errors = {}
  /\ type = prog.ret
  /\ fn_name = TRUE
  /\ g_in_loop = 0

Error(code) == errors' = errors \cup {code}

\* These are copies from the time handle_fn is entered.
g_fn_ret == IF prog.ret = NoType THEN "UNKNOWN" ELSE prog.ret.base
g_current_fn_ret_type == prog.ret

-----------------------------------------------------------------------------
(* The statements *)

Check(k) == pc = "check" /\ AtToken /\ Token.k = k
Forward == p' = p + 1 /\ UNCHANGED <<prog, pc>>
Enter == calls' = Append(calls, p)
Leave == calls' = SubSeq(calls, 1, Len(calls) - 1)
Caller == Body[calls[Len(calls)]].k

check_if ==
  /\ Check("if") /\ Forward /\ Enter
  /\ UNCHANGED checkVars

check_while_loop ==
  /\ Check("while") /\ Forward /\ Enter
  /\ g_in_loop' = g_in_loop + 1
  /\ UNCHANGED <<errors, type, fn_name>>

check_end ==
  /\ Check("end") /\ Forward /\ Leave
  /\ g_in_loop' = IF Caller = "while" THEN g_in_loop - 1 ELSE g_in_loop
  /\ UNCHANGED <<errors, type, fn_name>>

check_statement ==
  /\ Check("do") \/ Check("else")
  /\ Forward
  /\ UNCHANGED <<calls, checkVars>>

check_unconditional_branches ==
  /\ Check("break") \/ Check("continue")
  /\ Forward
  /\ IF g_in_loop <= 0 THEN Error("SEM_BREAK_OUTSIDE_LOOP") ELSE UNCHANGED errors
  /\ UNCHANGED <<calls, type, fn_name, g_in_loop>>

\* Void functions return no value, all others one; the first value that is returned
\* gives an undeclared function its type.
ret ==
  LET rt == Typed(Token.value, g_current_fn_ret_type) IN
  /\ Check("ret") /\ Forward
  /\ IF g_current_fn_ret_type.base = "VOID"
     THEN /\ IF Token.value = NoValue THEN UNCHANGED errors ELSE Error("SEM_RETURN_TYPE_MISMATCH")
          /\ UNCHANGED <<type, fn_name>>
     ELSE IF Token.value = NoValue
     THEN Error("SEM_RETURN_TYPE_MISMATCH") /\ UNCHANGED <<type, fn_name>>
     ELSE /\ type' = IF g_fn_ret = "UNKNOWN" /\ fn_name THEN rt ELSE type
          /\ IF prog.ret # NoType /\ ~types_are_equal(rt, g_current_fn_ret_type)
             THEN Error("SEM_RETURN_TYPE_MISMATCH") /\ UNCHANGED fn_name
             ELSE fn_name' = FALSE /\ UNCHANGED errors
  /\ UNCHANGED <<calls, g_in_loop>>

-----------------------------------------------------------------------------
(* analyze_returns *)

Info(always_return, always_fallthrough) ==
  [always_return |-> always_return, always_fallthrough |-> always_fallthrough, crash |-> FALSE]
Fallthrough == Info(FALSE, TRUE)

\* Mutant: what is behind a return is looked at all the same.
AnalyzeSeq_both(left, right) ==
  [always_return |-> left.always_fallthrough /\ right.always_return,
   always_fallthrough |-> left.always_fallthrough /\ right.always_fallthrough,
   crash |-> left.crash \/ right.crash]

AnalyzeSeq(left, right) ==
  IF left.crash \/ left.always_return THEN [left EXCEPT !.always_fallthrough = FALSE]
  ELSE [always_return |-> left.always_fallthrough /\ right.always_return,
        always_fallthrough |-> left.always_fallthrough /\ right.always_fallthrough,
        crash |-> right.crash]

\* *cond->literal.raw: of a name its first letter, since var, and call.name, overlay
\* raw; of an operation whatever is at the address that its number is.
Letter(cond) ==
  CASE cond \in {"true", "t..."} -> "t" [] cond \in {"false", "f..."} -> "f" [] OTHER -> "x"

AnalyzeIf(cond, then_info, else_info) ==
  CASE then_info.crash -> then_info
    [] ~then_info.crash /\ cond = "operation" -> [then_info EXCEPT !.crash = TRUE]
    [] ~then_info.crash /\ Letter(cond) = "t" -> Info(TRUE, TRUE)
    [] OTHER ->
         [always_return |->
            else_info.always_return /\ (Letter(cond) = "f" \/ then_info.always_return),
          always_fallthrough |-> then_info.always_fallthrough /\ else_info.always_fallthrough,
          crash |-> else_info.crash]

\* Of an if without an else, the then-branch is analysed but not used.
AnalyzeIfThen(cond, then_info) ==
  AnalyzeIf(cond, [then_info EXCEPT !.always_fallthrough = TRUE], Fallthrough)

\* The information on the list of statements that begins at each position.
analyze_returns ==
  LET one(list, q) ==
        CASE Body[q].k = "ret" -> Info(TRUE, FALSE)
          [] Body[q].k \in {"break", "continue"} -> Info(FALSE, FALSE)
          [] Body[q].k = "if" /\ Else(Body, q) # 0 ->
               AnalyzeIf(Body[q].cond, list[q + 1], list[Else(Body, q) + 1])
          [] Body[q].k = "if" /\ Else(Body, q) = 0 -> AnalyzeIfThen(Body[q].cond, list[q + 1])
          [] OTHER -> Fallthrough
      AtEnd(q) == q = Bottom(Body) \/ Body[q].k \in {"else", "end"}
      list[q \in 1 .. Bottom(Body)] ==
        IF AtEnd(q) THEN Fallthrough
        ELSE IF AtEnd(Behind(Body, q)) THEN one(list, q)
        ELSE AnalyzeSeq(one(list, q), list[Behind(Body, q)])
  IN list[1]

\* handle_fn, behind the body.  A function that is still undeclared has no result.
handle_fn ==
  /\ pc = "check" /\ ~AtToken
  /\ IF analyze_returns.crash THEN pc' = "crashed" /\ UNCHANGED errors
     ELSE LET Wanted == IF prog.ret # NoType THEN prog.ret ELSE type IN
          /\ IF Wanted # NoType /\ Wanted.base # "VOID" /\ ~analyze_returns.always_return
             THEN Error("SEM_RETURN_TYPE_MISMATCH") ELSE UNCHANGED errors
          /\ pc' = IF errors' = {} THEN "codegen" ELSE "rejected"
  /\ p' = 1
  /\ UNCHANGED <<prog, calls, type, fn_name, g_in_loop>>

SemanticPass ==
  \/ check_if \/ check_while_loop \/ check_end \/ check_statement
  \/ check_unconditional_branches \/ ret \/ handle_fn

=============================================================================
