----------------------------- MODULE CallChecking -----------------------------
(***************************************************************************)
(* The semantic pass over a function and a call of it: the signature is    *)
(* registered, then the callee's body and the call are checked, in the     *)
(* order their functions stand in.  Arguments are checked one after the    *)
(* other, and behind the fixed ones dealt out to the callee's variadic     *)
(* groups.  Errors are collected; most end the handler, none ends the pass.*)
(***************************************************************************)
EXTENDS Signatures

CONSTANT Programs  \* the calls that are compiled, each with its callee

\* What is returned has a type, or is a literal.
ASSUME CallConstants ==
  \A c \in Programs :
    /\ c.params \in Seq(Params) /\ c.ret \in Types /\ c.body \in Seq(Expressions)
    /\ c.args \in Seq(Expressions)
    /\ c.defined \in BOOLEAN /\ c.calleeFirst \in BOOLEAN
    /\ c.body # << >> => c.body[1].type # NoType

VARIABLES
  prog,           \* the callee's name and definition, and the call; never changes
  pc,             \* the handler that is running
  errors,         \* the codes of the errors reported
  ret,            \* FnSymbol_t.ret of the callee, NoType while it is not known
  types,          \* types[i]: the type of argument i
  i,              \* the argument whose turn it is
  current_group,  \* where the search for the next argument's group begins
  group,          \* group[i]: the variadic group argument i was checked for, or 0
  call_type       \* the type of the call, NoType until it is accepted

checkVars == <<ret, types, i, current_group, group, call_type>>

Argc == Len(prog.args)
Args == 1 .. Argc
FnSymbol == prog.defined
VariadicBuiltin == is_variadic_builtin(prog.name)
VariadicUser == FnSymbol /\ has_variadic_user_param(prog.params)
Groups == variadic_inner_types(prog.params)

\* The parameters that take one argument each: the function's, or the builtin's; those
\* in front of the open end for a variadic builtin, whoever defines its name.
Wanted ==
  CASE VariadicBuiltin ->
         SubSeq(lookup(prog.name).params, 1, count_fixed_builtin_params(prog.name))
    [] ~VariadicBuiltin /\ VariadicUser ->
         SubSeq(prog.params, 1, fixed_user_param_count(prog.params))
    [] OTHER -> IF FnSymbol THEN prog.params ELSE lookup(prog.name).params

CheckInit ==
  /\ prog \in Programs
  /\ pc = "register"
  /\ errors = {}
  /\ ret = prog.ret
  /\ types = [a \in Args |-> prog.args[a].type]
  /\ i = 1 /\ current_group = 1
  /\ group = [a \in Args |-> 0]
  /\ call_type = NoType

Error(code) == errors' = errors \cup {code}

\* The parameter's type is not met.
Mismatch(t, want) == want.base # "UNKNOWN" /\ ~types_are_equal(t, want)

-----------------------------------------------------------------------------
(* The signature and the body of the callee *)

\* A parameter behind a variadic one is asked for the base of its inner type.
NullInner ==
  \E k \in 1 .. Len(prog.params) - 1 :
    prog.params[k].variadic /\ prog.params[k + 1].type.inner = "null"
SameKind ==
  \E k \in 1 .. Len(prog.params) - 1 :
    prog.params[k].variadic /\ prog.params[k].type.inner = prog.params[k + 1].type.inner
NormalBehindVariadic ==
  \E k, l \in 1 .. Len(prog.params) :
    k < l /\ prog.params[k].variadic /\ ~prog.params[l].variadic

AfterRegister == IF prog.defined /\ prog.calleeFirst THEN "body" ELSE "call"
AfterCall == IF prog.defined /\ ~prog.calleeFirst THEN "body" ELSE "HIRGen"
AfterBody == IF prog.calleeFirst THEN "call" ELSE "HIRGen"

register_global_var_and_fn ==
  /\ pc = "register"
  /\ IF prog.defined /\ NullInner THEN pc' = "crashed" /\ UNCHANGED errors
     ELSE /\ pc' = AfterRegister
          /\ IF prog.defined /\ (SameKind \/ NormalBehindVariadic)
             THEN Error("SEM_INTERNAL_ERROR") ELSE UNCHANGED errors
  /\ UNCHANGED <<prog, checkVars>>

\* Mutant: the type of what is returned is not kept.
handle_fn_no_update ==
  /\ pc = "body"
  /\ pc' = AfterBody
  /\ UNCHANGED <<prog, errors, checkVars>>

\* handle_fn and ret.  A body is `ret value', or ends without ret.
handle_fn ==
  /\ pc = "body"
  /\ pc' = AfterBody
  /\ IF prog.body = << >>
     THEN /\ IF prog.ret = NoType \/ prog.ret.base = "VOID" THEN UNCHANGED errors
             ELSE Error("SEM_RETURN_TYPE_MISMATCH")
          /\ UNCHANGED ret
     ELSE LET rt == check_expr(prog.body[1], prog.body[1].type, prog.ret) IN
          IF prog.ret = NoType THEN ret' = rt /\ UNCHANGED errors
          ELSE /\ IF prog.ret.base = "VOID" \/ ~types_are_equal(rt, prog.ret)
                  THEN Error("SEM_RETURN_TYPE_MISMATCH") ELSE UNCHANGED errors
               /\ UNCHANGED ret
  /\ UNCHANGED <<prog, types, i, current_group, group, call_type>>

-----------------------------------------------------------------------------
(* The call *)

\* The handler returns no type, with an error or without.
Give_up == pc' = AfterCall /\ UNCHANGED call_type
Accept ==
  /\ pc' = AfterCall
  /\ call_type' = LET t == IF FnSymbol THEN ret ELSE lookup(prog.name).ret IN
                  IF t = NoType THEN Unknown ELSE t

\* len: the last argument has to be a list.
call_len ==
  /\ pc = "call" /\ prog.name = "len"
  /\ types' = [a \in Args |-> check_expr(prog.args[a], types[a], NoType)]
  /\ IF Argc = 0 \/ types'[Argc].base # "LIST" THEN Error("SEM_INDEX_NOT_ARRAY") /\ Give_up
     ELSE pc' = AfterCall /\ call_type' = Scalar("I32") /\ UNCHANGED errors
  /\ UNCHANGED <<prog, ret, i, current_group, group>>

call ==
  /\ pc = "call" /\ prog.name # "len"
  /\ IF ~FnSymbol /\ prog.name \notin BuiltinNames
     THEN Error("SEM_CALL_UNDEF_FN") /\ Give_up
     ELSE IF ~VariadicBuiltin /\ (IF VariadicUser THEN Argc < Len(Wanted) ELSE Argc # Len(Wanted))
     THEN Error("SEM_ARGC_MISMATCH") /\ Give_up
     ELSE pc' = "fixed" /\ UNCHANGED <<errors, call_type>>
  /\ UNCHANGED <<prog, ret, types, i, current_group, group>>

\* Mutant: not advanced.
Checked_in_place(t, want) ==
  /\ types' = [types EXCEPT ![i] = t]
  /\ IF Mismatch(t, want) THEN Error("SEM_ARG_TYPE_MISMATCH") /\ Give_up /\ UNCHANGED i
     ELSE UNCHANGED <<pc, i, errors, call_type>>

\* Argument i was checked and has the type t; the next one, unless it is not what is
\* wanted.
Checked(t, want) ==
  /\ types' = [types EXCEPT ![i] = t]
  /\ IF Mismatch(t, want) THEN Error("SEM_ARG_TYPE_MISMATCH") /\ Give_up /\ UNCHANGED i
     ELSE i' = i + 1 /\ UNCHANGED <<pc, errors, call_type>>

\* Mutant: an argument that is not there is passed over.
check_fixed_missing ==
  /\ pc = "fixed" /\ i <= Len(Wanted)
  /\ IF i > Argc THEN i' = i + 1 /\ UNCHANGED <<pc, types, errors, call_type>>
     ELSE LET want == Wanted[i].type IN
          Checked(check_expr(prog.args[i], types[i], want), want)
  /\ UNCHANGED <<prog, ret, current_group, group>>

\* A variadic builtin does not count: an argument that is not there has no type, which
\* is no error.
check_fixed ==
  /\ pc = "fixed" /\ i <= Len(Wanted)
  /\ IF i > Argc THEN Give_up /\ UNCHANGED <<types, i, errors>>
     ELSE LET want == Wanted[i].type IN
          Checked(check_expr(prog.args[i], types[i], want), want)
  /\ UNCHANGED <<prog, ret, current_group, group>>

fixed_end ==
  /\ pc = "fixed" /\ i > Len(Wanted)
  /\ CASE VariadicBuiltin -> pc' = "rest" /\ UNCHANGED call_type
       [] ~VariadicBuiltin /\ VariadicUser -> pc' = "groups" /\ UNCHANGED call_type
       [] OTHER -> Accept
  /\ UNCHANGED <<prog, errors, ret, types, i, current_group, group>>

\* The open end of a builtin: against the type of its last parameter.
check_rest ==
  /\ pc = "rest"
  /\ IF i > Argc THEN Accept /\ UNCHANGED <<errors, types, i>>
     ELSE LET want == lookup(prog.name).params[Len(lookup(prog.name).params)].type IN
          Checked(check_expr(prog.args[i], types[i], want), want)
  /\ UNCHANGED <<prog, ret, current_group, group>>

\* From `current' on, the first group of that base, or else the last group of all.
FirstMatch(groups, current, base) ==
  LET matching == {g \in current .. Len(groups) : groups[g] = base} IN
  IF matching = {} THEN Len(groups) ELSE CHOOSE g \in matching : \A h \in matching : g <= h

\* Mutant: the search always begins at the first group.
check_group_from_first ==
  /\ pc = "groups" /\ i <= Argc
  /\ LET at == check_expr(prog.args[i], types[i], NoType)
         g == FirstMatch(Groups, 1, at.base)
         want == Scalar(Groups[g]) IN
     /\ Checked(check_expr(prog.args[i], at, want), want)
     /\ group' = [group EXCEPT ![i] = g]
  /\ UNCHANGED <<prog, ret, current_group>>

\* The type is inferred first, without what the group wants.
check_group ==
  /\ pc = "groups" /\ i <= Argc
  /\ LET at == check_expr(prog.args[i], types[i], NoType)
         g == FirstMatch(Groups, current_group, at.base)
         want == Scalar(Groups[g]) IN
     /\ Checked(check_expr(prog.args[i], at, want), want)
     /\ IF Mismatch(check_expr(prog.args[i], at, want), want)
        THEN UNCHANGED <<current_group, group>>
        ELSE current_group' = g /\ group' = [group EXCEPT ![i] = g]
  /\ UNCHANGED <<prog, ret>>

\* Mutant: groups may be empty.
groups_end_unchecked ==
  /\ pc = "groups" /\ i > Argc
  /\ Accept
  /\ UNCHANGED <<prog, errors, ret, types, i, current_group, group>>

groups_end ==
  /\ pc = "groups" /\ i > Argc
  /\ IF Len(Groups) > 1 /\ \E g \in 1 .. Len(Groups) : \A a \in Args : group[a] # g
     THEN Error("SEM_ARGC_MISMATCH") /\ Give_up
     ELSE Accept /\ UNCHANGED errors
  /\ UNCHANGED <<prog, ret, types, i, current_group, group>>

SemanticPass ==
  \/ register_global_var_and_fn \/ handle_fn \/ call_len \/ call \/ check_fixed \/ fixed_end
  \/ check_rest \/ check_group \/ groups_end

=============================================================================
