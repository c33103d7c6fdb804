----------------------------- MODULE CallLowering -----------------------------
(***************************************************************************)
(* A checked call on its way to LLVM.  HIRGen lowers the arguments one by  *)
(* one and deals them out again, on its own: to the call, to the packed    *)
(* rest of a variadic builtin, or to the callee's variadic groups; each    *)
(* group becomes a list and its hidden count.  Codegen emits a value for   *)
(* each, finds the callee's declaration and casts the values to it.        *)
(***************************************************************************)
EXTENDS CallChecking, FiniteSets

VARIABLES
  arg_index,              \* the argument that is lowered
  call_args,              \* what HIRGen makes of the arguments
  vararg_groups,          \* the arguments in each variadic group
  packed_varargs,         \* the arguments in a builtin's open end
  current_variadic_group,
  args,                   \* codegen: the values, each with its LLVM type
  callee                  \* the declaration that is called

hirVars == <<arg_index, call_args, vararg_groups, packed_varargs, current_variadic_group>>
vars == <<prog, pc, errors, checkVars, hirVars, args, callee>>

\* One argument, a list of arguments, or a hidden count.
Arg(a) == [kind |-> "arg", elements |-> <<a>>, inner |-> "null"]
List(elements, inner) == [kind |-> "list", elements |-> elements, inner |-> inner]
Count(elements) == [kind |-> "count", elements |-> elements, inner |-> "null"]
HIRNodes == [kind : {"arg", "list", "count"}, elements : Seq(Nat \ {0}), inner : Bases \cup {"null"}]

NoCallee == [params |-> << >>, ret |-> "no function", vararg |-> FALSE]
Prototypes == [params : Seq(IrTypes), ret : IrTypes, vararg : BOOLEAN]

Ended ==
  {"crashed", "rejected", "called", "constant", "bad signature", "no function", "no type"}
PCs == {"register", "body", "call", "fixed", "rest", "groups", "HIRGen", "lower", "varargs",
        "check_err", "codegen", "emit", "call.cast"} \cup Ended

Init ==
  /\ CheckInit
  /\ arg_index = 1 /\ current_variadic_group = 1
  /\ call_args = << >> /\ packed_varargs = << >>
  /\ vararg_groups = << >>
  /\ args = << >>
  /\ callee = NoCallee

-----------------------------------------------------------------------------
(* HIRGen *)

generate ==
  /\ pc = "HIRGen"
  /\ pc' = "lower"
  /\ vararg_groups' = IF VariadicUser THEN [g \in 1 .. Len(Groups) |-> << >>] ELSE << >>
  /\ UNCHANGED <<prog, errors, checkVars, arg_index, call_args, packed_varargs,
                 current_variadic_group, args, callee>>

lowered(a) == types[a]

distribute_lowered_arg ==
  /\ pc = "lower" /\ arg_index <= Argc
  /\ CASE VariadicBuiltin /\ arg_index > count_fixed_builtin_params(prog.name) ->
            /\ packed_varargs' = Append(packed_varargs, arg_index)
            /\ UNCHANGED <<call_args, vararg_groups, current_variadic_group>>
       [] /\ ~(VariadicBuiltin /\ arg_index > count_fixed_builtin_params(prog.name))
          /\ VariadicUser /\ arg_index > fixed_user_param_count(prog.params) ->
            LET g == FirstMatch(Groups, current_variadic_group, lowered(arg_index).base) IN
            /\ vararg_groups' = [vararg_groups EXCEPT ![g] = Append(@, arg_index)]
            /\ current_variadic_group' = g
            /\ UNCHANGED <<call_args, packed_varargs>>
       [] OTHER ->
            /\ call_args' = Append(call_args, Arg(arg_index))
            /\ UNCHANGED <<packed_varargs, vararg_groups, current_variadic_group>>
  /\ arg_index' = arg_index + 1
  /\ UNCHANGED <<prog, pc, errors, checkVars, args, callee>>

lower_end ==
  /\ pc = "lower" /\ arg_index > Argc
  /\ pc' = "varargs"
  /\ UNCHANGED <<prog, errors, checkVars, hirVars, args, callee>>

\* A list and its count for each group, also for a function that has the name of a
\* variadic builtin: what was packed is left behind.
emit_varargs_to_call ==
  /\ pc = "varargs"
  /\ pc' = "check_err"
  /\ call_args' = call_args \o
       (IF VariadicUser
        THEN FlattenSeq([g \in 1 .. Len(Groups) |->
               <<List(vararg_groups[g], Groups[g]), Count(vararg_groups[g])>>])
        ELSE IF packed_varargs # << >> THEN <<List(packed_varargs, "null")>> ELSE << >>)
  /\ UNCHANGED <<prog, errors, checkVars, arg_index, vararg_groups, packed_varargs,
                 current_variadic_group, args, callee>>

check_err ==
  /\ pc = "check_err"
  /\ pc' = IF errors = {} THEN "codegen" ELSE "rejected"
  /\ UNCHANGED <<prog, errors, checkVars, hirVars, args, callee>>

-----------------------------------------------------------------------------
(* Declarations *)

\* create_fn_definition puts a count behind every variadic parameter.
HiddenCounts(params) ==
  FlattenSeq([p \in 1 .. Len(params) |->
    IF params[p].variadic THEN <<ir_type(params[p].type), "i64">> ELSE <<ir_type(params[p].type)>>])

get_or_create_prototype ==
  [params |-> HiddenCounts(prog.params),
   ret |-> IF ret = NoType THEN "void" ELSE ir_type(ret), vararg |-> FALSE]

\* Of a function that the module does not import: the parameters as they are declared.
get_or_create_symbol_prototype ==
  [params |-> [p \in 1 .. Len(prog.params) |-> ir_type(prog.params[p].type)],
   ret |-> IF ret = NoType THEN "i32" ELSE ir_type(ret), vararg |-> FALSE]

builtin_prototype ==
  LET params == lookup(prog.name).params
      fixed == count_fixed_builtin_params(prog.name) IN
  [params |-> [p \in 1 .. fixed |-> ir_type(params[p].type)],
   ret |-> ir_type(lookup(prog.name).ret), vararg |-> fixed < Len(params)]

\* What ir_type returns for the return type is used unseen.
NullType == ret # NoType /\ ir_type(ret) = "none"

\* pre_declare_all_user_functions: the module's own functions, and those of modules it
\* imports.
pre_declare_all_user_functions ==
  /\ pc = "codegen"
  /\ CASE ~(prog.defined /\ prog.linkage # "sibling") -> pc' = "emit" /\ UNCHANGED callee
       [] prog.defined /\ prog.linkage # "sibling" /\ NullType ->
            pc' = "no type" /\ UNCHANGED callee
       [] prog.defined /\ prog.linkage # "sibling" /\ ~NullType ->
            pc' = "emit" /\ callee' = get_or_create_prototype
  /\ UNCHANGED <<prog, errors, checkVars, hirVars, args>>

-----------------------------------------------------------------------------
(* emit_call *)

\* A group becomes an array of the group's type, and every element is stored in its
\* slot as it is.  One that is narrower leaves a part of the slot unwritten, one that
\* is wider reaches into the next slot or behind the array, and one of another kind is
\* read as what it is not.
generateList(node) ==
  \A e \in 1 .. Len(node.elements) :
    ir_type(types[node.elements[e]]) = ir_type(Scalar(node.inner))

Value(node) ==
  [node |-> node,
   type |-> CASE node.kind = "arg" -> ir_type(types[node.elements[1]])
              [] node.kind = "list" -> "ptr" [] OTHER -> "i64",
   intact |-> node.kind = "list" => generateList(node)]
IsList(node) ==
  node.kind = "list" \/ (node.kind = "arg" /\ types[node.elements[1]].base = "LIST")

\* A variadic builtin's packed arguments are values of their own again.
Unpacked(node) ==
  IF VariadicBuiltin /\ node.kind = "list"
  THEN [e \in 1 .. Len(node.elements) |-> Value(Arg(node.elements[e]))] ELSE <<Value(node)>>

emit_args ==
  /\ pc = "emit"
  /\ args' = FlattenSeq([n \in 1 .. Len(call_args) |-> Unpacked(call_args[n])])
  /\ IF prog.name = "len" /\ IsList(call_args[1])
     THEN pc' = "constant" /\ UNCHANGED callee
     ELSE IF callee # NoCallee THEN pc' = "call.cast" /\ UNCHANGED callee
     ELSE IF prog.name \in BuiltinNames THEN pc' = "call.cast" /\ callee' = builtin_prototype
     ELSE IF ~FnSymbol THEN pc' = "no function" /\ UNCHANGED callee
     ELSE IF NullType THEN pc' = "no type" /\ UNCHANGED callee
     ELSE pc' = "call.cast" /\ callee' = get_or_create_symbol_prototype
  /\ UNCHANGED <<prog, errors, checkVars, hirVars>>

Cast(type, expected) ==
  IF IrKind(type) = IrKind(expected) THEN expected ELSE type

\* CreateCall takes values of exactly the types of the declaration.
emit_call ==
  /\ pc = "call.cast"
  /\ args' = [v \in 1 .. Len(args) |->
                IF v <= Len(callee.params)
                THEN [args[v] EXCEPT !.type = Cast(@, callee.params[v])] ELSE args[v]]
  /\ pc' = IF /\ IF callee.vararg THEN Len(args) >= Len(callee.params)
                                  ELSE Len(args) = Len(callee.params)
              /\ \A v \in 1 .. Len(callee.params) : args'[v].type = callee.params[v]
           THEN "called" ELSE "bad signature"
  /\ UNCHANGED <<prog, errors, checkVars, hirVars, callee>>

Compile ==
  \/ SemanticPass /\ UNCHANGED <<hirVars, args, callee>>
  \/ generate \/ distribute_lowered_arg \/ lower_end \/ emit_varargs_to_call \/ check_err
  \/ pre_declare_all_user_functions \/ emit_args \/ emit_call

Finished == pc \in Ended /\ UNCHANGED vars

Next == Compile \/ Finished

Spec == Init /\ [][Next]_vars
\* The compiler is a single process that does not wait.
FairSpec == Spec /\ WF_vars(Compile)

-----------------------------------------------------------------------------
(* What the callee receives *)

\* Where parameter p is in the callee's own prototype.
Slot(p) == p + Cardinality({q \in 1 .. p - 1 : prog.params[q].variadic})
Elements(v) == IF v <= Len(args) THEN args[v].node.elements ELSE << >>
Received(p) ==
  [elements |-> Elements(Slot(p)),
   count |-> IF prog.params[p].variadic THEN Len(Elements(Slot(p) + 1)) ELSE 1]
\* A builtin's open end has what is left, and no count.
ReceivedByBuiltin(p) ==
  IF p \in OpenEnded(lookup(prog.name).params)
  THEN LET rest == FlattenSeq([v \in 1 .. Len(args) - p + 1 |-> Elements(p + v - 1)]) IN
       [elements |-> rest, count |-> Len(rest)]
  ELSE [elements |-> Elements(p), count |-> 1]

\* The callee finds in its lists what was stored there.
Intact == \A v \in 1 .. Len(args) : args[v].intact

\* A constant for len drops the arguments behind the first.
verdict ==
  CASE pc \in {"crashed", "rejected"} -> "rejected"
    [] (pc = "called" /\ Intact) \/ (pc = "constant" /\ Argc = 1) -> "bound"
    [] (pc = "called" /\ ~Intact) \/ (pc = "constant" /\ Argc > 1) -> "broken"
    [] pc \in {"bad signature", "no function", "no type"} -> "broken"
    [] OTHER -> "open"
binding ==
  CASE pc = "constant" /\ Argc = 1 -> <<[elements |-> call_args[1].elements, count |-> 1]>>
    [] pc = "called" /\ Intact ->
         IF FnSymbol THEN [p \in 1 .. Len(prog.params) |-> Received(p)]
         ELSE [p \in 1 .. Len(lookup(prog.name).params) |-> ReceivedByBuiltin(p)]
    [] OTHER -> << >>
B == INSTANCE CallBinding WITH prog <- prog, verdict <- verdict, binding <- binding

-----------------------------------------------------------------------------
(* Properties *)

TypeOK ==
  /\ pc \in PCs
  /\ errors \subseteq {"SEM_INTERNAL_ERROR", "SEM_RETURN_TYPE_MISMATCH", "SEM_INDEX_NOT_ARRAY",
                       "SEM_CALL_UNDEF_FN", "SEM_ARGC_MISMATCH", "SEM_ARG_TYPE_MISMATCH"}
  /\ ret \in Types /\ call_type \in Types
  /\ types \in [Args -> Types]
  /\ i \in 1 .. Argc + 1 /\ arg_index \in 1 .. Argc + 1
  /\ group \in [Args -> 0 .. Len(Groups)]
  /\ current_group \in Nat /\ current_variadic_group \in Nat
  /\ call_args \in Seq(HIRNodes) /\ packed_varargs \in Seq(Args)
  /\ vararg_groups \in Seq(Seq(Args))
  /\ args \in Seq([node : HIRNodes, type : IrTypes, intact : BOOLEAN])
  /\ callee \in Prototypes \cup {NoCallee}

\* An argument of an accepted call is lowered into the group it was checked for: the
\* two passes deal the arguments out independently (call in semantic/fn_handler.cpp,
\* distribute_lowered_arg in HIRGen/call.cpp).
GroupsAgree ==
  errors = {} /\ prog.name # "len" /\ VariadicUser /\ ~VariadicBuiltin /\ vararg_groups # << >> =>
    \A a \in 1 .. arg_index - 1, g \in 1 .. Len(Groups) :
      group[a] = g <=> \E e \in 1 .. Len(vararg_groups[g]) : vararg_groups[g][e] = a

\* The type an accepted call has for its caller is the type of the value that LLVM's
\* call returns, unless another function is called than the one that was checked.  A
\* function without a declared return type has to be checked in front of the call for
\* that, and to return something (get_call_sig and update_ret_type in
\* semantic/fn_handler.cpp, the prototypes in codegen/handle_fn.cpp).
CallHasItsType ==
  pc = "called" /\ ~B!Shadowed /\ ~B!TakenForBuiltin =>
    \/ ir_type(call_type) = callee.ret
    \/ /\ call_type = Unknown /\ prog.ret = NoType
       /\ ~prog.calleeFirst \/ prog.body = << >>

\* Every call is read as the signature says, every argument arriving as it was given, or
\* rejected for want of a reading, or one of the calls CallBinding lists as fragile or
\* misfit (all of emit_call, from the check to the LLVM call, and the stores of
\* generateList).
ImplementsCallBinding == B!Spec

\* Every call is compiled, or given up, in the end.
Termination == <>(pc \in Ended)

=============================================================================
