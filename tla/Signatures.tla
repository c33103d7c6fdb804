------------------------------ MODULE Signatures ------------------------------
(***************************************************************************)
(* Function signatures, as both the semantic pass and the lowering see     *)
(* them: the builtin registry, and the variadic groups a user function     *)
(* declares.                                                               *)
(***************************************************************************)
EXTENDS ValueTypes, SequencesExt

Params == [type : Types, variadic : BOOLEAN]

-----------------------------------------------------------------------------
(* The builtin registry *)

Fixed(t) == [type |-> t, variadic |-> FALSE]
BuiltinNames == {"malloc", "printf", "_SA_getCharAt", "SA_encode_cp"}
bootstrap ==
  [name \in BuiltinNames |->
     CASE name = "malloc" -> [params |-> <<Fixed(Scalar("U128"))>>, ret |-> PtrTo("VOID")]
       [] name = "printf" ->
            [params |-> <<Fixed(Scalar("STRINGS")), [type |-> Unknown, variadic |-> TRUE]>>,
             ret |-> Scalar("VOID")]
       [] name = "_SA_getCharAt" ->
            [params |-> <<Fixed(Scalar("STRINGS")), Fixed(Scalar("I64"))>>,
             ret |-> PtrTo("null")]
       [] name = "SA_encode_cp" ->
            [params |-> <<Fixed(Scalar("CHARACTER"))>>, ret |-> PtrTo("null")]]

\* lookup of a name that is not there.
NoBuiltin == [params |-> << >>, ret |-> NoType]
lookup(name) == IF name \in BuiltinNames THEN bootstrap[name] ELSE NoBuiltin

\* How many parameters stand in front of the first one that is marked.
Before(params, marked) ==
  IF marked = {} THEN Len(params) ELSE (CHOOSE k \in marked : \A l \in marked : k <= l) - 1

OpenEnded(params) == {k \in 1 .. Len(params) : params[k].type.base = "UNKNOWN"}
is_variadic_builtin(name) == OpenEnded(lookup(name).params) /= {}
count_fixed_builtin_params(name) == Before(lookup(name).params, OpenEnded(lookup(name).params))

VariadicParams(params) == {k \in 1 .. Len(params) : params[k].variadic}
has_variadic_user_param(params) == VariadicParams(params) /= {}
fixed_user_param_count(params) == Before(params, VariadicParams(params))

\* The inner types of the variadic parameters, in the order of their declaration.
variadic_inner_types(params) ==
  FlattenSeq([p \in 1 .. Len(params) |->
    IF params[p].variadic THEN <<params[p].type.inner>> ELSE << >>])

=============================================================================
