------------------------------ MODULE CallBinding ------------------------------
(***************************************************************************)
(* What a call promises.  A reading gives every argument a parameter: the  *)
(* fixed ones take one each, in order; behind them the arguments are dealt *)
(* out in order to the variadic parameters.  A call is bound by a reading, *)
(* and rejected only if it has none, or its callee is ill-formed.          *)
(***************************************************************************)
EXTENDS Signatures

VARIABLES
  prog,
  verdict,  \* "open", "rejected", "bound", or "broken": LLVM does not take the call, or
            \* the callee is not given what the caller passed
  binding   \* for each parameter, the arguments it is given, and how many it is told

vars == <<prog, verdict, binding>>

\* The type an expression has by itself.
Own(e) ==
  IF e.literal = "none" \/ e.type.base # "UNKNOWN" THEN e.type
  ELSE Scalar(IF e.literal = "float" THEN "F32" ELSE "I32")

Meets(e, want) ==
  \/ want.base = "UNKNOWN"
  \/ want = ListOf("null") /\ Own(e).base = "LIST"
  \/ types_are_equal(Own(e), want)

-----------------------------------------------------------------------------
(* Well-formed callees *)

Formals ==
  CASE prog.name = "len" -> <<Fixed(ListOf("null"))>>
    [] prog.name # "len" /\ prog.defined -> prog.params
    [] OTHER -> lookup(prog.name).params
Callable == prog.name = "len" \/ prog.defined \/ prog.name \in BuiltinNames

OrderedGroups ==
  \A p, q \in 1 .. Len(prog.params) :
    /\ p < q /\ prog.params[p].variadic => prog.params[q].variadic
    /\ q = p + 1 /\ prog.params[p].variadic => prog.params[p].type # prog.params[q].type
ReturnsItsType ==
  IF prog.body = << >> THEN prog.ret \in {NoType, Scalar("VOID")}
  ELSE prog.ret = NoType \/ types_are_equal(Own(prog.body[1]), prog.ret)
WellFormed == prog.defined => OrderedGroups /\ ReturnsItsType

-----------------------------------------------------------------------------
(* Readings *)

Argc == Len(prog.args)
FixedCount == Before(Formals, VariadicParams(Formals))
VariadicFormals == FixedCount + 1 .. Len(Formals)

\* Variadic parameter f takes e: for its type, or as the last one for want of another
\* from prev on.
Exactly(e, f) == f \in OpenEnded(Formals) \/ Own(e).base = Formals[f].type.inner
Takes(e, f, prev) ==
  \/ Exactly(e, f)
  \/ /\ f = Len(Formals)
     /\ Meets(e, Scalar(Formals[f].type.inner))
     /\ \A g \in VariadicFormals : g >= prev => ~Exactly(e, g)

Readings ==
  {r \in [1 .. Argc -> 1 .. Len(Formals)] :
     /\ FixedCount <= Argc
     /\ \A a \in 1 .. FixedCount : r[a] = a /\ Meets(prog.args[a], Formals[a].type)
     /\ \A a \in FixedCount + 1 .. Argc :
          /\ r[a] \in VariadicFormals
          /\ a > FixedCount + 1 => r[a - 1] <= r[a]
          /\ Takes(prog.args[a], r[a], IF a > FixedCount + 1 THEN r[a - 1] ELSE 1)
     /\ FixedCount + 1 < Len(Formals) =>
          \A f \in VariadicFormals : \E a \in 1 .. Argc : r[a] = f}

Given(r, f) == SelectSeq([a \in 1 .. Argc |-> a], LAMBDA a : r[a] = f)

-----------------------------------------------------------------------------
(* Calls that the compiler gets wrong *)

\* A function with the name of a variadic builtin, or of len: the two are mixed up.
Shadowed == prog.defined /\ (is_variadic_builtin(prog.name) \/ prog.name = "len")

\* A fixed parameter is given an integer for a floating-point number, or the other way
\* round: types_are_equal does not tell numbers apart, and codegen only changes widths.
OtherKind(e, want) ==
  /\ is_numeric(want) /\ is_numeric(Own(e))
  /\ e.literal = "none" \/ e.type.base # "UNKNOWN"
  /\ IrKind(ir_type(e.type)) # IrKind(ir_type(want))

\* A function of a module that is not imported, with the name of a builtin: what is
\* called is the builtin.
TakenForBuiltin == prog.defined /\ prog.linkage = "sibling" /\ prog.name \in BuiltinNames

Fragile ==
  \/ TakenForBuiltin
  \* The declaration of a function that is not imported has no hidden counts.
  \/ prog.defined /\ prog.linkage = "sibling" /\ has_variadic_user_param(prog.params)
  \* It returns what a function that is checked later does: that type is never known.
  \/ prog.defined /\ prog.ret = NoType /\ prog.body # << >> /\ ir_type(Own(prog.body[1])) = "none"
  \* A variadic builtin does not count its arguments.
  \/ ~prog.defined /\ is_variadic_builtin(prog.name) /\ Argc < FixedCount
  \/ \E a \in 1 .. FixedCount : a <= Argc /\ OtherKind(prog.args[a], Formals[a].type)
  \* len looks at the last argument when it is checked, at the first when it is compiled.
  \/ prog.name = "len" /\ Argc > 1

\* A variadic parameter is given a number of another type, as the last one takes it for
\* want of a better one: it is neither converted nor cast, but stored in a slot of the
\* parameter's type.  So is a literal, whose type is inferred before its parameter is
\* known.
Misfit(r) ==
  prog.defined /\ \E a \in FixedCount + 1 .. Argc :
    ir_type(Own(prog.args[a])) # ir_type(Scalar(Formals[r[a]].type.inner))

-----------------------------------------------------------------------------
(* The promise *)

\* prog is any call.
Init == verdict = "open" /\ binding = << >>

Bind ==
  /\ verdict' = "bound"
  /\ Callable /\ WellFormed
  /\ \E r \in Readings :
       /\ ~Misfit(r)
       /\ binding' = [f \in 1 .. Len(Formals) |->
                        [elements |-> Given(r, f), count |-> Len(Given(r, f))]]

Reject ==
  /\ verdict' = "rejected"
  /\ ~Callable \/ ~WellFormed \/ Readings = {}
  /\ UNCHANGED binding

Break ==
  /\ verdict' = "broken"
  /\ Fragile \/ \E r \in Readings : Misfit(r)
  /\ UNCHANGED binding

\* Nothing is promised.
MixUp == verdict' \in {"rejected", "bound", "broken"} /\ Shadowed

Next == verdict = "open" /\ (Bind \/ Reject \/ Break \/ MixUp) /\ UNCHANGED prog

Spec == Init /\ [][Next]_vars

=============================================================================
