------------------------------ MODULE ValueTypes ------------------------------
(***************************************************************************)
(* Types of values, how they compare, how a literal gets one, and what     *)
(* they are in LLVM.  A type is its base and the base of its inner type;   *)
(* sizes are left out.                                                     *)
(***************************************************************************)
EXTENDS Integers, Sequences

Signed == {"I32", "I64"}
Floats == {"F32", "F64"}
Numeric == Signed \cup Floats \cup {"U128"}
Bases == Numeric \cup {"CHARACTER", "STRINGS", "LIST", "PTR", "VOID", "UNKNOWN"}
Types == [base : Bases \cup {"null"}, inner : Bases \cup {"null"}]

Scalar(b) == [base |-> b, inner |-> "null"]
ListOf(b) == [base |-> "LIST", inner |-> b]
PtrTo(b) == [base |-> "PTR", inner |-> b]
NoType == Scalar("null")  \* the null pointer
Unknown == Scalar("UNKNOWN")

is_numeric(t) == t.base \in Numeric

\* Types of two sizes are not equal either: that is left out, with the sizes.
types_are_equal(a, b) ==
  \/ is_numeric(a) /\ is_numeric(b)
  \/ a.base = b.base /\ (a.base \in {"LIST", "PTR"} => a.inner = b.inner)

\* An expression in the place of an argument or behind ret: a literal, typed when it
\* is checked, or anything whose type is known.  A call of a function whose return
\* type is not known yet has the type Unknown.
Expressions == [literal : {"int", "float", "none"}, type : Types]

force_numeric_type(e, t, want) ==
  IF is_numeric(want) /\ e.literal # "none" /\ t.base = "UNKNOWN" THEN Scalar(want.base) ELSE t

\* A literal takes the type that is wanted, or what such a container holds.
handle_num(e, t, want) ==
  IF e.literal = "none" \/ t.base # "UNKNOWN" THEN t
  ELSE CASE want.base \in {"LIST", "PTR"} /\ want.inner \in Numeric -> Scalar(want.inner)
         [] is_numeric(want) -> want
         [] OTHER -> Scalar(IF e.literal = "float" THEN "F32" ELSE "I32")

check_expr(e, t, want) == handle_num(e, force_numeric_type(e, t, want), want)

\* What a type is in LLVM.  There is none for Unknown.
ir_type(t) ==
  CASE t.base \in {"I32", "CHARACTER"} -> "i32"
    [] t.base = "I64" -> "i64"
    [] t.base = "U128" -> "i128"
    [] t.base = "F32" -> "float"
    [] t.base = "F64" -> "double"
    [] t.base \in {"STRINGS", "LIST", "PTR"} -> "ptr"
    [] t.base = "VOID" -> "void"
    [] OTHER -> "none"
IrTypes == {"i32", "i64", "i128", "float", "double", "ptr", "void", "none"}
IrKind(t) ==
  CASE t \in {"i32", "i64", "i128"} -> "integer" [] t \in {"float", "double"} -> "float"
    [] OTHER -> t

=============================================================================
