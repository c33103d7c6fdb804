------------------------------- MODULE Numerals -------------------------------
(***************************************************************************)
(* Numeric types and expressions over them.  A type is a class and a size; *)
(* how many bits a size has is a parameter.  Floating-point numbers are    *)
(* counted in halves and are exact.  An expression is the sequence of its  *)
(* nodes, operands in front of what they are operands of.                  *)
(***************************************************************************)
EXTENDS Integers, Sequences

CONSTANTS
  Bits,     \* Bits[s]: the bits of the integers of size s
  Programs  \* the programs that are compiled, or interpreted

Sizes == 1 .. 5
ASSUME BitsAssumption ==
  /\ Bits \in [Sizes -> Nat \ {0}]
  /\ \A s, t \in Sizes : s < t => Bits[s] < Bits[t]
\* What is used of powers of two.
ASSUME PowersOfTwo == 2 ^ 1 = 2 /\ \A n \in 0 .. Bits[5] : 2 ^ n \in Nat \ {0}

SignedOf(s) == [class |-> "signed", size |-> s]
UnsignedOf(s) == [class |-> "unsigned", size |-> s]
FloatOf(s) == [class |-> "float", size |-> s]
UFloatOf(s) == [class |-> "ufloat", size |-> s]
I8 == SignedOf(1)    I32 == SignedOf(3)    I64 == SignedOf(4)    I128 == SignedOf(5)
U8 == UnsignedOf(1)  U32 == UnsignedOf(3)  U64 == UnsignedOf(4)  U128 == UnsignedOf(5)
F32 == FloatOf(3)    F64 == FloatOf(4)     F128 == FloatOf(5)
BOOL == [class |-> "bool", size |-> 0]
UNKNOWN == [class |-> "unknown", size |-> 0]

IntTypes == [class : {"signed", "unsigned"}, size : Sizes]
FloatTypes == [class : {"float", "ufloat"}, size : {3, 4, 5}]
NumericTypes == IntTypes \cup FloatTypes
DataTypes == NumericTypes \cup {BOOL, UNKNOWN}

is_integer(t) == t.class \in {"signed", "unsigned"}
is_float(t) == t.class \in {"float", "ufloat"}
is_numeric(t) == is_integer(t) \/ is_float(t)
is_unsigned_numeric(t) == t.class \in {"unsigned", "ufloat"}

-----------------------------------------------------------------------------
(* Promotion *)

Largest(types) ==
  IF types = {} THEN 1 ELSE CHOOSE s \in {t.size : t \in types} : \A t \in types : t.size <= s

\* What two operands have in common: the first of these classes that one of them has, and
\* the largest size in it.  A ufloat counts as a float beside one.
Promoted(a, b) ==
  LET classes == {a.class, b.class}
      first == IF "float" \in classes THEN "float"
               ELSE IF "ufloat" \in classes THEN "ufloat"
               ELSE IF "unsigned" \in classes THEN "unsigned" ELSE "signed"
      alike == {t \in {a, b} : t.class = first \/ (first = "float" /\ t.class = "ufloat")} IN
  [class |-> first, size |-> Largest(alike)]

-----------------------------------------------------------------------------
(* Values: integers, halves for floating-point numbers, 0 and 1 for BOOL *)

Width(t) == IF t.size = 0 THEN 1 ELSE Bits[t.size]
Modulus(t) == 2 ^ Width(t)

\* The value of type t that has the low bits of n.
Wrap(n, t) ==
  LET low == n % Modulus(t) IN
  IF t.class = "signed" /\ low >= Modulus(t) \div 2 THEN low - Modulus(t) ELSE low

Truncated(halves) == IF halves >= 0 THEN halves \div 2 ELSE -((-halves) \div 2)

-----------------------------------------------------------------------------
(* Programs: y and z hold values; x is declared, and may be assigned once more *)

Arithmetic == {"OP_ADD", "OP_SUB", "OP_MUL", "OP_DIV", "OP_MOD", "OP_POW", "OP_LSHIFT", "OP_RSHIFT",
               "OP_BITAND", "OP_BITOR", "OP_BITXOR"}
BitwiseOps == {"OP_LSHIFT", "OP_RSHIFT", "OP_BITAND", "OP_BITOR", "OP_BITXOR"}
Comparisons == {"OP_EQ", "OP_NEQ", "OP_LT", "OP_LE", "OP_GT", "OP_GE"}
Logic == {"OP_AND", "OP_OR"}
Unary == {"OP_NEG", "OP_POS", "OP_NOT", "OP_BITNOT", "OP_INC", "OP_DEC"}
Names == {"x", "y", "z"}

\* A literal is a number of halves, and has a point or not.
Num(halves, dot) ==
  [kind |-> "num", op |-> "none", l |-> 0, r |-> 0, name |-> "none", halves |-> halves, dot |-> dot]
Var(name) ==
  [kind |-> "var", op |-> "none", l |-> 0, r |-> 0, name |-> name, halves |-> 0, dot |-> FALSE]
Unop(op, operand) ==
  [kind |-> "unop", op |-> op, l |-> operand, r |-> 0, name |-> "none", halves |-> 0, dot |-> FALSE]
Binop(op, l, r) ==
  [kind |-> "binop", op |-> op, l |-> l, r |-> r, name |-> "none", halves |-> 0, dot |-> FALSE]

\* The operation of an assignment, and of get_assign_op.
AssignOps == {"OP_ASSIGN", "OP_ADD", "OP_SUB", "OP_MUL", "OP_DIV", "OP_MOD", "OP_POW", "OP_LSHIFT",
              "OP_RSHIFT"}

Operations == {"none"} \cup Arithmetic \cup Comparisons \cup Logic \cup Unary
Expressions == [kind : {"num", "var", "unop", "binop"}, op : Operations, l : Nat, r : Nat,
                name : {"none"} \cup Names, halves : Nat, dot : BOOLEAN]
Assignments == [type : DataTypes, op : AssignOps, nodes : Seq(Expressions)]
Variables == [type : NumericTypes \cup {BOOL}, n : Int]

\* What the parser and the binding of names leave: operands are in front of what they are
\* operands of, ++ and -- are those of a variable, and only known names are read.
WellFormed(nodes, k, names) ==
  LET e == nodes[k] IN
  /\ e.kind = "var" => e.name \in names
  /\ e.dot => e.kind = "num"
  /\ e.kind = "unop" =>
       /\ e.op \in Unary /\ e.l \in 1 .. k - 1
       /\ e.op \in {"OP_INC", "OP_DEC"} => nodes[e.l].kind = "var"
  /\ e.kind = "binop" =>
       /\ e.op \in Arithmetic \cup Comparisons \cup Logic
       /\ e.l \in 1 .. k - 1 /\ e.r \in 1 .. k - 1

\* x is declared by the first assignment, which does not read it.
ASSUME ProgramsAssumption ==
  \A p \in Programs :
    /\ p.y \in Variables /\ p.z \in Variables
    /\ p.stmts \in Seq(Assignments) /\ Len(p.stmts) \in {1, 2} /\ p.stmts[1].op = "OP_ASSIGN"
    /\ \A s \in 1 .. Len(p.stmts) :
         LET nodes == p.stmts[s].nodes IN
         /\ nodes # << >>
         /\ \A k \in 1 .. Len(nodes) : WellFormed(nodes, k, IF s = 1 THEN {"y", "z"} ELSE Names)

=============================================================================
