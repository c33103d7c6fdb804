------------------------------ MODULE Arithmetics ------------------------------
(***************************************************************************)
(* What the operations compute, for numbers as Numerals counts them.       *)
(***************************************************************************)
EXTENDS Numerals

\* Division towards zero.
Quotient(x, y) ==
  LET q == (IF x < 0 THEN -x ELSE x) \div (IF y < 0 THEN -y ELSE y) IN
  IF (x < 0) = (y < 0) THEN q ELSE -q
Remainder(x, y) == x - y * Quotient(x, y)

\* By squaring, with t's bits.
Power(x, y, t) ==
  LET pow[e \in Nat] ==
        [b \in Int |->
           IF e = 0 THEN 1
           ELSE LET rest == pow[e \div 2][Wrap(b * b, t)] IN
                IF e % 2 = 1 THEN Wrap(b * rest, t) ELSE rest]
  IN Wrap(pow[y][x], t)

\* The bits of both a and b; the other operations follow by adding.
Bitand(x, y) ==
  LET and[b \in Nat] ==
        [a \in Nat |-> IF b = 0 THEN 0 ELSE (a % 2) * (b % 2) + 2 * and[b \div 2][a \div 2]]
  IN and[y][x]
Bitor(x, y) == x + y - Bitand(x, y)
Bitxor(x, y) == x + y - 2 * Bitand(x, y)

\* x, of type t, as a bit pattern.
Pattern(x, t) == x % Modulus(t)

\* The exact result, or one that has the same low bits.
Apply(op, x, y, t) ==
  CASE op = "OP_ADD" -> x + y
    [] op = "OP_SUB" -> x - y
    [] op = "OP_MUL" -> x * y
    [] op = "OP_DIV" -> Quotient(x, y)
    [] op = "OP_MOD" -> Remainder(x, y)
    [] op = "OP_POW" -> Power(x, y, t)
    [] op = "OP_LSHIFT" -> x * 2 ^ y
    [] op = "OP_RSHIFT" -> x \div 2 ^ y
    [] op = "OP_BITAND" -> Bitand(Pattern(x, t), Pattern(y, t))
    [] op = "OP_BITOR" -> Bitor(Pattern(x, t), Pattern(y, t))
    [] op = "OP_BITXOR" -> Bitxor(Pattern(x, t), Pattern(y, t))

Compare(op, x, y) ==
  CASE op = "OP_EQ" -> x = y
    [] op = "OP_NEQ" -> x # y
    [] op = "OP_LT" -> x < y
    [] op = "OP_LE" -> x <= y
    [] op = "OP_GT" -> x > y
    [] op = "OP_GE" -> x >= y
Truth(b) == IF b THEN 1 ELSE 0

\* What is undefined in LLVM: a quotient that does not exist or does not fit, and a shift
\* by all bits or more; and the bits of a floating-point number.  What floating-point
\* numbers do that is not exact in halves is left open as well.
Inexact == {"OP_MUL", "OP_DIV", "OP_MOD", "OP_POW"}
Undefined(op, x, y, t) ==
  \/ is_float(t) /\ op \in BitwiseOps \cup Inexact
  \/ /\ ~is_float(t)
     /\ \/ op \in {"OP_DIV", "OP_MOD"} /\ y = 0
        \/ op \in {"OP_DIV", "OP_MOD"} /\ Wrap(Quotient(x, y), t) # Quotient(x, y)
        \/ op \in {"OP_LSHIFT", "OP_RSHIFT"} /\ (y < 0 \/ y >= Width(t))
        \/ op = "OP_POW" /\ y < 0

=============================================================================
