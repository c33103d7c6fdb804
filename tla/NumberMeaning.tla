----------------------------- MODULE NumberMeaning -----------------------------
(***************************************************************************)
(* What a program with numbers means: an operation converts its operands   *)
(* to their promoted type and has a result of that type; an assignment     *)
(* converts to the type of the variable.  A program is rejected, or leaves *)
(* the values it means in its variables.  What the two back ends get wrong *)
(* is listed for each of them.                                             *)
(***************************************************************************)
EXTENDS Arithmetics, NumberTypes

VARIABLES
  prog,
  path,    \* "compiled" or "interpreted", "none" before
  outcome  \* [verdict, x, y]: "open", "rejected", "ran", or "astray"

vars == <<prog, path, outcome>>

Stmts == 1 .. Len(prog.stmts)

-----------------------------------------------------------------------------
(* Values *)

InType(n, t) == IF is_float(t) THEN n ELSE Wrap(n, t)

Convert(n, from, to) ==
  CASE is_float(from) /\ ~is_float(to) -> Wrap(Truncated(n), to)
    [] is_float(to) /\ ~is_float(from) -> 2 * n
    [] OTHER -> InType(n, to)

Common(a, b) == IF a = b THEN a ELSE Promoted(a, b)
\* An operand of a node, in the common type of both.
Operand(k, e, ty, val) == Convert(val[k], ty[k], Common(ty[e.l], ty[e.r]))

UnopValue(op, n, t) ==
  CASE op = "OP_NEG" -> InType(-n, t)
    [] op = "OP_NOT" -> 1 - n
    [] op = "OP_BITNOT" -> Wrap(-n - 1, t)
    [] OTHER -> n

BinopValue(e, ty, val) ==
  LET l == Operand(e.l, e, ty, val)
      r == Operand(e.r, e, ty, val)
      t == Common(ty[e.l], ty[e.r]) IN
  CASE e.op \in Comparisons -> Truth(Compare(e.op, l, r))
    [] e.op = "OP_AND" -> l * r
    [] e.op = "OP_OR" -> l + r - l * r
    [] e.op \in Arithmetic -> IF Undefined(e.op, l, r, t) THEN 0 ELSE InType(Apply(e.op, l, r, t), t)

ValuesOf(nodes, ty, x) ==
  LET val[k \in 1 .. Len(nodes)] ==
        LET e == nodes[k] IN
        CASE e.kind = "num" -> IF is_float(ty[k]) THEN e.halves ELSE e.halves \div 2
          [] e.kind = "var" -> IF e.name = "x" THEN x ELSE prog[e.name].n
          [] e.kind = "unop" -> UnopValue(e.op, val[e.l], ty[e.l])
          [] e.kind = "binop" -> BinopValue(e, ty, val)
  IN val

X[s \in 0 .. 2] ==
  IF s = 0 THEN 0
  ELSE LET nodes == Expanded(prog, s)
           ty == Types(prog, s)
           root == Len(nodes) IN
       Convert(ValuesOf(nodes, ty, X[s - 1])[root], ty[root], XType(prog))
Values(s) == ValuesOf(Expanded(prog, s), Types(prog, s), X[s - 1])

\* y++ leaves one more in y; its value is the old one.
Steps ==
  {s \in Stmts : \E k \in 1 .. Len(Expanded(prog, s)) : Expanded(prog, s)[k].op \in {"OP_INC", "OP_DEC"}}
Y ==
  LET t == prog.y.type
      up == \E s \in Steps, k \in 1 .. 2 : Expanded(prog, s)[k].op = "OP_INC" IN
  IF Steps = {} THEN prog.y.n ELSE Wrap(IF up THEN prog.y.n + 1 ELSE prog.y.n - 1, t)

\* A literal that its type does not hold, or an undefined operation; x op= e is not checked,
\* and may be one.
NodeIsMeaningless(e, k, ty, val) ==
  \/ e.kind = "num" /\ ~LiteralFits(e, ty[k])
  \/ /\ e.kind = "binop" /\ e.op \in Arithmetic
     /\ Undefined(e.op, Operand(e.l, e, ty, val), Operand(e.r, e, ty, val), ty[k])
Meaningless ==
  \E s \in Stmts : \E k \in 1 .. Len(Expanded(prog, s)) :
    NodeIsMeaningless(Expanded(prog, s)[k], k, Types(prog, s), Values(s))

-----------------------------------------------------------------------------
(* Where compiled code goes astray *)

\* The LLVM type: how many bits, and whether they are a floating-point number.
SameIr(a, b) == a.size = b.size /\ is_float(a) = is_float(b)

CompilerDrops(e, ty) ==
  \* Nothing is emitted for these, and nothing for what they stand in, or the compiler
  \* crashes on them.
  \/ e.op \in Logic \cup {"OP_POW"}
  \/ e.op \in {"OP_INC", "OP_DEC"} /\ is_float(ty[e.l])
  \* ~e is e.
  \/ e.op = "OP_BITNOT"

CompilerMisreads(e, k, ty, val) ==
  \* Operands are not converted.
  \/ e.kind = "binop" /\ ~SameIr(ty[e.l], ty[e.r])
  \* Comparisons are signed, and of integers.
  \/ /\ e.op \in Comparisons
     /\ \/ is_float(ty[e.l])
        \/ \E o \in {e.l, e.r} :
             is_unsigned_numeric(Common(ty[e.l], ty[e.r])) /\ val[o] # Wrap(val[o], SignedOf(ty[o].size))
        \/ \E o \in {e.l, e.r} :
             is_unsigned_numeric(Common(ty[e.l], ty[e.r])) /\ val[o] < 0
  \* Literals of 128 bits go through 64.
  \/ e.kind = "num" /\ ty[k].size = 5 /\ ~is_float(ty[k]) /\ val[k] # Wrap(val[k], [ty[k] EXCEPT !.size = 4])

\* The sign of x op= e is that of e.
CompilerMisSigns(s) ==
  LET ty == Types(prog, s) IN
  /\ Compound(prog, s)
  /\ is_unsigned_numeric(XType(prog)) /\ ~is_unsigned_numeric(ty[Len(prog.stmts[s].nodes)])
CompilerAstray ==
  \E s \in Stmts :
    LET nodes == Expanded(prog, s)
        ty == Types(prog, s)
        val == Values(s) IN
    \/ \E k \in 1 .. Len(nodes) : CompilerDrops(nodes[k], ty) \/ CompilerMisreads(nodes[k], k, ty, val)
    \* The value is stored as it is.
    \/ ~SameIr(ty[Len(nodes)], XType(prog))
    \/ CompilerMisSigns(s)

-----------------------------------------------------------------------------
(* Where the interpreter goes astray *)

\* A sign that is lost when the type grows; I64 is 0 as an unsigned integer, and 32 bits
\* as a floating-point number.
LosesSign(n, from, to) ==
  /\ is_unsigned_numeric(to)
  /\ n < 0 /\ (is_float(from) \/ from.size < to.size)
NarrowsI64(n, from, to) ==
  /\ from = I64
  /\ \/ to.class = "unsigned" /\ n # 0
     \/ is_float(to) /\ Wrap(n, I32) # n
BadCast(n, from, to) == LosesSign(n, from, to) \/ NarrowsI64(n, from, to)

InterpreterMisreads(e, k, ty, val, hint) ==
  \/ e.op \in Arithmetic /\ \E o \in {e.l, e.r} : BadCast(val[o], ty[o], ty[k])
  \* Operands are compared as they are, and I64 as I32.
  \/ /\ e.op \in Comparisons
     /\ ty[e.l] # ty[e.r] \/ (ty[e.l] = I64 /\ \E o \in {e.l, e.r} : Wrap(val[o], I32) # val[o])
  \* y++ is y + 1, and leaves y as it is.
  \/ e.op \in {"OP_INC", "OP_DEC"}
  \* The operand is converted to what is assigned to, first.
  \/ e.op \in {"OP_NEG", "OP_POS", "OP_BITNOT"} /\ is_numeric(hint) /\ hint # ty[e.l]

InterpreterAstray ==
  \E s \in Stmts :
    LET nodes == Expanded(prog, s)
        root == Len(prog.stmts[s].nodes)
        ty == Types(prog, s)
        val == Values(s) IN
    \/ \E k \in 1 .. Len(nodes) :
         InterpreterMisreads(nodes[k], k, ty, val, Assigned(prog, s))
    \/ BadCast(val[root], ty[root], XType(prog))
    \* x op= e is computed in the type of x, unless that is I64.
    \/ Compound(prog, s) /\ (XType(prog) = I64 \/ ty[root] # XType(prog))

-----------------------------------------------------------------------------
(* The promise *)

Open == [verdict |-> "open", x |-> 0, y |-> 0]
Ran(x, y) == [verdict |-> "ran", x |-> x, y |-> y]
Astray ==
  CASE path' = "compiled" -> CompilerAstray
    [] path' = "interpreted" -> InterpreterAstray
    [] OTHER -> FALSE

\* prog is any program.
Init == path = "none" /\ outcome = Open

Choose == path' \in {"compiled", "interpreted"} /\ UNCHANGED outcome
Reject == outcome'.verdict = "rejected" /\ (~WellTyped(prog) \/ Meaningless) /\ UNCHANGED path
Run ==
  /\ outcome'.verdict = "ran" /\ WellTyped(prog)
  /\ outcome' = Ran(X[Len(prog.stmts)], Y)
  /\ UNCHANGED path
\* Nothing is promised.
Stray ==
  /\ outcome'.verdict \in {"ran", "astray"}
  /\ WellTyped(prog) /\ (Meaningless \/ Astray)
  /\ UNCHANGED path

Next ==
  /\ outcome.verdict = "open" /\ UNCHANGED prog
  /\ (path = "none" /\ Choose) \/ Reject \/ (path # "none" /\ (Run \/ Stray))

Spec == Init /\ [][Next]_vars

=============================================================================
