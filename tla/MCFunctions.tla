----------------------------- MODULE MCFunctions -----------------------------
(* Instances of FunctionCode for TLC: every shape of a small body, and every  *)
(* type of result with every value in the smallest.                           *)
EXTENDS FunctionCode

Token_(k, c, v) == [k |-> k, cond |-> c, value |-> v]
Mark(k) == Token_(k, NoCond, NoValue)
ReturnOf(v) == Token_("ret", NoCond, v)

Known(b) == [literal |-> "none", type |-> Scalar(b)]
IntLiteral == [literal |-> "int", type |-> Unknown]
Values == {IntLiteral, [literal |-> "float", type |-> Unknown], NoValue}
            \cup {Known(b) : b \in {"I32", "I64", "F32", "STRINGS"}}
Results == {NoType} \cup {Scalar(b) : b \in {"I32", "I64", "F32", "STRINGS", "VOID"}}

Concat(S, T) == {s \o t : s \in S, t \in T}
One(S) == {<<s>> : s \in S}
If(conds, then_, rest) ==
  Concat(One({Token_("if", c, NoValue) : c \in conds}),
         Concat(then_, Concat({<<Mark("end")>>}, rest)))
IfElse(conds, then_, else_, rest) ==
  Concat(One({Token_("if", c, NoValue) : c \in conds}),
         Concat(Concat(then_, {<<Mark("else")>>}), Concat(else_, Concat({<<Mark("end")>>}, rest))))
While(conds, within, rest) ==
  Concat(One({Token_("while", c, NoValue) : c \in conds}),
         Concat(within, Concat({<<Mark("end")>>}, rest)))

\* One to three statements, with simple statements from S and conditions from C.
S0 == {<< >>}
Heads(C, then_, rest) == If(C, then_, rest) \cup While(C, then_, rest)
Upto1(S, C) == S0 \cup One(S) \cup Heads(C, S0, S0)
Two(S, C) ==
  LET U1 == Upto1(S, C) IN
  Concat(One(S), U1) \cup Heads(C, S0, U1) \cup Heads(C, U1, S0)
    \cup IfElse(C, One(S), One(S), S0) \cup IfElse(C, S0, One(S), S0)
Three(S, C) ==
  LET U1 == Upto1(S, C)  S2 == Two(S, C) IN
  Concat(One(S), S2) \cup Heads(C, S2, S0) \cup Heads(C, S0, S2) \cup Heads(C, One(S), U1)
    \cup IfElse(C, One(S), One(S), One(S)) \cup IfElse(C, S0, One(S), One(S))
    \cup IfElse(C, If({"x..."}, One(S), S0), One(S), S0)

Jumps == {Mark("do"), Mark("break"), Mark("continue")}
Simple == Jumps \cup {ReturnOf(Known("I32"))}
\* An if in a branch that counts as a return without one.
Trusted ==
  LET act == {<<Mark("do")>>} IN
  IfElse({"x..."}, If({"t..."}, S0, Upto1(Simple, {"x..."})), act, One(Simple))
Shapes ==
  Upto1(Simple, Conds) \cup Two(Simple, Conds) \cup Three(Simple, {"x...", "false"}) \cup Trusted
Typings ==
  LET rets == One({ReturnOf(v) : v \in Values}) IN
  S0 \cup rets \cup Concat(rets, {<<Mark("do")>>}) \cup Concat(rets, rets)
    \cup If({"x..."}, rets, rets) \cup IfElse({"x..."}, rets, rets, S0)

Define(results, bodies) == [ret : results, body : bodies]
AllFunctions ==
  Define({Scalar("I32"), NoType}, Shapes) \cup Define(Results, Typings)

\* What a cfg puts in the place of a constant is evaluated at every use, a definition
\* it refers to only once.
SomeFunctions == AllFunctions

=============================================================================
