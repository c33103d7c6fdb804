---------------------------- MODULE MCNameBinding ----------------------------
(* Instances of NameBinding for TLC: every program of a few statements. *)
EXTENDS NameBinding

CONSTANTS y, z

Other == [name |-> z, isglobal |-> FALSE]
Local == [name |-> y, isglobal |-> FALSE]
At == [name |-> y, isglobal |-> TRUE]
Token(k, lhs, rhs, mut) == [k |-> k, lhs |-> lhs, rhs |-> rhs, mut |-> mut]
Plain(k) == Token(k, NoRef, NoRef, FALSE)

Simple ==
  {Token("var", Local, NoRef, mut) : mut \in BOOLEAN}
    \cup {Token("var", Local, Local, TRUE)}
    \cup {Token("set", lhs, NoRef, FALSE) : lhs \in {Local, At}}
    \cup {Token("use", NoRef, rhs, FALSE) : rhs \in {Local, At}}
    \cup {Plain("break"), Plain("ret")}
Heads ==
  {Token("for", Local, rhs, FALSE) : rhs \in {NoRef, Local, At}}
    \cup {Token(k, NoRef, rhs, FALSE) : k \in {"while", "if"}, rhs \in {NoRef, Local}}

Concat(S, T) == {s \o t : s \in S, t \in T}
One(S) == {<<s>> : s \in S}

\* Blocks(B, R): a head, its body from B, and what is behind it from R.
Blocks(body, rest) ==
  Concat(One(Heads), Concat(Concat(body, {<<Plain("end")>>}), rest))
S0 == {<< >>}
S1 == One(Simple)
S2 == Concat(S1, S1) \cup Blocks(S0, S0)
S3 == Concat(S1, S2) \cup Blocks(S1, S0) \cup Blocks(S0, S1)
S4 == Concat(S1, S3) \cup Blocks(S2, S0) \cup Blocks(S1, S1) \cup Blocks(S0, S2)
UpTo3 == S0 \cup S1 \cup S2 \cup S3
UpTo4 == UpTo3 \cup S4

\* Both parts of if with an else, and of while with a step, with one token each.
TwoParts ==
  Concat({<<Token("if", NoRef, NoRef, FALSE)>>},
         Concat(Concat(S1, {<<Plain("else")>>}), Concat(S1, {<<Plain("end")>>})))
    \cup
  Concat({<<Token("while", NoRef, NoRef, FALSE)>>},
         Concat(S1, {<<Token("step", lhs, NoRef, FALSE), Plain("end")>> : lhs \in {Local, At}}))

Fn(params, bodies) ==
  Concat({<<Plain("fn")>> \o params}, Concat(bodies, {<<Plain("end")>>}))
\* Two names next to each other.
TwoNames ==
  One({Token("var", Local, NoRef, TRUE), Token("var", Other, NoRef, TRUE),
       Token("set", Other, Local, FALSE), Token("use", NoRef, Other, FALSE)})
OfTwoNames == Concat(TwoNames, Concat(TwoNames, TwoNames))

\* Two loops behind each other.
Loops == Concat({<<Token("for", Other, NoRef, FALSE)>>}, Concat(S1, {<<Plain("end")>>}))
TwoLoops == Concat(Loops, Loops)

Param == <<Token("param", Local, NoRef, TRUE)>>
GlobalVar == <<Token("var", Local, NoRef, TRUE)>>

AllPrograms ==
  (UpTo3 \cup Concat({GlobalVar}, S3 \cup Fn(<< >>, UpTo3))
     \cup Fn(<< >>, UpTo4) \cup Fn(Param, UpTo3)
     \cup Concat(Fn(<< >>, S1), S1)
     \cup Concat(Fn(<< >>, S1), Fn(<< >>, S1) \cup Fn(Param, S1))
     \cup Concat(Blocks(S1, S0), Fn(<< >>, S1) \cup Concat({GlobalVar}, S1))
     \cup Concat(Blocks(S0, {GlobalVar}), Blocks(S0, S0))
     \cup Fn(<< >>, OfTwoNames \cup TwoLoops) \cup OfTwoNames \cup TwoLoops
     \cup Concat(S0 \cup S1, TwoParts) \cup Fn(<< >>, Concat(S0 \cup S1, TwoParts))) \ {<< >>}

\* What a cfg puts in the place of a constant is evaluated at every use, a definition
\* it refers to only once.
MCPrograms == AllPrograms

=============================================================================
