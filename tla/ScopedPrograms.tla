---------------------------- MODULE ScopedPrograms ----------------------------
(***************************************************************************)
(* Programs reduced to their names: declarations, reads, assignments and   *)
(* the constructs around them, as the sequence of tokens the recursive     *)
(* walks over the tree meet them in, and the language's scope rules, which *)
(* are read off the tree without walking it.                               *)
(*                                                                         *)
(* A block `{ ... }` has no node of its own (parser.yy:152) and no scope.  *)
(* Functions are defined at the top level only (fn.ly).                    *)
(***************************************************************************)
EXTENDS Nesting

CONSTANTS
  Names,
  NoRef,      \* no name in this place: a literal
  Programs,   \* the programs to compile
  MaxLen      \* bound on their length

\* A name as it is written: x, or @x with isglobal (new_var).
Refs == [name : Names, isglobal : BOOLEAN]

Kinds == Openers \cup {"param", "var", "set", "step", "use", "break", "ret", "else", "end"}

\* lhs is what is declared or assigned; rhs is what is read: the value, the
\* condition of if and while, the list of for; what a return statement reads is a
\* "use" in front of it.  "param" follows "fn"; "step" is the assignment in
\* `while (...) : (...)`, in front of the loop's "end".
Tokens == [k : Kinds, lhs : Refs \cup {NoRef}, rhs : Refs \cup {NoRef}, mut : BOOLEAN]

Positions == 1 .. MaxLen

-----------------------------------------------------------------------------
(* Structure *)

TopLevel(P, p) == Level(P, p) = 0

\* The function p is in, or 0.
Function(P, p) ==
  LET around == {o \in DOMAIN P : P[o].k = "fn" /\ Within(P, p, o)} IN
  IF around = {} THEN 0 ELSE CHOOSE o \in around : TRUE

ASSUME ProgramConstants ==
  /\ NoRef \notin Refs
  /\ MaxLen \in Nat \ {0}
  /\ \A P \in Programs :
       /\ P \in Seq(Tokens) /\ Len(P) \in Positions
       /\ Level(P, Len(P) + 1) = 0
       /\ \A p \in DOMAIN P :
            /\ P[p].k \in {"var", "for", "param", "set", "step"} => P[p].lhs # NoRef
            /\ P[p].rhs # NoRef => P[p].k \in {"var", "set", "step", "use", "if", "while", "for"}
            /\ P[p].k = "fn" => TopLevel(P, p)
            /\ P[p].k = "end" => ~TopLevel(P, p)
            /\ P[p].k = "param" => p > 1 /\ P[p - 1].k \in {"fn", "param"}
            /\ Opens(P, p) => \E q \in DOMAIN P : Closes(P, p, q)

-----------------------------------------------------------------------------
(* Scope rules *)

Declares(P, d, x) == P[d].k \in {"var", "for", "param"} /\ P[d].lhs.name = x
IsGlobal(P, d) == P[d].k = "var" /\ TopLevel(P, d)

\* A declaration without mut is not assigned; parameters can be.
Mutable(P, d) == P[d].k = "param" \/ P[d].mut

\* The function or for loop whose scope d belongs to; 0 is the file's.
ScopeOf(P, d) ==
  LET around == {o \in DOMAIN P : P[o].k \in {"fn", "for"} /\ Within(P, d, o)} IN
  IF P[d].k = "for" THEN d
  ELSE IF around = {} THEN 0 ELSE CHOOSE o \in around : \A q \in around : q <= o

\* p is in the scope of the local declaration d, behind it.
InScope(P, p, d) == d < p /\ (ScopeOf(P, d) = 0 \/ Within(P, p, ScopeOf(P, d)))

Locals(P, p, x) ==
  {d \in DOMAIN P : Declares(P, d, x) /\ ~IsGlobal(P, d) /\ InScope(P, p, d)}
Globals(P, x) == {d \in DOMAIN P : Declares(P, d, x) /\ IsGlobal(P, d)}
Redeclared(P, d, x) == \E e \in Locals(P, d, x) : ScopeOf(P, e) = ScopeOf(P, d)

\* @x is the first global variable of that name, x the local variable declared last.
First(S) == IF S = {} THEN 0 ELSE CHOOSE d \in S : \A e \in S : d <= e
Last(S) == IF S = {} THEN 0 ELSE CHOOSE d \in S : \A e \in S : e <= d

\* The value of a global variable is checked when it is registered: it can use
\* the globals in front of it.
Read(P, p, ref) ==
  IF ref.isglobal
    THEN First({d \in Globals(P, ref.name) : IsGlobal(P, p) => d < p})
    ELSE IF IsGlobal(P, p) THEN 0 ELSE Last(Locals(P, p, ref.name))

\* In an assignment, x is also the global variable.
Assigned(P, p, ref) ==
  IF ~ref.isglobal /\ Locals(P, p, ref.name) # {} THEN Last(Locals(P, p, ref.name))
  ELSE First(Globals(P, ref.name))

WellScoped(P) ==
  \A p \in DOMAIN P :
    /\ P[p].rhs # NoRef => Read(P, p, P[p].rhs) # 0
    /\ P[p].k \in {"set", "step"} =>
         /\ Assigned(P, p, P[p].lhs) # 0
         /\ Mutable(P, Assigned(P, p, P[p].lhs))
         \* "'@' symbol is not allowed in local scopes" (error_msg.cpp:71)
         /\ P[p].lhs.isglobal => Function(P, p) = 0
    /\ P[p].k \in {"var", "param"} /\ ~IsGlobal(P, p) => ~Redeclared(P, p, P[p].lhs.name)
    /\ P[p].k = "break" => \E o \in DOMAIN P : P[o].k \in {"for", "while"} /\ Within(P, p, o)
    /\ P[p].k = "ret" => Function(P, p) # 0

=============================================================================
