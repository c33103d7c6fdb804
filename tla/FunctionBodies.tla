---------------------------- MODULE FunctionBodies ----------------------------
(***************************************************************************)
(* Function bodies reduced to their control flow: what is returned, the    *)
(* conditions, and every other statement as a mark; and what they mean,    *)
(* read off the text: where control goes, and what a function has to       *)
(* return.                                                                 *)
(***************************************************************************)
EXTENDS Nesting, ValueTypes

CONSTANT Functions  \* the functions to compile, as [ret, body]

\* A condition is a literal, an operation, or a variable or call by the first letter
\* of its name.
Literals == {"true", "false"}
Conds == Literals \cup {"t...", "f...", "x...", "operation"}

NoCond == "none"
NoValue == [literal |-> "none", type |-> NoType]

\* "do" is any statement that control runs through.  An else without statements has no
\* node (parser.yy:134).
BodyKinds == {"if", "else", "while", "end", "do", "ret", "break", "continue"}
BodyTokens == [k : BodyKinds, cond : Conds \cup {NoCond}, value : Expressions]

Positions(P) == 1 .. Len(P)
Bottom(P) == Len(P) + 1

\* The else of the if at p, or 0.
Else(P, p) ==
  LET found == {q \in p + 1 .. End(P, p) : P[q].k = "else" /\ Level(P, q) = Level(P, p) + 1} IN
  IF found = {} THEN 0 ELSE CHOOSE q \in found : TRUE

\* No keyword names the type UNKNOWN (parser.yy:142), and a literal has one before it is
\* checked.
ASSUME FunctionConstants ==
  \A F \in Functions :
    LET P == F.body IN
    /\ F.ret \in Types /\ F.ret.base # "UNKNOWN"
    /\ P \in Seq(BodyTokens)
    /\ Level(P, Bottom(P)) = 0
    /\ \A p \in Positions(P) :
         /\ (P[p].k \in {"if", "while"}) = (P[p].cond # NoCond)
         /\ P[p].value # NoValue => P[p].k = "ret" /\ P[p].value.type # NoType
         /\ Opens(P, p) => \E q \in Positions(P) : Closes(P, p, q)
         /\ P[p].k \in {"else", "end"} => Level(P, p) > 0
         /\ P[p].k = "else" => /\ P[p + 1].k \notin {"else", "end"}
                               /\ \E o \in 1 .. p - 1 : P[o].k = "if" /\ Else(P, o) = p

\* The construct whose else or end is at p.
Construct(P, p) ==
  CHOOSE o \in 1 .. p - 1 : Opens(P, o) /\ Level(P, o) + 1 = Level(P, p) /\ p <= End(P, o)

\* The innermost loop around p, or 0.
Loop(P, p) ==
  LET around == {o \in 1 .. p - 1 : P[o].k = "while" /\ Within(P, p, o)} IN
  IF around = {} THEN 0 ELSE CHOOSE o \in around : \A q \in around : q <= o

-----------------------------------------------------------------------------
(* Where control goes *)

\* Where control is when it comes to p: at a statement that does something, or at the
\* bottom.
Here(P, p) ==
  LET at[q \in 1 .. Bottom(P)] ==
        IF q = Bottom(P) THEN q
        ELSE CASE P[q].k = "else" -> at[End(P, Construct(P, q)) + 1]
               [] P[q].k = "end" -> IF P[Construct(P, q)].k = "while" THEN Construct(P, q) ELSE at[q + 1]
               [] P[q].k = "break" /\ Loop(P, q) # 0 -> at[End(P, Loop(P, q)) + 1]
               [] P[q].k = "continue" /\ Loop(P, q) # 0 -> Loop(P, q)
               [] OTHER -> q
  IN at[p]

IfTrue(P, p) == Here(P, p + 1)
IfFalse(P, p) ==
  Here(P, IF P[p].k = "if" /\ Else(P, p) # 0 THEN Else(P, p) + 1 ELSE End(P, p) + 1)

Branches(P, p) ==
  CASE P[p].cond = "true" -> {IfTrue(P, p)}
    [] P[p].cond = "false" -> {IfFalse(P, p)}
    [] OTHER -> {IfTrue(P, p), IfFalse(P, p)}

\* What may come next, if every loop may end.
Successors(P, p) ==
  CASE p = Bottom(P) \/ P[p].k = "ret" -> {}
    [] p # Bottom(P) /\ P[p].k = "if" -> Branches(P, p)
    [] p # Bottom(P) /\ P[p].k = "while" -> {IfTrue(P, p), IfFalse(P, p)}
    [] OTHER -> {Here(P, p + 1)}

Reached(P) ==
  LET within[n \in 0 .. Len(P) + 1] ==
        IF n = 0 THEN {Here(P, 1)}
        ELSE within[n - 1] \cup UNION {Successors(P, p) : p \in within[n - 1]}
  IN within[Len(P) + 1]

FallsOff(P) == Bottom(P) \in Reached(P)

-----------------------------------------------------------------------------
(* What a function has to return *)

Returns(P) == {p \in Positions(P) : P[p].k = "ret"}
Undeclared(F) == F.ret = NoType
FirstReturn(F) == CHOOSE p \in Returns(F.body) : \A q \in Returns(F.body) : p <= q

\* The type of the result: as declared, or that of what is returned first.
Typed(e, want) == check_expr(e, e.type, want)
ResultType(F) ==
  CASE ~Undeclared(F) -> F.ret
    [] Undeclared(F) /\ Returns(F.body) = {} -> Scalar("VOID")
    [] OTHER -> Typed(F.body[FirstReturn(F)].value, NoType)

HasResult(F) == ResultType(F).base # "VOID"

JumpsInLoops(P) == \A p \in Positions(P) : P[p].k \in {"break", "continue"} => Loop(P, p) # 0

\* What is returned has the type of the result, if there is a result.
RightReturn(F, p) ==
  LET v == F.body[p].value IN
  IF HasResult(F) THEN v # NoValue /\ types_are_equal(Typed(v, ResultType(F)), ResultType(F))
  ELSE v = NoValue
RightReturns(F) == \A p \in Returns(F.body) : RightReturn(F, p)

\* Where there is a result, the bottom is not reached.
AlwaysReturns(F) == HasResult(F) => ~FallsOff(F.body)

Acceptable(F) == JumpsInLoops(F.body) /\ RightReturns(F) /\ AlwaysReturns(F)

=============================================================================
