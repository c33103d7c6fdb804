---------------------------- MODULE FunctionPromise ----------------------------
(***************************************************************************)
(* What a function definition promises: it is rejected for a reason, or it *)
(* runs as its text says, and a function with a result ends at one of its  *)
(* return statements.  What the compiler is known to misjudge is listed.   *)
(***************************************************************************)
EXTENDS FunctionBodies

VARIABLES
  prog,
  stage,   \* "text", "rejected", "crashed", "broken", "running" or "returned"
  at       \* where control is; in the end, where the function returned

vars == <<prog, stage, at>>

P == prog.body

-----------------------------------------------------------------------------
(* What is misjudged *)

OutsideLoops(p) == P[p].k = "if" /\ Loop(P, p) = 0

\* if is judged by the first letter of its condition: t is taken for true, and for a
\* return; f for false.
TrustsLetter == \E p \in Positions(P) : OutsideLoops(p) /\ P[p].cond \in {"true", "t...", "f..."}

\* An if with an else where something counts as a return, but control may run through a
\* branch, is taken for one that never lets control through.
CountsAsReturn(p) == P[p].k = "ret" \/ (OutsideLoops(p) /\ P[p].cond \in {"true", "t..."})
OneArmed ==
  \E p \in Positions(P) :
    /\ OutsideLoops(p) /\ Else(P, p) # 0
    /\ \E q \in Positions(P) : CountsAsReturn(q) /\ Within(P, q, p)
    /\ \E q \in Reached(P) :
         (q = p \/ Within(P, q, p)) /\ Here(P, End(P, p)) \in Successors(P, q)

\* The first letter of an operation is none: a small number is read as an address.
NoLetter == \E p \in Positions(P) : OutsideLoops(p) /\ P[p].cond = "operation"

\* The returns of an undeclared function are not compared with one another.
MixedReturns ==
  /\ Undeclared(prog)
  /\ \A p \in Returns(P) : P[p].value # NoValue

\* What is returned is not converted.
OtherWidth ==
  \E p \in Returns(P) :
    ir_type(Typed(P[p].value, prog.ret)) # ir_type(ResultType(prog))

\* The return behind the last statement is an integer's, reached or not.
NoInteger ==
  /\ IrKind(ir_type(ResultType(prog))) \notin {"integer", "void"}
  /\ P # << >> => P[Len(P)].k # "ret"

-----------------------------------------------------------------------------
(* The promise *)

\* prog is any function.
Init == stage = "text" /\ at = 0

Reject == stage' = "rejected" /\ (~Acceptable(prog) \/ OneArmed) /\ UNCHANGED at
Crash == stage' = "crashed" /\ NoLetter /\ UNCHANGED at
Break == stage' = "broken" /\ (OtherWidth \/ NoInteger) /\ UNCHANGED at

Start ==
  /\ stage' = "running"
  /\ JumpsInLoops(P)
  /\ RightReturns(prog) \/ MixedReturns
  /\ AlwaysReturns(prog) \/ TrustsLetter
  /\ at' = Here(P, 1)

Decide ==
  /\ at # Bottom(P) /\ P[at].k \in {"if", "while"}
  /\ at' \in Branches(P, at)
  /\ UNCHANGED stage

Do == at # Bottom(P) /\ P[at].k = "do" /\ at' = Here(P, at + 1) /\ UNCHANGED stage

Return == at # Bottom(P) /\ P[at].k = "ret" /\ stage' = "returned" /\ UNCHANGED at

\* A function with a result does not, but for the misjudged.
FallOff ==
  /\ at = Bottom(P)
  /\ HasResult(prog) => TrustsLetter
  /\ stage' = "returned"
  /\ UNCHANGED at

Next ==
  /\ \/ stage = "text" /\ (Reject \/ Crash \/ Break \/ Start)
     \/ stage = "running" /\ (Decide \/ Do \/ Return \/ FallOff)
  /\ UNCHANGED prog

Spec == Init /\ [][Next]_vars

=============================================================================
