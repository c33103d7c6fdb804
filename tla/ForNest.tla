-------------------------------- MODULE ForNest --------------------------------
(***************************************************************************)
(* What a nest of loops promises: each loop runs its body once for every   *)
(* member of its range, in order, whatever the loops inside it do.  Loop   *)
(* d + 1 is part of the body of loop d; the body of the innermost loop,    *)
(* and what stands around an inner loop, may leave the loop.               *)
(***************************************************************************)
EXTENDS RangeLoops

VARIABLES
  nest,
  at,      \* "test": the next member is looked at; "body"; "post": the rest of a
           \* body, after the inner loop; or how the nest ended
  level,   \* the loop that runs
  k,       \* k[d]: members of loop d dealt with since it began
  seen     \* the iterators' values as the body that runs sees them

vars == <<nest, at, level, k, seen>>

Depth == Len(nest)
Members(d) == [e \in 1 .. d |-> Member(nest[e], k[e])]

Init ==
  /\ nest \in Nests
  /\ at = "test"
  /\ level = 1
  /\ k = [d \in Levels |-> 0]
  /\ seen = << >>

\* Loop `level' is over.
Leave ==
  IF level = 1 THEN at' = "done" /\ UNCHANGED <<level, seen>>
  ELSE /\ at' = "post"
       /\ level' = level - 1
       /\ seen' = Members(level - 1)

BodyOver == at = "post" \/ (at = "body" /\ level = Depth)

Begin ==
  /\ at = "test"
  /\ InRange(nest[level], Member(nest[level], k[level]))
  /\ at' = "body"
  /\ seen' = Members(level)
  /\ UNCHANGED <<nest, level, k>>

Finish ==
  /\ at = "test"
  /\ ~InRange(nest[level], Member(nest[level], k[level]))
  /\ Leave
  /\ UNCHANGED <<nest, k>>

Enter ==
  /\ at = "body" /\ level < Depth
  /\ at' = "test"
  /\ level' = level + 1
  /\ k' = [k EXCEPT ![level + 1] = 0]
  /\ UNCHANGED <<nest, seen>>

\* The end of the body, or continue.
NextMember ==
  /\ BodyOver \/ (at = "body" /\ "continue" \in nest[level].exits)
  /\ at' = "test"
  /\ k' = [k EXCEPT ![level] = @ + 1]
  /\ UNCHANGED <<nest, level, seen>>

Break ==
  /\ at \in {"body", "post"} /\ "break" \in nest[level].exits
  /\ Leave
  /\ UNCHANGED <<nest, k>>

Return ==
  /\ at \in {"body", "post"} /\ "return" \in nest[level].exits
  /\ at' = "returned"
  /\ UNCHANGED <<nest, level, k, seen>>

Next == Begin \/ Finish \/ Enter \/ NextMember \/ Break \/ Return

Spec == Init /\ [][Next]_vars

=============================================================================
