-------------------------------- MODULE Nesting --------------------------------
(***************************************************************************)
(* Programs as the sequence of tokens the recursive walks over the tree    *)
(* meet them in: a construct is a token that opens it, its parts, and an   *)
(* "end".  A position stands for what begins there.                        *)
(***************************************************************************)
EXTENDS Integers, Sequences, FiniteSets

Openers == {"fn", "for", "while", "if"}
Opens(P, p) == P[p].k \in Openers

\* How many constructs are open in front of p.
Level(P, p) ==
  Cardinality({q \in 1 .. p - 1 : Opens(P, q)})
    - Cardinality({q \in 1 .. p - 1 : P[q].k = "end"})

Closes(P, p, q) ==
  /\ q > p /\ P[q].k = "end" /\ Level(P, q) = Level(P, p) + 1
  /\ \A r \in p + 1 .. q - 1 : Level(P, r) > Level(P, p)

End(P, p) == CHOOSE q \in DOMAIN P : Closes(P, p, q)
Within(P, p, o) == Opens(P, o) /\ o < p /\ p < End(P, o)

\* The position behind the statement at p.
Behind(P, p) == IF Opens(P, p) THEN End(P, p) + 1 ELSE p + 1

=============================================================================
