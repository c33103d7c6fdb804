------------------------------ MODULE MCLoopNest ------------------------------
(* Instances of LoopNest for TLC: a word of four bits. *)
EXTENDS LoopNest

CONSTANTS i, j

MCWordMax == 15
I32 == [kind |-> "int", min |-> -4, max |-> 3]
U32 == [kind |-> "uint", min |-> 0, max |-> 7]
U64 == [kind |-> "uint", min |-> 0, max |-> 15]
U128 == [kind |-> "u128", min |-> 0, max |-> 31]

Loop(kind, x, t, from, to, by, incl, lit, exits) ==
  [kind |-> kind, var |-> x, type |-> t, start |-> from, end |-> to, step |-> by,
   inclusive |-> incl, literal |-> lit, exits |-> exits]

\* Ranges over a set of bounds, by every step; lists up to three elements.
Ranges(x, t, bounds, exits) ==
  {Loop("range", x, t, from, to, by, incl, lit, exits) :
     from \in bounds, to \in bounds, by \in {NoStep, -3, -1, 0, 1, 2},
     incl \in BOOLEAN, lit \in BOOLEAN}
Lists(x, exits) ==
  {Loop("list", x, I32, 0, size, NoStep, FALSE, FALSE, exits) : size \in 0 .. 3}
Whiles(x, t, bounds, exits) ==
  {Loop("while", x, t, from, to, by, incl, FALSE, exits) :
     from \in bounds, to \in bounds, by \in {1, 2}, incl \in BOOLEAN}

Leave == {"break", "return"}
\* Some ranges of each kind, for nests.
Few(x) ==
  {l \in Ranges(x, I32, -2 .. 2, Leave) : l.start \in {-1, 0, 2} /\ l.end \in {-2, 0, 1}}
    \cup {l \in Lists(x, Leave) : l.end \in {0, 2}}
    \cup {l \in Whiles(x, U32, 4 .. 7, ExitKinds) : l.start = 4 /\ l.end = 6}
    \cup {l \in Whiles(x, I32, -4 .. 3, ExitKinds) : l.start = 0 /\ l.end \in {-1, 2}}

\* Literals are not negative: a minus sign is an operator.
SoundOnly(S) == {l \in S : Sound(l) /\ (l.literal => l.start >= 0 /\ l.end >= 0)}

Lone ==
  {<<l>> : l \in SoundOnly(Ranges(i, I32, -4 .. 3, Leave) \cup Ranges(i, U32, 0 .. 7, Leave)
                              \cup Ranges(i, U64, {0, 1, 7, 8, 14, 15}, Leave)
                              \cup Whiles(i, I32, -4 .. 3, ExitKinds)
                              \cup Whiles(i, U32, 0 .. 7, ExitKinds)
                              \cup Whiles(i, U64, {0, 1, 6, 7, 8, 13, 14, 15}, ExitKinds)
                              \cup Whiles(i, U128, {0, 14, 15, 16, 17, 30}, ExitKinds)
                              \cup Lists(i, Leave))}
Pairs == {<<l, m>> : l \in SoundOnly(Few(i)), m \in SoundOnly(Few(j))}
SoundNests == Lone \cup Pairs

\* One loop that is continued.
ContinueNests ==
  {<<Loop("range", i, I32, 0, 2, NoStep, FALSE, TRUE, {"continue"})>>}

=============================================================================
