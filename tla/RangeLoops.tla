------------------------------ MODULE RangeLoops ------------------------------
(***************************************************************************)
(* The loops of the language, as the parser hands them on, and what their  *)
(* headers say: which values the iterator takes.                           *)
(***************************************************************************)
EXTENDS Integers, Sequences

CONSTANTS
  Nests,      \* the loop nests to compile: sequences of loops, outermost first
  MaxDepth,
  Names,      \* names of iterators
  NoStep,     \* no step is written
  NaN,        \* the floating-point value that is no number
  WordMax     \* the largest value of a 64-bit word

ExitKinds == {"break", "continue", "return"}
Levels == 1 .. MaxDepth
Value == Int \cup {NaN}

\* A numeric type: its kind and, for integers, its limits ("float": F32 and F64, and
\* their unsigned variants).
Types == [kind : {"int", "uint", "u128", "float"}, min : Int, max : Int]

\* var iterates over start .. end, or start ..= end with inclusive, by step;
\* literal: both bounds are literals.  A list is iterated by index from 0, the
\* start, up to its size, the end.  A while loop tests var < end, or var <= end,
\* and has the step as its ": (var += step)"; var is set to start before it.
Loops == [kind : {"range", "list", "while"}, var : Names, type : Types,
          start : Int, end : Int, step : Int \cup {NoStep},
          inclusive : BOOLEAN, literal : BOOLEAN, exits : SUBSET ExitKinds]

\* What the grammar and the type checker leave: a list has no step and counts
\* I64, a while loop has its step.
WellFormed(l) ==
  /\ l.type.min <= l.start /\ l.start <= l.type.max
  /\ l.type.min <= l.end /\ l.end <= l.type.max
  /\ l.kind = "list" =>
       /\ l.step = NoStep /\ ~l.inclusive /\ l.start = 0 /\ l.end >= 0
       /\ l.type.kind = "int"
  /\ l.kind = "while" => l.step # NoStep

ASSUME LoopConstants ==
  /\ MaxDepth \in Nat \ {0}
  /\ NoStep \notin Int /\ NaN \notin Int
  /\ WordMax \in Nat
  /\ \A nest \in Nests :
       /\ nest \in Seq(Loops) /\ Len(nest) \in Levels
       /\ \A d \in 1 .. Len(nest) : WellFormed(nest[d])

-----------------------------------------------------------------------------
(* The values a loop visits *)

\* "Default the step value: 1 for ascending, -1 for descending"
\* (HIRGen/handle_loops.cpp:36); only a range can go down.
Descending(l) == l.kind = "range" /\ l.start > l.end
Step(l) == IF l.step # NoStep THEN l.step ELSE IF Descending(l) THEN -1 ELSE 1

\* "Exclusive range (0..10): use < or >. Inclusive range (0..=10): use <= or >="
\* (HIRGen/handle_loops.cpp:70).
InRange(l, v) ==
  IF Descending(l) THEN v > l.end \/ (l.inclusive /\ v = l.end)
                   ELSE v < l.end \/ (l.inclusive /\ v = l.end)

Member(l, k) == l.start + k * Step(l)

=============================================================================
