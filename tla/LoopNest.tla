------------------------------- MODULE LoopNest -------------------------------
(***************************************************************************)
(* A nest of loops as it is compiled and runs: HIRGen turns every loop     *)
(* into `iterator = start; while (condition) { body; iterator += step }',  *)
(* codegen turns that into the blocks while.cond, while.body, while.expr   *)
(* and while.end, and gives variables their allocas.  Every action is what *)
(* runs between two branches of the generated code.                        *)
(*                                                                         *)
(* An alloca is looked up by name through all enclosing scopes before a    *)
(* new one is made, also for a declaration, so that var has one value for  *)
(* each name and not for each loop.  The hidden index of a list loop is    *)
(* numbered, one for each loop.                                            *)
(***************************************************************************)
EXTENDS RangeLoops

VARIABLES
  nest,    \* the loops; never changes
  expr,    \* expr[d]: what the member while_loop.expr of loop d's node holds
  block,   \* where control is, or how the program ended
  level,   \* in which loop
  var,     \* the allocas of iterators, by name
  idx,     \* the hidden indices of list loops, one for each loop
  k,       \* history: completed rounds of each loop
  seen     \* history: the iterators, as the body that runs sees them

vars == <<nest, expr, block, level, var, idx, k, seen>>

Blocks == {"HIRGen", "entry", "while.cond", "while.body", "while.end", "while.expr",
           "done", "returned", "crashed"}
Ended == {"done", "returned", "crashed"}
Depth == Len(nest)

TypeOK ==
  /\ nest \in Nests
  /\ expr \in [Levels -> {"null", "step", "unset"}]
  /\ block \in Blocks
  /\ level \in 1 .. Depth
  /\ var \in [Names -> Value]
  /\ idx \in [Levels -> Value]
  /\ k \in [Levels -> Nat]
  /\ seen \in Seq(Value)

-----------------------------------------------------------------------------
(* Arithmetic of the generated code *)

Wrap(v, t) ==
  IF t.kind = "float" THEN v ELSE t.min + ((v - t.min) % (t.max - t.min + 1))

Plus(v, s, t) == IF v = NaN \/ s = NaN THEN NaN ELSE Wrap(v + s, t)

\* val.i64 of a literal: the low word, as a signed number.
i64(v, t) ==
  LET w == v % (WordMax + 1) IN
  IF t.kind = "float" THEN v
  ELSE IF w > WordMax \div 2 THEN w - (WordMax + 1) ELSE w

\* Only literal bounds are compared.
is_descending(l) ==
  l.kind = "range" /\ l.literal /\ i64(l.start, l.type) > i64(l.end, l.type)

\* The default step is written to val.i64 and read with the iterator's type.  As a
\* floating-point number 1 is so small that it is absorbed, and -1 is no number; as
\* a U128 literal -1 keeps its low word only.
step_val(l) ==
  IF l.step # NoStep THEN l.step
  ELSE CASE l.type.kind = "float" /\ is_descending(l) -> NaN
         [] l.type.kind = "float" /\ ~is_descending(l) -> 0
         [] l.type.kind = "u128" /\ is_descending(l) -> WordMax
         [] OTHER -> IF is_descending(l) THEN -1 ELSE 1

\* What a comparison takes a value for.  HIRGen gives the comparison of a range or
\* list loop the iterator's type, so it is signed or unsigned as that is; the one
\* that a user writes in a while has the type BOOL (binop_handler.cpp:55), and
\* emit_binop compares the operands as signed numbers.
Unsigned == {"uint", "u128"}
UpperHalf(v, t) == 2 * v > t.max
compared(l, v) ==
  IF l.kind = "while" /\ l.type.kind \in Unsigned /\ UpperHalf(v, l.type)
  THEN v - (l.type.max + 1) ELSE v

\* Comparisons with NaN are false.
condition(l, v) ==
  /\ v # NaN
  /\ LET a == compared(l, v)
         b == compared(l, l.end)
     IN IF is_descending(l) THEN a > b \/ (l.inclusive /\ a = b)
                            ELSE a < b \/ (l.inclusive /\ a = b)

-----------------------------------------------------------------------------
(* Variables *)

IsList(d) == nest[d].kind = "list"
Counter(d) == IF IsList(d) THEN idx[d] ELSE var[nest[d].var]
SetCounter(d, v) ==
  IF IsList(d) THEN idx' = [idx EXCEPT ![d] = v] /\ UNCHANGED var
  ELSE var' = [var EXCEPT ![nest[d].var] = v] /\ UNCHANGED idx

\* What the body of loop d reads when it names the iterators around it.
Iterators(d, allocas) == [e \in 1 .. d |-> allocas[nest[e].var]]

Init ==
  /\ nest \in Nests
  /\ expr = [d \in Levels |-> "unset"]
  /\ block = "HIRGen"
  /\ level = 1
  /\ var = [x \in Names |-> 0]
  /\ idx = [d \in Levels |-> 0]
  /\ k = [d \in Levels |-> 0]
  /\ seen = << >>

-----------------------------------------------------------------------------
(* Compilation *)

\* emit_MAST_while_loop sets while_loop.expr.  The functions for range and list
\* loops leave it unset, and HIRNode's constructor does not clear the union: it is
\* null if the memory is fresh, and otherwise an address that emit_whileloop
\* follows.
compile ==
  /\ block = "HIRGen"
  /\ expr' \in [Levels -> {"null", "step", "unset"}]
  /\ \A d \in Levels :
       IF d \in 1 .. Depth /\ nest[d].kind = "while" THEN expr'[d] = "step"
       ELSE IF d \in 1 .. Depth THEN expr'[d] \in {"null", "unset"}
       ELSE expr'[d] = "null"
  /\ block' = IF \E d \in Levels : expr'[d] = "unset" THEN "crashed" ELSE "entry"
  /\ UNCHANGED <<nest, level, var, idx, k, seen>>

-----------------------------------------------------------------------------
(* The generated code *)

\* In front of the loop: the iterator's declaration, or the hidden index's and the
\* element's.
entry ==
  /\ block = "entry"
  /\ IF IsList(level)
     THEN /\ var' = [var EXCEPT ![nest[level].var] = 0]
          /\ idx' = [idx EXCEPT ![level] = 0]
     ELSE SetCounter(level, nest[level].start)
  /\ block' = "while.cond"
  /\ UNCHANGED <<nest, expr, level, k, seen>>

\* A list loop's body begins with j = arr[idx]; element x of every list is x.
while_cond ==
  /\ block = "while.cond"
  /\ condition(nest[level], Counter(level))
  /\ block' = "while.body"
  /\ var' = IF IsList(level) THEN [var EXCEPT ![nest[level].var] = idx[level]] ELSE var
  /\ seen' = Iterators(level, var')
  /\ UNCHANGED <<nest, expr, level, idx, k>>

\* Mutant: there always is a body around the loop.
while_end_no_outermost ==
  /\ block' = "while.end"
  /\ level' = level - 1
  /\ seen' = Iterators(level - 1, var)

\* Control leaves loop `level' and goes on behind it, in the body around it.
while_end ==
  IF level = 1 THEN block' = "done" /\ UNCHANGED <<level, seen>>
  ELSE /\ block' = "while.end"
       /\ level' = level - 1
       /\ seen' = Iterators(level - 1, var)

while_cond_false ==
  /\ block = "while.cond"
  /\ ~condition(nest[level], Counter(level))
  /\ while_end
  /\ UNCHANGED <<nest, expr, var, idx, k>>

\* The body gets to the loop inside it.
inner_loop ==
  /\ block = "while.body" /\ level < Depth
  /\ block' = "entry"
  /\ level' = level + 1
  /\ k' = [k EXCEPT ![level + 1] = 0]
  /\ UNCHANGED <<nest, expr, var, idx, seen>>

\* The end of the body, where a range or list loop has its step.
BodyEnds == block = "while.end" \/ (block = "while.body" /\ level = Depth)

\* Mutant: the step is forgotten.
body_end_no_step ==
  /\ BodyEnds
  /\ block' = "while.expr"
  /\ UNCHANGED <<nest, expr, level, var, idx, k, seen>>

body_end ==
  /\ BodyEnds
  /\ IF nest[level].kind = "while" THEN UNCHANGED <<var, idx>>
     ELSE SetCounter(level, Plus(Counter(level), step_val(nest[level]), nest[level].type))
  /\ k' = [k EXCEPT ![level] = @ + 1]
  /\ block' = "while.expr"
  /\ UNCHANGED <<nest, expr, level, seen>>

InBody == block \in {"while.body", "while.end"}

\* continue branches to while.expr of the innermost loop.
continue ==
  /\ InBody /\ "continue" \in nest[level].exits
  /\ k' = [k EXCEPT ![level] = @ + 1]
  /\ block' = "while.expr"
  /\ UNCHANGED <<nest, expr, level, var, idx, seen>>

\* Mutant: loopStack is not popped, break leaves the outermost loop.
break_outermost ==
  /\ InBody /\ "break" \in nest[level].exits
  /\ block' = "done"
  /\ UNCHANGED <<nest, expr, level, var, idx, k, seen>>

\* break branches to the block behind the innermost loop.
break ==
  /\ InBody /\ "break" \in nest[level].exits
  /\ while_end
  /\ UNCHANGED <<nest, expr, var, idx, k>>

ret ==
  /\ InBody /\ "return" \in nest[level].exits
  /\ block' = "returned"
  /\ UNCHANGED <<nest, expr, level, var, idx, k, seen>>

\* The expression of `while (...) : (...)'.
while_expr ==
  /\ block = "while.expr"
  /\ IF expr[level] = "step"
     THEN SetCounter(level, Plus(Counter(level), step_val(nest[level]), nest[level].type))
     ELSE UNCHANGED <<var, idx>>
  /\ block' = "while.cond"
  /\ UNCHANGED <<nest, expr, level, k, seen>>

Run ==
  \/ compile \/ entry \/ while_cond \/ while_cond_false \/ inner_loop \/ body_end
  \/ continue \/ break \/ ret \/ while_expr

Finished == block \in Ended /\ UNCHANGED vars

Next == Run \/ Finished

Spec == Init /\ [][Next]_vars
\* The compiler and the program are single processes that do not wait.
FairSpec == Spec /\ WF_vars(Run)

-----------------------------------------------------------------------------
(* Which loops are compiled to what they say *)

Fits(v, t) == t.min <= v /\ v <= t.max

\* The values a loop without a break tests: the start, and the ones a step behind a
\* member.
Tested(l, v) ==
  v = l.start \/ (v - Step(l) >= l.start /\ InRange(l, v - Step(l)))

\* A while over an unsigned type stays in that half of the type where its end is.
InHalf(l) ==
  l.kind = "while" /\ l.type.kind \in Unsigned =>
    \A v \in l.type.min .. l.type.max :
      Tested(l, v) => (UpperHalf(v, l.type) <=> UpperHalf(l.end, l.type))

\* The lowering sees the direction and the step that are written; no step, not even
\* the one after the last member, leaves the type; the step leads towards the end;
\* a while over an unsigned type makes no comparison across the halves of the type;
\* and no range or list loop is continued.
Sound(l) ==
  /\ l.type.kind # "float"
  /\ is_descending(l) = Descending(l)
  /\ step_val(l) = Step(l)
  /\ \A v \in l.type.min .. l.type.max : InRange(l, v) => Fits(v + Step(l), l.type)
  /\ IF Descending(l) THEN Step(l) < 0 ELSE Step(l) > 0
  /\ InHalf(l)
  /\ "continue" \in l.exits => l.kind = "while"

\* No iterator has the name of one around it.
SoundNest(n) ==
  /\ \A d \in 1 .. Len(n) : Sound(n[d])
  /\ \A d, e \in 1 .. Len(n) : d # e => n[d].var # n[e].var

-----------------------------------------------------------------------------
(* Properties *)

at ==
  CASE block = "while.body" -> "body" [] block = "while.end" -> "post"
    [] block \in {"done", "returned"} -> block [] OTHER -> "test"
F == INSTANCE ForNest WITH nest <- nest, at <- at, level <- level, k <- k, seen <- seen

\* Sound nests do what ForNest promises: every body runs once for every member of
\* its range, in order, and finds in every iterator around it the member that loop
\* is at, before and after inner loops, however those are left (HIRGen and codegen
\* of loops, break, continue and return).
ImplementsForNest == F!Spec

\* Sound nests come to an end.
Termination == <>(block \in Ended)

(* What a comment of the source says and the code does not do *)

\* codegen/handle_loops.cpp:25, "'continue' calls target exprBB so inline
\* modifications execution runs!": whichever way a round ends, the counter is at the
\* next member when the condition is tested.
CounterKeepsStep ==
  block = "while.cond" => Counter(level) = Member(nest[level], k[level])

-----------------------------------------------------------------------------
(* The inductive invariant behind ImplementsForNest *)

AtMember(d) ==
  Counter(d) = Member(nest[d], k[d]) /\ Fits(Counter(d), nest[d].type)

\* Loop d is in a round: its iterator, the element for a list, is the member.
InRound(d) ==
  AtMember(d) /\ InRange(nest[d], Counter(d)) /\ var[nest[d].var] = Counter(d)

\* A while loop between the end of a round and its step.
Stepping(d) ==
  /\ k[d] > 0
  /\ Counter(d) = Member(nest[d], k[d] - 1)
  /\ Fits(Counter(d), nest[d].type) /\ InRange(nest[d], Counter(d))

\* A while loop tests no value but those that soundness speaks of.
Comparable(d) == nest[d].kind = "while" => Tested(nest[d], Counter(d))

BlockInv ==
  /\ block = "entry" => k[level] = 0
  /\ block = "while.cond" => AtMember(level) /\ Comparable(level)
  /\ InBody => InRound(level)
  /\ block = "while.expr" =>
       IF nest[level].kind = "while" THEN Stepping(level) ELSE AtMember(level)

ExprInv ==
  block \notin {"HIRGen", "crashed"} =>
    \A d \in 1 .. Depth : expr[d] = "step" <=> nest[d].kind = "while"

FirstInv == block = "HIRGen" => level = 1 /\ k[1] = 0

LoopInv ==
  /\ TypeOK /\ BlockInv /\ ExprInv /\ FirstInv
  /\ \A d \in 1 .. level - 1 : InRound(d)

=============================================================================
