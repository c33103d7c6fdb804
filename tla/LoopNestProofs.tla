---------------------------- MODULE LoopNestProofs ----------------------------
(***************************************************************************)
(* Proofs about LoopNest, for every set of nests and every width of words  *)
(* and types: its variables keep their types, and sound nests implement    *)
(* ForNest.                                                                *)
(***************************************************************************)
EXTENDS LoopNest, TLAPS, SequenceTheorems

-----------------------------------------------------------------------------
(* Loops and their members *)

LEMMA LoopType ==
  ASSUME NEW l \in Loops
  PROVE  /\ l.start \in Int /\ l.end \in Int /\ l.var \in Names
         /\ l.type.min \in Int /\ l.type.max \in Int
         /\ l.step # NoStep => l.step \in Int
         /\ Step(l) \in Int
  BY DEF Loops, Types, Step

LEMMA MemberType ==
  ASSUME NEW l \in Loops, NEW n \in Nat
  PROVE  Member(l, n) \in Int
<1>1. l.start \in Int /\ Step(l) \in Int
  BY LoopType
<1> QED
  BY <1>1 DEF Member

LEMMA FirstMember ==
  ASSUME NEW l \in Loops
  PROVE  Member(l, 0) = l.start
<1>1. l.start \in Int /\ Step(l) \in Int
  BY LoopType
<1> QED
  BY <1>1 DEF Member

LEMMA NextMember ==
  ASSUME NEW l \in Loops, NEW n \in Nat
  PROVE  Member(l, n + 1) = Member(l, n) + Step(l)
<1>1. l.start \in Int /\ Step(l) \in Int
  BY LoopType
<1>2. ASSUME NEW a \in Int, NEW s \in Int
      PROVE  a + (n + 1) * s = (a + n * s) + s
  OBVIOUS
<1> QED
  BY <1>1, <1>2 DEF Member

\* The loops of the nest at hand.
LEMMA NestFacts ==
  ASSUME nest \in Nests
  PROVE  /\ nest \in Seq(Loops) /\ Depth \in Levels /\ Depth \in Nat \ {0}
         /\ \A d \in 1 .. Depth : nest[d] \in Loops /\ WellFormed(nest[d]) /\ d \in Levels
<1>1. nest \in Seq(Loops) /\ Len(nest) \in Levels /\ MaxDepth \in Nat \ {0}
  BY LoopConstants
<1>2. \A d \in 1 .. Len(nest) : WellFormed(nest[d])
  BY LoopConstants
<1> QED
  BY <1>1, <1>2 DEF Depth, Levels

-----------------------------------------------------------------------------
(* Values *)

\* A value within the limits of its type stays as it is.
LEMMA WrapFits ==
  ASSUME NEW v \in Int, NEW l \in Loops, Fits(v, l.type)
  PROVE  Wrap(v, l.type) = v
<1>1. l.type.min \in Int /\ l.type.max \in Int
  BY LoopType
<1>2. ASSUME NEW lo \in Int, NEW hi \in Int, lo <= v, v <= hi
      PROVE  lo + ((v - lo) % (hi - lo + 1)) = v
  <2>1. \A a \in Nat, m \in Nat \ {0} : a < m => a % m = a
    OBVIOUS
  <2> QED
    BY <1>2, <2>1
<1> QED
  BY <1>1, <1>2 DEF Wrap, Fits

LEMMA PlusType ==
  ASSUME NEW v \in Value, NEW s \in Value, NEW l \in Loops, WellFormed(l)
  PROVE  Plus(v, s, l.type) \in Value
<1>1. l.type.min \in Int /\ l.type.max \in Int /\ l.type.min <= l.type.max
  BY LoopType DEF WellFormed
<1>2. ASSUME NEW x \in Int PROVE Wrap(x, l.type) \in Int
  BY <1>1 DEF Wrap
<1> QED
  BY <1>2 DEF Plus, Value

LEMMA StepType ==
  ASSUME NEW l \in Loops
  PROVE  step_val(l) \in Value
<1>1. CASE l.step # NoStep
  BY <1>1, LoopType DEF step_val, Value
<1>2. CASE l.step = NoStep
  <2>1. NaN \in Value /\ 0 \in Value /\ WordMax \in Value /\ -1 \in Value /\ 1 \in Value
    BY LoopConstants DEF Value
  <2> QED
    BY <1>2, <2>1 DEF step_val
<1> QED
  BY <1>1, <1>2

\* For a sound loop the generated addition is the one that is meant.
LEMMA SoundPlus ==
  ASSUME NEW l \in Loops, Sound(l), NEW v \in Int, Fits(v, l.type), InRange(l, v)
  PROVE  /\ Plus(v, step_val(l), l.type) = v + Step(l)
         /\ Fits(v + Step(l), l.type) /\ v + Step(l) \in Int
<1>1. Step(l) \in Int /\ l.type.min \in Int /\ l.type.max \in Int
  BY LoopType
<1>2. step_val(l) = Step(l)
  BY DEF Sound
<1>3. Fits(v + Step(l), l.type)
  BY <1>1 DEF Sound, Fits
<1>4. Wrap(v + Step(l), l.type) = v + Step(l)
  BY <1>1, <1>3, WrapFits
<1>5. v # NaN /\ Step(l) # NaN
  BY <1>1, LoopConstants
<1> QED
  BY <1>1, <1>2, <1>3, <1>4, <1>5 DEF Plus

\* ... and so is the condition.
LEMMA SoundCondition ==
  ASSUME NEW l \in Loops, Sound(l), NEW v \in Int, Fits(v, l.type),
         l.kind = "while" => Tested(l, v)
  PROVE  condition(l, v) <=> InRange(l, v)
<1>1. v # NaN /\ is_descending(l) = Descending(l)
  BY LoopConstants DEF Sound
<1>2. l.end \in Int /\ l.type.min \in Int /\ l.type.max \in Int
  BY LoopType
<1>3. \/ compared(l, v) = v /\ compared(l, l.end) = l.end
      \/ /\ compared(l, v) = v - (l.type.max + 1)
         /\ compared(l, l.end) = l.end - (l.type.max + 1)
  <2>1. CASE l.kind = "while" /\ l.type.kind \in Unsigned
    <3>1. v \in l.type.min .. l.type.max
      BY <1>2 DEF Fits
    <3>2. UpperHalf(v, l.type) <=> UpperHalf(l.end, l.type)
      BY <2>1, <3>1 DEF Sound, InHalf
    <3> QED
      BY <3>2 DEF compared
  <2>2. CASE ~(l.kind = "while" /\ l.type.kind \in Unsigned)
    BY <2>2 DEF compared
  <2> QED
    BY <2>1, <2>2
<1> HIDE DEF compared
<1>4. /\ compared(l, v) > compared(l, l.end) <=> v > l.end
      /\ compared(l, v) < compared(l, l.end) <=> v < l.end
      /\ compared(l, v) = compared(l, l.end) <=> v = l.end
  BY <1>2, <1>3
<1> QED
  BY <1>1, <1>4 DEF condition, InRange

\* A while loop tests its start, and after a round the value behind a member.
LEMMA TestedNext ==
  ASSUME NEW l \in Loops, Sound(l), l.kind = "while", NEW n \in Nat,
         InRange(l, Member(l, n))
  PROVE  Tested(l, Member(l, n) + Step(l))
<1>1. l.start \in Int /\ Step(l) \in Int /\ Step(l) > 0 /\ Member(l, n) \in Int
  BY LoopType, MemberType DEF Sound, Descending
<1>2. \A a \in Nat, b \in Nat : a * b \in Nat
  OBVIOUS
<1>3. n * Step(l) \in Nat
  BY <1>1, <1>2
<1>4. Member(l, n) >= l.start
  BY <1>1, <1>3 DEF Member
<1>5. (Member(l, n) + Step(l)) - Step(l) = Member(l, n)
  BY <1>1
<1> QED
  BY <1>4, <1>5 DEF Tested

LEMMA CounterType ==
  ASSUME TypeOK, NEW d \in 1 .. Depth
  PROVE  Counter(d) \in Value /\ nest[d].var \in Names
<1>1. nest[d] \in Loops /\ d \in Levels
  BY NestFacts DEF TypeOK
<1> QED
  BY <1>1, LoopType DEF Counter, TypeOK

LEMMA IteratorsType ==
  ASSUME nest \in Nests, NEW d \in 0 .. Depth, NEW allocas \in [Names -> Value]
  PROVE  Iterators(d, allocas) \in Seq(Value)
<1>1. Depth \in Nat /\ \A e \in 1 .. Depth : nest[e].var \in Names
  BY NestFacts, LoopType
<1>2. Iterators(d, allocas) \in [1 .. d -> Value]
  BY <1>1 DEF Iterators
<1> QED
  BY <1>1, <1>2, SeqDef

-----------------------------------------------------------------------------
(* Types *)

\* Setting a loop's counter keeps the variables' types.
LEMMA SetCounterType ==
  ASSUME TypeOK, NEW d \in 1 .. Depth, NEW v \in Value, SetCounter(d, v)
  PROVE  var' \in [Names -> Value] /\ idx' \in [Levels -> Value]
<1>1. d \in Levels /\ nest[d].var \in Names
  BY NestFacts, CounterType DEF TypeOK
<1> QED
  BY <1>1 DEF SetCounter, TypeOK

LEMMA WhileEndType ==
  ASSUME TypeOK, while_end, nest' = nest, var' = var
  PROVE  block' \in Blocks /\ level' \in 1 .. Depth' /\ seen' \in Seq(Value)
<1>1. Depth \in Nat \ {0} /\ nest \in Nests
  BY NestFacts DEF TypeOK
<1>2. CASE level = 1
  BY <1>2 DEF TypeOK, while_end, Blocks, Depth
<1>3. CASE level # 1
  <2>1. level - 1 \in 1 .. Depth /\ level - 1 \in 0 .. Depth
    BY <1>1, <1>3 DEF TypeOK
  <2>2. Iterators(level - 1, var) \in Seq(Value)
    BY <2>1, IteratorsType DEF TypeOK
  <2> QED
    BY <1>3, <2>1, <2>2 DEF while_end, Blocks, Depth
<1> QED
  BY <1>2, <1>3

LEMMA TypeStep ==
  ASSUME TypeOK, [Next]_vars
  PROVE  TypeOK'
<1>0. /\ nest \in Nests /\ Depth \in Nat \ {0} /\ level \in 1 .. Depth /\ level \in Levels
      /\ nest[level] \in Loops /\ WellFormed(nest[level]) /\ nest[level].var \in Names
  BY NestFacts, LoopType DEF TypeOK
<1>a. Plus(Counter(level), step_val(nest[level]), nest[level].type) \in Value
  BY <1>0, CounterType, StepType, PlusType
<1>b. [k EXCEPT ![level] = @ + 1] \in [Levels -> Nat]
  BY <1>0 DEF TypeOK
<1>1. CASE compile
  BY <1>1 DEF TypeOK, compile, Blocks, Depth
<1>2. CASE entry
  <2>1. nest[level].start \in Value /\ 0 \in Value
    BY <1>0, LoopType DEF Value
  <2>2. var' \in [Names -> Value] /\ idx' \in [Levels -> Value]
    <3>1. CASE IsList(level)
      BY <1>0, <1>2, <2>1, <3>1 DEF TypeOK, entry
    <3>2. CASE ~IsList(level)
      BY <1>0, <1>2, <2>1, <3>2, SetCounterType DEF entry
    <3> QED
      BY <3>1, <3>2
  <2> QED
    BY <1>2, <2>2 DEF TypeOK, entry, Blocks, Depth
<1>3. CASE while_cond
  <2>1. var' \in [Names -> Value]
    BY <1>0, <1>3 DEF TypeOK, while_cond
  <2>2. Iterators(level, var') \in Seq(Value)
    BY <1>0, <2>1, IteratorsType
  <2> QED
    BY <1>3, <2>1, <2>2 DEF TypeOK, while_cond, Blocks, Depth
<1>4. CASE while_cond_false
  BY <1>4, WhileEndType DEF TypeOK, while_cond_false
<1>5. CASE inner_loop
  <2>1. level + 1 \in 1 .. Depth
    BY <1>0, <1>5 DEF inner_loop
  <2>2. k' \in [Levels -> Nat]
    BY <1>5 DEF TypeOK, inner_loop
  <2> QED
    BY <1>5, <2>1, <2>2 DEF TypeOK, inner_loop, Blocks, Depth
<1>6. CASE body_end
  <2>1. var' \in [Names -> Value] /\ idx' \in [Levels -> Value]
    BY <1>0, <1>6, <1>a, SetCounterType DEF TypeOK, body_end
  <2>2. k' \in [Levels -> Nat]
    BY <1>b, <1>6 DEF body_end
  <2> QED
    BY <1>6, <2>1, <2>2 DEF TypeOK, body_end, Blocks, Depth
<1>7. CASE continue
  <2>1. k' \in [Levels -> Nat]
    BY <1>b, <1>7 DEF continue
  <2> QED
    BY <1>7, <2>1 DEF TypeOK, continue, Blocks, Depth
<1>8. CASE break
  BY <1>8, WhileEndType DEF TypeOK, break
<1>9. CASE ret
  BY <1>9 DEF TypeOK, ret, Blocks, Depth
<1>10. CASE while_expr
  <2>1. var' \in [Names -> Value] /\ idx' \in [Levels -> Value]
    BY <1>0, <1>10, <1>a, SetCounterType DEF TypeOK, while_expr
  <2> QED
    BY <1>10, <2>1 DEF TypeOK, while_expr, Blocks, Depth
<1>11. CASE UNCHANGED vars
  BY <1>11 DEF TypeOK, vars, Depth
<1> QED
  BY <1>1, <1>2, <1>3, <1>4, <1>5, <1>6, <1>7, <1>8, <1>9, <1>10, <1>11
     DEF Next, Run, Finished

\* Whatever the loops and however they are left, the program's variables and the
\* node's member keep their types (HIRGen and codegen of loops).
THEOREM LoopTypes == Spec => []TypeOK
<1>1. Init => TypeOK
  <2> SUFFICES ASSUME Init PROVE TypeOK
    OBVIOUS
  <2>1. nest \in Nests /\ 1 \in 1 .. Depth
    BY NestFacts DEF Init
  <2>2. 0 \in Value /\ << >> \in Seq(Value)
    BY SeqDef DEF Value
  <2> QED
    BY <2>1, <2>2 DEF Init, TypeOK, Blocks
<1>2. TypeOK /\ [Next]_vars => TypeOK'
  BY TypeStep
<1> QED
  BY <1>1, <1>2, PTL DEF Spec

-----------------------------------------------------------------------------
(* The inductive invariant *)

\* What a sound nest gives each of its loops.
LEMMA SoundFacts ==
  ASSUME nest \in Nests, SoundNest(nest), NEW d \in 1 .. Depth
  PROVE  /\ nest[d] \in Loops /\ WellFormed(nest[d]) /\ Sound(nest[d])
         /\ nest[d].var \in Names /\ d \in Levels
         /\ \A e \in 1 .. Depth : e # d => nest[e].var # nest[d].var
  BY NestFacts, LoopType DEF SoundNest, Depth

\* Setting the counter of a loop, or the element of a list loop, sets that one ...
LEMMA OwnCounter ==
  ASSUME TypeOK, nest' = nest, NEW d \in 1 .. Depth, NEW v \in Value, SetCounter(d, v)
  PROVE  /\ Counter(d)' = v
         /\ ~IsList(d) => var'[nest[d].var] = v
<1>1. d \in Levels /\ nest[d].var \in Names
  BY NestFacts, CounterType DEF TypeOK
<1> QED
  BY <1>1 DEF SetCounter, Counter, IsList, TypeOK

\* ... and disturbs no loop around it.
LEMMA OtherRounds ==
  ASSUME TypeOK, SoundNest(nest), nest' = nest, NEW l \in 1 .. Depth,
         \A d \in Levels : d # l => idx'[d] = idx[d],
         \A x \in Names : x # nest[l].var => var'[x] = var[x],
         \A d \in 1 .. l - 1 : k'[d] = k[d],
         NEW d \in 1 .. l - 1, InRound(d)
  PROVE  InRound(d)'
<1>1. d \in 1 .. Depth /\ d # l /\ l \in Int
  BY NestFacts DEF TypeOK
<1>2. nest[d].var \in Names /\ nest[d].var # nest[l].var /\ d \in Levels
  BY <1>1, SoundFacts DEF TypeOK
<1> QED
  BY <1>1, <1>2 DEF InRound, AtMember, Counter, IsList

LEMMA SetCounterFrame ==
  ASSUME TypeOK, NEW l \in 1 .. Depth, NEW v \in Value, SetCounter(l, v)
  PROVE  /\ \A d \in Levels : d # l => idx'[d] = idx[d]
         /\ \A x \in Names : x # nest[l].var => var'[x] = var[x]
  BY DEF SetCounter, TypeOK

LEMMA SameRounds ==
  ASSUME UNCHANGED <<nest, var, idx>>, NEW d, k'[d] = k[d], InRound(d)
  PROVE  InRound(d)'
  BY DEF InRound, AtMember, Counter, IsList

\* A round that is over: a range or list loop has taken its step in the body, a while
\* loop takes it next.
LEMMA MemberStep ==
  ASSUME TypeOK, SoundNest(nest), NEW d \in 1 .. Depth, NEW n \in Nat,
         Counter(d) = Member(nest[d], n), Fits(Counter(d), nest[d].type),
         InRange(nest[d], Counter(d)),
         SetCounter(d, Plus(Counter(d), step_val(nest[d]), nest[d].type)),
         nest' = nest, k'[d] = n + 1
  PROVE  AtMember(d)' /\ Comparable(d)'
<1>1. nest[d] \in Loops /\ Sound(nest[d])
  BY SoundFacts DEF TypeOK
<1>2. Counter(d) \in Int
  BY <1>1, MemberType
<1> DEFINE next == Counter(d) + Step(nest[d])
<1>3. /\ Plus(Counter(d), step_val(nest[d]), nest[d].type) = next
      /\ Fits(next, nest[d].type) /\ next \in Int
  BY <1>1, <1>2, SoundPlus
<1>4. SetCounter(d, next) /\ next \in Value
  BY <1>3 DEF Value
<1>5. Counter(d)' = next
  BY <1>4, OwnCounter
<1>6. next = Member(nest[d], n + 1)
  BY <1>1, NextMember
<1>7. nest[d].kind = "while" => Tested(nest[d], next)
  BY <1>1, TestedNext
<1> QED
  BY <1>3, <1>5, <1>6, <1>7 DEF AtMember, Comparable

\* Control goes on behind a loop, in a round of the loop around it.
LEMMA LeavesLoop ==
  ASSUME LoopInv, while_end, UNCHANGED <<nest, expr, var, idx, k>>, block \notin {"HIRGen", "crashed"}
  PROVE  BlockInv' /\ ExprInv' /\ FirstInv' /\ \A d \in 1 .. level' - 1 : InRound(d)'
<1>1. level \in Int /\ level >= 1
  BY NestFacts DEF LoopInv, TypeOK
<1>2. (level' = level \/ level' = level - 1) /\ block' \in {"done", "while.end"}
  BY DEF while_end
<1>3. \A d \in 1 .. level - 1 : InRound(d)'
  BY SameRounds DEF LoopInv
<1>4. \A d \in 1 .. level' - 1 : InRound(d)'
  <2>1. ASSUME NEW d \in 1 .. level' - 1 PROVE d \in 1 .. level - 1
    BY <1>1, <1>2
  <2> QED
    BY <1>3, <2>1
<1>5. ExprInv' /\ FirstInv'
  BY <1>2 DEF LoopInv, ExprInv, FirstInv, Depth
<1>6. BlockInv'
  <2>1. CASE level = 1
    BY <2>1 DEF while_end, BlockInv, InBody
  <2>2. CASE level # 1
    <3>1. level' = level - 1 /\ block' = "while.end" /\ level - 1 \in 1 .. level - 1
      BY <1>1, <2>2 DEF while_end
    <3>2. PICK l \in 1 .. level - 1 : l = level - 1
      BY <3>1
    <3>3. InRound(l)' /\ level' = l
      BY <1>3, <3>1, <3>2
    <3>4. InRound(level)'
      BY <3>3 DEF InRound, AtMember, Counter, IsList
    <3> QED
      BY <3>1, <3>4 DEF BlockInv, InBody
  <2> QED
    BY <2>1, <2>2
<1> QED
  BY <1>4, <1>5, <1>6

LEMMA InvStep ==
  ASSUME LoopInv, SoundNest(nest), [Next]_vars
  PROVE  LoopInv'
<1> DEFINE Around == \A d \in 1 .. level - 1 : InRound(d)
<1>0. TypeOK /\ TypeOK' /\ BlockInv /\ ExprInv /\ FirstInv /\ Around
  BY TypeStep DEF LoopInv
<1> SUFFICES BlockInv' /\ ExprInv' /\ FirstInv' /\ \A d \in 1 .. level' - 1 : InRound(d)'
  BY <1>0 DEF LoopInv
<1> USE <1>0
<1>a. nest \in Nests /\ Depth \in Nat \ {0} /\ level \in 1 .. Depth /\ k \in [Levels -> Nat]
  BY NestFacts DEF TypeOK
<1>b. PICK l \in 1 .. Depth : l = level
  BY <1>a
<1>c. /\ nest[l] \in Loops /\ WellFormed(nest[l]) /\ Sound(nest[l])
      /\ nest[l].var \in Names /\ l \in Levels /\ l \in Int /\ l >= 1
      /\ nest[l].start \in Int /\ k[l] \in Nat
  BY <1>a, SoundFacts, LoopType
<1>d. Plus(Counter(l), step_val(nest[l]), nest[l].type) \in Value
  BY <1>c, CounterType, StepType, PlusType
<1>1. CASE compile
  <2>1. /\ level' = 1 /\ k'[1] = 0 /\ nest' = nest
        /\ block' = "entry" \/ block' = "crashed"
    BY <1>1 DEF compile, FirstInv
  <2>2. ExprInv'
    <3> SUFFICES ASSUME block' # "crashed", NEW d \in 1 .. Depth
                 PROVE  expr'[d] = "step" <=> nest[d].kind = "while"
      BY <2>1 DEF ExprInv, Depth
    <3>1. d \in Levels
      BY <1>a, NestFacts
    <3> QED
      BY <1>1, <3>1 DEF compile
  <2> QED
    BY <2>1, <2>2 DEF BlockInv, FirstInv, InBody
<1>2. CASE entry
  <2>1. block = "entry" /\ block' = "while.cond" /\ UNCHANGED <<nest, expr, level, k>>
    BY <1>2 DEF entry
  <2>2. nest[l].start \in Value /\ k[l] = 0
    BY <1>b, <1>c, <2>1 DEF Value, BlockInv
  <2>3. /\ Counter(l)' = nest[l].start
        /\ \A d \in Levels : d # l => idx'[d] = idx[d]
        /\ \A x \in Names : x # nest[l].var => var'[x] = var[x]
    <3>1. CASE IsList(l)
      BY <1>2, <1>b, <1>c, <2>1, <3>1 DEF entry, TypeOK, IsList, Counter, WellFormed
    <3>2. CASE ~IsList(l)
      <4>1. SetCounter(l, nest[l].start)
        BY <1>2, <1>b, <3>2 DEF entry
      <4> QED
        BY <2>1, <2>2, <4>1, OwnCounter, SetCounterFrame
    <3> QED
      BY <3>1, <3>2
  <2>4. AtMember(level)' /\ Comparable(level)'
    BY <1>b, <1>c, <2>1, <2>2, <2>3, FirstMember
       DEF AtMember, WellFormed, Fits, Counter, IsList, Comparable, Tested
  <2>5. \A d \in 1 .. l - 1 : InRound(d)'
    BY <1>b, <2>1, <2>3, OtherRounds
  <2> QED
    BY <1>b, <2>1, <2>4, <2>5 DEF BlockInv, ExprInv, FirstInv, Depth, InBody
<1>3. CASE while_cond
  <2>1. /\ block = "while.cond" /\ block' = "while.body"
        /\ UNCHANGED <<nest, expr, level, idx, k>>
        /\ condition(nest[l], Counter(l))
        /\ var' = IF IsList(l) THEN [var EXCEPT ![nest[l].var] = idx[l]] ELSE var
    BY <1>3, <1>b DEF while_cond
  <2>2. AtMember(l) /\ Comparable(l)
    BY <1>b, <2>1 DEF BlockInv, AtMember, Comparable, Counter, IsList
  <2>3. Counter(l) \in Int /\ Fits(Counter(l), nest[l].type)
    BY <1>c, <2>2, MemberType DEF AtMember
  <2>4. InRange(nest[l], Counter(l))
    BY <1>c, <2>1, <2>2, <2>3, SoundCondition DEF Comparable
  <2>5. Counter(l)' = Counter(l) /\ var'[nest[l].var] = Counter(l)
    BY <1>c, <2>1 DEF Counter, IsList, TypeOK
  <2>6. InRound(l)'
    BY <2>1, <2>2, <2>4, <2>5 DEF InRound, AtMember
  <2>7. \A x \in Names : x # nest[l].var => var'[x] = var[x]
    BY <2>1 DEF TypeOK
  <2>8. \A d \in 1 .. l - 1 : InRound(d)'
    BY <1>b, <2>1, <2>7, OtherRounds
  <2>9. InRound(level)'
    BY <1>b, <2>1, <2>6 DEF InRound, AtMember, Counter, IsList
  <2> QED
    BY <1>b, <2>1, <2>8, <2>9 DEF BlockInv, ExprInv, FirstInv, Depth
<1>4. CASE while_cond_false
  BY <1>4, LeavesLoop DEF while_cond_false
<1>5. CASE inner_loop
  <2>1. /\ block = "while.body" /\ block' = "entry" /\ level' = level + 1 /\ level + 1 \in Levels
        /\ k' = [k EXCEPT ![level + 1] = 0] /\ UNCHANGED <<nest, expr, var, idx>>
    <3>1. level + 1 \in 1 .. Depth
      BY <1>5, <1>a DEF inner_loop
    <3> QED
      BY <1>5, <1>a, <3>1, NestFacts DEF inner_loop
  <2>2. InRound(level)
    BY <2>1 DEF BlockInv, InBody
  <2>3. \A d \in 1 .. level : InRound(d)
    <3>1. ASSUME NEW d \in 1 .. level PROVE d = level \/ d \in 1 .. level - 1
      BY <1>a
    <3>2. InRound(l)
      BY <1>b, <2>2 DEF InRound, AtMember, Counter, IsList
    <3> QED
      BY <1>b, <3>1, <3>2
  <2>4. ASSUME NEW d \in 1 .. level' - 1 PROVE InRound(d)'
    <3>1. d \in 1 .. level /\ k'[d] = k[d]
      BY <1>a, <2>1
    <3>2. InRound(d)
      BY <2>3, <3>1
    <3> QED
      BY <2>1, <3>1, <3>2, SameRounds
  <2>5. k'[level'] = 0
    BY <1>a, <2>1
  <2>6. BlockInv'
    BY <2>1, <2>5 DEF BlockInv, InBody
  <2> QED
    BY <2>1, <2>4, <2>6 DEF ExprInv, FirstInv, Depth
<1>6. CASE body_end
  <2>1. /\ InBody /\ block' = "while.expr" /\ UNCHANGED <<nest, expr, level>>
        /\ k' = [k EXCEPT ![l] = @ + 1]
    BY <1>6, <1>b DEF body_end, BodyEnds, InBody
  <2>2. InRound(l) /\ k'[l] = k[l] + 1
    <3>1. InRound(l)
      BY <1>b, <2>1 DEF BlockInv, InRound, AtMember, Counter, IsList
    <3>2. k'[l] = k[l] + 1
      BY <1>a, <1>c, <2>1
    <3> QED
      BY <3>1, <3>2
  <2>3. \A d \in 1 .. l - 1 : k'[d] = k[d] /\ d \in Levels
    BY <1>a, <1>c, <2>1, NestFacts
  <2>4. CASE nest[l].kind = "while"
    <3>1. UNCHANGED <<var, idx>>
      BY <1>6, <1>b, <2>4 DEF body_end
    <3>2. Stepping(l)'
      <4>1. k'[l] > 0 /\ k'[l] - 1 = k[l]
        BY <1>c, <2>2
      <4> QED
        BY <2>1, <2>2, <3>1, <4>1 DEF Stepping, InRound, AtMember, Counter, IsList
    <3>3. Stepping(level)'
      BY <1>b, <2>1, <3>2 DEF Stepping, Counter, IsList
    <3>4. \A d \in 1 .. l - 1 : InRound(d)'
      BY <1>b, <2>1, <2>3, <3>1, SameRounds
    <3> QED
      BY <1>b, <2>1, <2>4, <3>3, <3>4 DEF BlockInv, ExprInv, FirstInv, Depth, InBody
  <2>5. CASE nest[l].kind # "while"
    <3>1. SetCounter(l, Plus(Counter(l), step_val(nest[l]), nest[l].type))
      BY <1>6, <1>b, <2>5 DEF body_end
    <3>2. AtMember(l)'
      BY <1>c, <2>1, <2>2, <3>1, MemberStep DEF InRound, AtMember
    <3>3. AtMember(level)'
      BY <1>b, <2>1, <3>2 DEF AtMember, Counter, IsList
    <3>4. \A d \in 1 .. l - 1 : InRound(d)'
      BY <1>b, <1>d, <2>1, <2>3, <3>1, SetCounterFrame, OtherRounds
    <3> QED
      BY <1>b, <2>1, <2>5, <3>3, <3>4 DEF BlockInv, ExprInv, FirstInv, Depth, InBody
  <2> QED
    BY <2>4, <2>5
<1>7. CASE continue
  <2>1. /\ InBody /\ block' = "while.expr" /\ UNCHANGED <<nest, expr, level, var, idx>>
        /\ k' = [k EXCEPT ![l] = @ + 1]
        /\ nest[l].kind = "while"
    BY <1>7, <1>b, <1>c DEF continue, Sound
  <2>2. InRound(l) /\ k'[l] = k[l] + 1
    <3>1. InRound(l)
      BY <1>b, <2>1 DEF BlockInv, InRound, AtMember, Counter, IsList
    <3>2. k'[l] = k[l] + 1
      BY <1>a, <1>c, <2>1
    <3> QED
      BY <3>1, <3>2
  <2>3. \A d \in 1 .. l - 1 : k'[d] = k[d] /\ d \in Levels
    BY <1>a, <1>c, <2>1, NestFacts
  <2>4. Stepping(l)'
    <3>1. k'[l] > 0 /\ k'[l] - 1 = k[l]
      BY <1>c, <2>2
    <3> QED
      BY <2>1, <2>2, <3>1 DEF Stepping, InRound, AtMember, Counter, IsList
  <2>5. Stepping(level)'
    BY <1>b, <2>1, <2>4 DEF Stepping, Counter, IsList
  <2>6. \A d \in 1 .. l - 1 : InRound(d)'
    BY <1>b, <2>1, <2>3, SameRounds
  <2> QED
    BY <1>b, <2>1, <2>5, <2>6 DEF BlockInv, ExprInv, FirstInv, Depth, InBody
<1>8. CASE break
  BY <1>8, LeavesLoop DEF break, InBody
<1>9. CASE ret
  <2>1. block' = "returned" /\ UNCHANGED <<nest, expr, level, var, idx, k>> /\ InBody
    BY <1>9 DEF ret
  <2>2. \A d \in 1 .. level - 1 : InRound(d)'
    BY <2>1, SameRounds
  <2> QED
    BY <2>1, <2>2 DEF BlockInv, ExprInv, FirstInv, Depth, InBody
<1>10. CASE while_expr
  <2>1. block = "while.expr" /\ block' = "while.cond" /\ UNCHANGED <<nest, expr, level, k>>
    BY <1>10 DEF while_expr
  <2>2. expr[l] = "step" <=> nest[l].kind = "while"
    BY <1>b, <2>1 DEF ExprInv
  <2>3. CASE nest[l].kind = "while"
    <3>1. SetCounter(l, Plus(Counter(l), step_val(nest[l]), nest[l].type))
      BY <1>10, <1>b, <2>2, <2>3 DEF while_expr
    <3>2. Stepping(l)
      BY <1>b, <2>1, <2>3 DEF BlockInv, Stepping, Counter, IsList
    <3>3. k[l] - 1 \in Nat /\ k[l] = (k[l] - 1) + 1
      BY <1>c, <3>2 DEF Stepping
    <3>4. AtMember(l)' /\ Comparable(l)'
      BY <2>1, <3>1, <3>2, <3>3, MemberStep DEF Stepping
    <3>5. AtMember(level)' /\ Comparable(level)'
      BY <1>b, <2>1, <3>4 DEF AtMember, Comparable, Counter, IsList
    <3>6. \A d \in 1 .. l - 1 : InRound(d)'
      BY <1>b, <1>d, <2>1, <3>1, SetCounterFrame, OtherRounds
    <3> QED
      BY <1>b, <2>1, <3>5, <3>6 DEF BlockInv, ExprInv, FirstInv, Depth, InBody
  <2>4. CASE nest[l].kind # "while"
    <3>1. UNCHANGED <<var, idx>>
      BY <1>10, <1>b, <2>2, <2>4 DEF while_expr
    <3>2. AtMember(l)
      BY <1>b, <2>1, <2>4 DEF BlockInv, AtMember, Counter, IsList
    <3>3. AtMember(level)' /\ Comparable(level)'
      BY <1>b, <2>1, <2>4, <3>1, <3>2 DEF AtMember, Comparable, Counter, IsList
    <3>4. \A d \in 1 .. l - 1 : InRound(d)'
      BY <1>b, <2>1, <3>1, SameRounds
    <3> QED
      BY <1>b, <2>1, <3>3, <3>4 DEF BlockInv, ExprInv, FirstInv, Depth, InBody
  <2> QED
    BY <2>3, <2>4
<1>11. CASE UNCHANGED vars
  <2>1. \A d \in 1 .. level - 1 : InRound(d)'
    BY <1>11, SameRounds DEF vars
  <2>2. BlockInv' /\ ExprInv' /\ FirstInv'
    BY <1>11 DEF vars, BlockInv, ExprInv, FirstInv, Depth, InBody, InRound, AtMember, Stepping,
                 Comparable, Counter, IsList
  <2> QED
    BY <1>11, <2>1, <2>2 DEF vars
<1> QED
  BY <1>1, <1>2, <1>3, <1>4, <1>5, <1>6, <1>7, <1>8, <1>9, <1>10, <1>11
     DEF Next, Run, Finished

LEMMA InvInit ==
  ASSUME Init
  PROVE  LoopInv
<1>1. TypeOK
  <2>1. nest \in Nests /\ 1 \in 1 .. Depth
    BY NestFacts DEF Init
  <2>2. 0 \in Value /\ << >> \in Seq(Value)
    BY SeqDef DEF Value
  <2> QED
    BY <2>1, <2>2 DEF Init, TypeOK, Blocks
<1>2. 1 \in Levels
  BY LoopConstants DEF Levels
<1> QED
  BY <1>1, <1>2 DEF Init, LoopInv, BlockInv, ExprInv, FirstInv, InBody

\* In sound nests the iterator of the loop that is tested is the member whose turn it
\* is, and every loop around it is in a round of its own: inner loops, however they
\* are left, and the hidden index of lists disturb no counter (HIRGen's lowering of
\* loops, codegen's blocks and allocas).
THEOREM LoopInvariant ==
  ASSUME \A n \in Nests : SoundNest(n)
  PROVE  Spec => []LoopInv
<1>1. Init => LoopInv
  BY InvInit
<1>2. LoopInv /\ [Next]_vars => LoopInv'
  BY InvStep DEF LoopInv, TypeOK
<1> QED
  BY <1>1, <1>2, PTL DEF Spec

-----------------------------------------------------------------------------
(* Refinement *)

LEMMA SameRange ==
  ASSUME NEW l, NEW n
  PROVE  F!Member(l, n) = Member(l, n) /\ (F!InRange(l, n) <=> InRange(l, n))
  BY DEF F!Member, Member, F!Step, Step, F!Descending, Descending, F!InRange, InRange

\* What a body sees of the iterators are the members of their loops.
LEMMA BodySees ==
  ASSUME LoopInv', InBody', nest' = nest
  PROVE  Iterators(level', var') = [e \in 1 .. level' |-> F!Member(nest[e], k'[e])]
<1>1. level' \in Int /\ level' >= 1
  BY NestFacts DEF LoopInv, TypeOK, Depth
<1>2. InRound(level)'
  BY DEF LoopInv, BlockInv
<1>3. ASSUME NEW e \in 1 .. level'
      PROVE  var'[nest[e].var] = Member(nest[e], k'[e])
  <2>1. CASE e = level'
    BY <1>2, <2>1 DEF InRound, AtMember, Counter, IsList
  <2>2. CASE e # level'
    <3>1. \A m \in Int : \A d \in 1 .. m : d # m => d \in 1 .. m - 1
      OBVIOUS
    <3>2. InRound(e)'
      BY <1>1, <2>2, <3>1 DEF LoopInv
    <3> QED
      BY <3>2 DEF InRound, AtMember
  <2> QED
    BY <2>1, <2>2
<1> QED
  BY <1>3, SameRange DEF Iterators

LEMMA Leaves ==
  ASSUME LoopInv', while_end, UNCHANGED <<nest, var, k>>, InBody \/ block = "while.cond"
  PROVE  F!Leave
<1>1. CASE level = 1
  BY <1>1 DEF while_end, F!Leave, at
<1>2. CASE level # 1
  <2>1. block' = "while.end" /\ level' = level - 1 /\ seen' = Iterators(level', var')
    BY <1>2 DEF while_end
  <2>2. seen' = [e \in 1 .. level' |-> F!Member(nest[e], k'[e])]
    BY <2>1, BodySees DEF InBody
  <2> QED
    BY <1>2, <2>1, <2>2 DEF F!Leave, F!Members, at
<1> QED
  BY <1>1, <1>2

LEMMA RefinementStep ==
  ASSUME LoopInv, LoopInv', SoundNest(nest), [Next]_vars
  PROVE  [F!Next]_(F!vars)
<1>a. TypeOK /\ nest \in Nests
  BY DEF LoopInv, TypeOK
<1>b. /\ nest[level] \in Loops /\ Sound(nest[level])
      /\ block = "while.cond" =>
           /\ Counter(level) = Member(nest[level], k[level])
           /\ condition(nest[level], Counter(level))
                <=> F!InRange(nest[level], F!Member(nest[level], k[level]))
  <2>1. level \in 1 .. Depth /\ k[level] \in Nat
    BY <1>a, NestFacts DEF TypeOK
  <2>2. nest[level] \in Loops /\ Sound(nest[level])
    BY <1>a, <2>1, SoundFacts
  <2>3. ASSUME block = "while.cond"
        PROVE  /\ Counter(level) = Member(nest[level], k[level])
               /\ Fits(Counter(level), nest[level].type)
               /\ nest[level].kind = "while" => Tested(nest[level], Counter(level))
    BY <2>3 DEF LoopInv, BlockInv, AtMember, Comparable
  <2>4. Member(nest[level], k[level]) \in Int
    BY <2>1, <2>2, MemberType
  <2> QED
    BY <2>2, <2>3, <2>4, SoundCondition, SameRange
<1>1. CASE compile
  BY <1>1 DEF compile, F!vars, at
<1>2. CASE entry
  BY <1>2 DEF entry, F!vars, at
<1>3. CASE while_cond
  <2>1. F!InRange(nest[level], F!Member(nest[level], k[level]))
    BY <1>3, <1>b DEF while_cond
  <2>2. /\ block = "while.cond" /\ block' = "while.body"
        /\ UNCHANGED <<nest, level, k>> /\ seen' = Iterators(level', var')
    BY <1>3 DEF while_cond
  <2>3. seen' = F!Members(level)
    BY <2>2, BodySees DEF InBody, F!Members
  <2>4. F!Begin
    BY <2>1, <2>2, <2>3 DEF F!Begin, at
  <2> QED
    BY <2>4 DEF F!Next
<1>4. CASE while_cond_false
  <2>1. ~F!InRange(nest[level], F!Member(nest[level], k[level]))
    BY <1>4, <1>b DEF while_cond_false
  <2>2. block = "while.cond" /\ while_end /\ UNCHANGED <<nest, var, k>>
    BY <1>4 DEF while_cond_false
  <2>3. F!Finish
    BY <2>1, <2>2, Leaves DEF F!Finish, at
  <2> QED
    BY <2>3 DEF F!Next
<1>5. CASE inner_loop
  <2>1. F!Enter
    BY <1>5 DEF inner_loop, F!Enter, F!Depth, Depth, at
  <2> QED
    BY <2>1 DEF F!Next
<1>6. CASE body_end
  <2>1. F!NextMember
    BY <1>6 DEF body_end, BodyEnds, F!NextMember, F!BodyOver, F!Depth, Depth, at
  <2> QED
    BY <2>1 DEF F!Next
<1>7. CASE continue
  <2>1. F!NextMember
    BY <1>7 DEF continue, InBody, F!NextMember, F!BodyOver, F!Depth, at
  <2> QED
    BY <2>1 DEF F!Next
<1>8. CASE break
  <2>1. InBody /\ "break" \in nest[level].exits /\ while_end /\ UNCHANGED <<nest, var, k>>
    BY <1>8 DEF break
  <2>2. F!Break
    BY <2>1, Leaves DEF F!Break, InBody, at
  <2> QED
    BY <2>2 DEF F!Next
<1>9. CASE ret
  <2>1. F!Return
    BY <1>9 DEF ret, InBody, F!Return, at
  <2> QED
    BY <2>1 DEF F!Next
<1>10. CASE while_expr
  BY <1>10 DEF while_expr, F!vars, at
<1>11. CASE UNCHANGED vars
  BY <1>11 DEF vars, F!vars, at
<1> QED
  BY <1>1, <1>2, <1>3, <1>4, <1>5, <1>6, <1>7, <1>8, <1>9, <1>10, <1>11
     DEF Next, Run, Finished

\* Sound nests, of any depth and over any types, run every body once for every member
\* of its range, in order, whatever the loops inside it do (HIRGen and codegen of
\* loops, break, continue and return).
THEOREM NestsImplementForNest ==
  ASSUME \A n \in Nests : SoundNest(n)
  PROVE  Spec => ImplementsForNest
<1>1. Init => F!Init
  BY DEF Init, F!Init, F!Levels, Levels, at
<1>2. LoopInv /\ LoopInv' /\ [Next]_vars => [F!Next]_(F!vars)
  BY RefinementStep DEF LoopInv, TypeOK
<1>3. Spec => []LoopInv
  BY LoopInvariant
<1> QED
  BY <1>1, <1>2, <1>3, PTL DEF Spec, F!Spec, ImplementsForNest

=============================================================================
