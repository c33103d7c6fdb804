-------------------------- MODULE FunctionCodeProofs --------------------------
(***************************************************************************)
(* Proofs about FunctionCode, for every set of functions: the variables    *)
(* keep their types, a closed block stays as it is, and when a function    *)
(* has been emitted all its blocks are closed and lead to blocks.  The     *)
(* blocks follow the text (TextInv), the analysis of returns tells which   *)
(* text reaches its bottom (VerdictInv), and so the code implements        *)
(* FunctionPromise.                                                        *)
(***************************************************************************)
EXTENDS FunctionCode, NestingProofs

-----------------------------------------------------------------------------
(* Functions *)

IsBody(P) ==
  /\ Closed(P)
  /\ \A q \in DOMAIN P :
       /\ P[q].k \in BodyKinds /\ P[q].value \in Expressions
       /\ P[q].k \in {"else", "end"} => Level(P, q) > 0
       /\ P[q].k = "else" => \E o \in 1 .. q - 1 : P[o].k = "if" /\ Else(P, o) = q

\* What the functions are assumed to be.
LEMMA BodyFacts ==
  ASSUME NEW F \in Functions
  PROVE  IsBody(F.body) /\ F.ret \in Types
<1> DEFINE P == F.body
<1>1. /\ F.ret \in Types
      /\ P \in Seq(BodyTokens)
      /\ Level(P, Bottom(P)) = 0
      /\ \A q \in Positions(P) :
           /\ Opens(P, q) => \E r \in Positions(P) : Closes(P, q, r)
           /\ P[q].k \in {"else", "end"} => Level(P, q) > 0
           /\ P[q].k = "else" => \E o \in 1 .. q - 1 : P[o].k = "if" /\ Else(P, o) = q
  BY FunctionConstants, Zenon
<1> HIDE DEF P
<1>2. DOMAIN P = 1 .. Len(P) /\ Len(P) \in Nat /\ Positions(P) = DOMAIN P
  BY <1>1 DEF Positions
<1>3. \A q \in DOMAIN P : P[q] \in BodyTokens
  BY <1>1, <1>2
<1>4. \A q \in DOMAIN P : P[q].k \in BodyKinds /\ P[q].value \in Expressions
  BY <1>3 DEF BodyTokens
<1>5. Closed(P)
  BY <1>1, <1>2 DEF Closed, Bottom
<1> QED
  BY <1>1, <1>2, <1>4, <1>5 DEF IsBody, P

\* The else of an if stands directly in it.
LEMMA ElseInside ==
  ASSUME NEW P, Closed(P), NEW q \in DOMAIN P, Opens(P, q)
  PROVE  \/ Else(P, q) = 0
         \/ /\ Else(P, q) \in DOMAIN P /\ q < Else(P, q) /\ Else(P, q) < End(P, q)
            /\ P[Else(P, q)].k = "else" /\ Level(P, Else(P, q)) = Level(P, q) + 1
<1> DEFINE found == {r \in q + 1 .. End(P, q) : P[r].k = "else" /\ Level(P, r) = Level(P, q) + 1}
<1>1. End(P, q) \in DOMAIN P /\ q < End(P, q) /\ P[End(P, q)].k = "end"
  BY EndCloses
<1>2. q \in Nat \ {0} /\ End(P, q) \in Nat /\ DOMAIN P = 1 .. Len(P) /\ Len(P) \in Nat
  BY <1>1 DEF Closed
<1>3. CASE found = {}
  BY <1>3 DEF Else
<1>4. CASE found # {}
  <2>1. Else(P, q) \in found
    BY <1>4 DEF Else
  <2> QED
    BY <2>1, <1>1, <1>2
<1> QED
  BY <1>3, <1>4

\* An else belongs to the construct that is running.
LEMMA ElseOfInnermost ==
  ASSUME NEW P, IsBody(P), NEW q \in DOMAIN P, P[q].k = "else", NEW c, Around(P, q, c)
  PROVE  c # << >> /\ c[Len(c)] \in DOMAIN P /\ P[c[Len(c)]].k = "if" /\ Else(P, c[Len(c)]) = q
<1>1. Closed(P) /\ Level(P, q) > 0
  BY DEF IsBody
<1>2. q \in Nat \ {0} /\ DOMAIN P = 1 .. Len(P) /\ Len(P) \in Nat
  BY <1>1 DEF Closed
<1>3. PICK o \in 1 .. q - 1 : P[o].k = "if" /\ Else(P, o) = q
  BY DEF IsBody
<1>4. o \in DOMAIN P /\ Opens(P, o)
  BY <1>2, <1>3 DEF Opens, Openers
<1>5. o < q /\ q < End(P, o) /\ Level(P, q) = Level(P, o) + 1 /\ End(P, o) \in DOMAIN P
  BY <1>1, <1>2, <1>3, <1>4, ElseInside, EndCloses
<1>6. c \in Seq(DOMAIN P) /\ Len(c) = Level(P, q)
  BY DEF Around
<1>7. c # << >> /\ Len(c) \in Nat \ {0} /\ DOMAIN c = 1 .. Len(c) /\ Len(c) \in DOMAIN c
  BY <1>1, <1>6
<1>8. /\ Opens(P, c[Len(c)]) /\ c[Len(c)] < q /\ q <= End(P, c[Len(c)])
      /\ Level(P, c[Len(c)]) = Len(c) - 1 /\ c[Len(c)] \in DOMAIN P
  BY <1>6, <1>7 DEF Around
<1>9. Level(P, o) \in Int /\ Level(P, o) = Level(P, c[Len(c)])
  BY <1>2, <1>4, <1>5, <1>6, <1>8, LevelOfNext
<1>10. q <= End(P, o)
  BY <1>2, <1>5
<1>11. o = c[Len(c)]
  BY <1>1, <1>2, <1>4, <1>5, <1>8, <1>9, <1>10, OneConstruct
<1> QED
  BY <1>3, <1>7, <1>8, <1>11

-----------------------------------------------------------------------------
(* Types of expressions *)

LEMMA TypedType ==
  ASSUME NEW e \in Expressions, NEW want \in Types
  PROVE  Typed(e, want) \in Types
<1>1. e.type \in Types
  BY DEF Expressions
<1>2. \A b \in Bases \cup {"null"} : Scalar(b) \in Types
  BY DEF Scalar, Types
<1>3. want.base \in Bases \cup {"null"} /\ want.inner \in Bases \cup {"null"}
  BY DEF Types
<1>4. "F32" \in Bases /\ "I32" \in Bases
  BY DEF Bases, Numeric, Floats, Signed
<1>5. force_numeric_type(e, e.type, want) \in Types
  BY <1>1, <1>2, <1>3 DEF force_numeric_type
<1>6. ASSUME NEW t \in Types
      PROVE  handle_num(e, t, want) \in Types
  <2>1. CASE e.literal = "none" \/ t.base # "UNKNOWN"
    BY <2>1 DEF handle_num
  <2>2. CASE ~(e.literal = "none" \/ t.base # "UNKNOWN")
    <3>1. /\ Scalar(want.inner) \in Types
          /\ Scalar(IF e.literal = "float" THEN "F32" ELSE "I32") \in Types
      BY <1>2, <1>3, <1>4
    <3> QED
      BY <2>2, <3>1 DEF handle_num
  <2> QED
    BY <2>1, <2>2
<1> QED
  BY <1>5, <1>6 DEF Typed, check_expr

-----------------------------------------------------------------------------
(* Blocks *)

BlockNames(P) ==
  (0 .. Len(P)) \X
    {"entry", "then", "else", "ifcont", "while.cond", "while.body", "while.expr", "while.end"}

\* A terminator names as many blocks as it needs.
Terminators(P) ==
  {t \in [op : {"none", "br", "condbr", "ret"}, q : 0 .. Bottom(P), to : Seq(BlockNames(P))] :
     /\ t.op = "br" => Len(t.to) = 1
     /\ t.op = "condbr" => Len(t.to) = 2}

Blocks(P) == [insts : Seq(1 .. Len(P)), term : Terminators(P)]
IsOpen(c, b) == c[b].term = NoTerminator

LEMMA TerminatorTypes ==
  ASSUME NEW P, Len(P) \in Nat
  PROVE  /\ NoTerminator \in Terminators(P)
         /\ \A b \in BlockNames(P) : Br(b) \in Terminators(P) /\ Br(b) # NoTerminator
         /\ \A q \in 0 .. Bottom(P), b, d \in BlockNames(P) :
              CondBr(q, b, d) \in Terminators(P) /\ CondBr(q, b, d) # NoTerminator
         /\ \A q \in 0 .. Bottom(P) : Ret(q) \in Terminators(P) /\ Ret(q) # NoTerminator
<1>1. 0 \in 0 .. Bottom(P) /\ << >> \in Seq(BlockNames(P))
  BY DEF Bottom
<1>2. NoTerminator \in Terminators(P)
  BY <1>1 DEF NoTerminator, Terminators
<1>3. ASSUME NEW b \in BlockNames(P)
      PROVE  Br(b) \in Terminators(P) /\ Br(b) # NoTerminator
  <2>1. <<b>> \in Seq(BlockNames(P)) /\ Len(<<b>>) = 1
    OBVIOUS
  <2> QED
    BY <2>1, <1>1 DEF Br, NoTerminator, Terminators
<1>4. ASSUME NEW q \in 0 .. Bottom(P), NEW b \in BlockNames(P), NEW d \in BlockNames(P)
      PROVE  CondBr(q, b, d) \in Terminators(P) /\ CondBr(q, b, d) # NoTerminator
  <2>1. <<b, d>> \in Seq(BlockNames(P)) /\ Len(<<b, d>>) = 2
    OBVIOUS
  <2> QED
    BY <2>1 DEF CondBr, NoTerminator, Terminators
<1>5. ASSUME NEW q \in 0 .. Bottom(P)
      PROVE  Ret(q) \in Terminators(P) /\ Ret(q) # NoTerminator
  BY <1>1 DEF Ret, NoTerminator, Terminators
<1> QED
  BY <1>2, <1>3, <1>4, <1>5

\* Terminating a block leaves its instructions and all others alone.
LEMMA TerminateType ==
  ASSUME NEW P, NEW D, NEW c \in [D -> Blocks(P)], NEW b \in D, NEW t \in Terminators(P)
  PROVE  /\ Terminate(c, b, t) \in [D -> Blocks(P)]
         /\ Terminate(c, b, t)[b].term = t
         /\ \A d \in D : Terminate(c, b, t)[d].insts = c[d].insts
         /\ \A d \in D : d # b => Terminate(c, b, t)[d] = c[d]
<1>1. c[b] \in Blocks(P)
  OBVIOUS
<1>2. [c[b] EXCEPT !.term = t] \in Blocks(P)
  BY <1>1 DEF Blocks
<1>3. [c[b] EXCEPT !.term = t].term = t /\ [c[b] EXCEPT !.term = t].insts = c[b].insts
  BY <1>1 DEF Blocks
<1>4. Terminate(c, b, t) = [c EXCEPT ![b] = [c[b] EXCEPT !.term = t]]
  BY DEF Terminate
<1> HIDE DEF Blocks
<1> DEFINE x == [c[b] EXCEPT !.term = t]
<1>5. x \in Blocks(P) /\ x.term = t /\ x.insts = c[b].insts
  BY <1>2, <1>3
<1>6. Terminate(c, b, t) = [c EXCEPT ![b] = x]
  BY <1>4
<1> HIDE DEF x
<1> QED
  BY <1>5, <1>6

LEMMA TerminateOpenType ==
  ASSUME NEW P, NEW D, NEW c \in [D -> Blocks(P)], NEW b \in D, NEW t \in Terminators(P), t # NoTerminator
  PROVE  /\ TerminateOpen(c, b, t) \in [D -> Blocks(P)]
         /\ TerminateOpen(c, b, t)[b].term \in {t, c[b].term} /\ ~IsOpen(TerminateOpen(c, b, t), b)
         /\ ~IsOpen(c, b) => TerminateOpen(c, b, t)[b] = c[b]
         /\ \A d \in D : TerminateOpen(c, b, t)[d].insts = c[d].insts
         /\ \A d \in D : d # b => TerminateOpen(c, b, t)[d] = c[d]
<1>1. CASE IsOpen(c, b)
  BY <1>1, TerminateType DEF TerminateOpen, IsOpen
<1>2. CASE ~IsOpen(c, b)
  BY <1>2 DEF TerminateOpen, IsOpen
<1> QED
  BY <1>1, <1>2

LEMMA WithBlocksType ==
  ASSUME NEW P, Len(P) \in Nat, code \in [DOMAIN code -> Blocks(P)], NEW names
  PROVE  /\ WithBlocks(names) \in [DOMAIN code \cup names -> Blocks(P)]
         /\ \A b \in DOMAIN code : WithBlocks(names)[b] = code[b]
         /\ \A b \in names \ DOMAIN code : IsOpen(WithBlocks(names), b) /\ WithBlocks(names)[b] = NewBlock
<1>1. NewBlock \in Blocks(P) /\ NewBlock.term = NoTerminator
  <2>1. << >> \in Seq(1 .. Len(P)) /\ NoTerminator \in Terminators(P)
    BY TerminatorTypes
  <2> QED
    BY <2>1 DEF NewBlock, Blocks
<1> HIDE DEF NewBlock
<1> QED
  BY <1>1 DEF WithBlocks, IsOpen

-----------------------------------------------------------------------------
(* The inductive invariant *)

\* The blocks that the constructs which are running still have to fill.
WaitingFor(P, q, at) ==
  IF P[q].k = "while" THEN {expr(q), after(q)}
  ELSE {ifcont(q)} \cup {b \in {else(q)} : Else(P, q) >= at}
Pending(P, c, at) == UNION {WaitingFor(P, c[k], at) : k \in DOMAIN c}

\* Branches lead to blocks.
Linked(c) ==
  \A b \in DOMAIN c : \A k \in 1 .. Len(c[b].term.to) : c[b].term.to[k] \in DOMAIN c

Good(P, c) == c \in [DOMAIN c -> Blocks(P)] /\ Linked(c) /\ entry \in DOMAIN c

\* The walks over the body.
WalkInv ==
  /\ pc \in {"check", "codegen"} => Around(Body, p, calls)
  /\ pc = "check" => g_in_loop = Count(Body, calls, {"while"})

CodeTypes ==
  /\ Good(Body, code)
  /\ pc \in Compiling \cup Refused => i = 1

\* What is emitted, is emitted into the blocks of the constructs in front of `at'; the
\* open blocks are the insertion block and those that wait for their turn.
Emitted(P, cs, at, c, ins, loops) ==
  /\ \A b \in DOMAIN c : b[1] < at
  /\ Pending(P, cs, at) \subseteq DOMAIN c
  /\ \A b \in Pending(P, cs, at) : IsOpen(c, b) /\ b # ins
  /\ \A b \in DOMAIN c : IsOpen(c, b) => b = ins \/ b \in Pending(P, cs, at)
  /\ \A k \in DOMAIN cs : P[cs[k]].k = "while" => cond(cs[k]) \in DOMAIN c
  /\ \A k \in DOMAIN loops : {expr(loops[k]), after(loops[k])} \subseteq DOMAIN c

EmitInv ==
  /\ pc = "check" => DOMAIN code = {entry} /\ insert = entry /\ loopStack = << >>
  /\ pc = "codegen" => Emitted(Body, calls, p, code, insert, loopStack)
  /\ pc \in {"verify", "run", "returned"} => \A b \in DOMAIN code : ~IsOpen(code, b)

CodeInv == TypeOK /\ WalkInv /\ CodeTypes /\ EmitInv

-----------------------------------------------------------------------------
(* What waits, from token to token *)

LEMMA WaitingNames ==
  ASSUME NEW P, NEW q, NEW at, NEW b \in WaitingFor(P, q, at)
  PROVE  b[1] = q
BY DEF WaitingFor, expr, after, ifcont, else, Block

LEMMA PendingNames ==
  ASSUME NEW P, NEW cs, NEW at
  PROVE  \A b : b \in Pending(P, cs, at) <=> \E k \in DOMAIN cs : b \in WaitingFor(P, cs[k], at)
BY DEF Pending

\* What waits for an else that is not here yet waits for it behind the statement.
LEMMA ElseBehind ==
  ASSUME NEW P, IsBody(P), NEW q \in DOMAIN P, P[q].k \notin {"else", "end"},
         NEW cs, Around(P, q, cs), NEW k \in DOMAIN cs
  PROVE  /\ Else(P, cs[k]) >= Behind(P, q) <=> Else(P, cs[k]) >= q
         /\ Else(P, cs[k]) >= q + 1 <=> Else(P, cs[k]) >= q
<1> DEFINE e == Else(P, cs[k])
<1>1. Closed(P) /\ q \in Nat \ {0} /\ DOMAIN P = 1 .. Len(P) /\ Len(P) \in Nat
  BY DEF IsBody, Closed
<1>2. /\ cs[k] \in DOMAIN P /\ Opens(P, cs[k]) /\ Level(P, cs[k]) = k - 1 /\ k <= Level(P, q)
      /\ k \in Nat
  <2>1. cs \in Seq(DOMAIN P) /\ Len(cs) = Level(P, q) /\ DOMAIN cs = 1 .. Len(cs) /\ Len(cs) \in Nat
    BY DEF Around
  <2> QED
    BY <2>1 DEF Around
<1>3. q < Behind(P, q) /\ Behind(P, q) \in Nat
  BY <1>1, LevelBehind
<1>4. e = 0 \/ (e \in DOMAIN P /\ P[e].k = "else" /\ Level(P, e) = k)
  BY <1>1, <1>2, ElseInside
<1>5. CASE e = 0
  BY <1>1, <1>3, <1>5
<1>6. CASE e # 0
  <2>1. e \in Nat /\ e # q /\ e \in DOMAIN P
    BY <1>1, <1>4, <1>6
  <2>2. ASSUME e > q, e < Behind(P, q)
        PROVE  FALSE
    <3>1. Opens(P, q) /\ Behind(P, q) = End(P, q) + 1
      BY <2>1, <2>2, <1>1 DEF Behind
    <3>2. /\ End(P, q) \in Nat /\ P[End(P, q)].k = "end"
          /\ \A r \in q + 1 .. End(P, q) - 1 : Level(P, r) > Level(P, q)
      <4>1. End(P, q) \in DOMAIN P
        BY <1>1, <3>1, EndCloses
      <4> QED
        BY <4>1, <1>1, <3>1, EndCloses
    <3>3. e # End(P, q)
      BY <3>2, <1>4, <1>6
    <3>4. Level(P, e) > Level(P, q)
      BY <2>1, <2>2, <3>1, <3>2, <3>3, <1>1
    <3>5. Level(P, q) \in Int
      BY <1>1, LevelOfNext
    <3> QED
      BY <3>4, <3>5, <1>2, <1>4, <1>6
  <2>3. \A x, b, r \in Nat :
          r < b /\ x # r /\ ~(x > r /\ x < b) => (x >= b <=> x >= r) /\ (x >= r + 1 <=> x >= r)
    OBVIOUS
  <2> QED
    BY <2>1, <2>2, <2>3, <1>1, <1>3
<1> QED
  BY <1>5, <1>6

LEMMA PendingBehind ==
  ASSUME NEW P, IsBody(P), NEW q \in DOMAIN P, P[q].k \notin {"else", "end"},
         NEW cs, Around(P, q, cs)
  PROVE  Pending(P, cs, Behind(P, q)) = Pending(P, cs, q)
<1>1. \A k \in DOMAIN cs : WaitingFor(P, cs[k], Behind(P, q)) = WaitingFor(P, cs[k], q)
  BY ElseBehind DEF WaitingFor
<1> QED
  BY <1>1 DEF Pending

LEMMA PendingInside ==
  ASSUME NEW P, IsBody(P), NEW q \in DOMAIN P, Opens(P, q), NEW cs, Around(P, q, cs)
  PROVE  Pending(P, Append(cs, q), q + 1) = Pending(P, cs, q) \cup WaitingFor(P, q, q + 1)
<1> DEFINE d == Append(cs, q)
<1>1. P[q].k \notin {"else", "end"}
  BY DEF Opens, Openers
<1>2. \A k \in DOMAIN cs : WaitingFor(P, cs[k], q + 1) = WaitingFor(P, cs[k], q)
  BY <1>1, ElseBehind DEF WaitingFor
<1>3. cs \in Seq(DOMAIN P)
  BY DEF Around
<1>4. /\ DOMAIN cs = 1 .. Len(cs) /\ Len(cs) \in Nat
      /\ DOMAIN d = DOMAIN cs \cup {Len(cs) + 1} /\ d[Len(cs) + 1] = q
      /\ \A k \in DOMAIN cs : d[k] = cs[k]
  BY <1>3
<1> HIDE DEF d
<1>5. ASSUME NEW b
      PROVE  b \in Pending(P, d, q + 1) <=> b \in Pending(P, cs, q) \/ b \in WaitingFor(P, q, q + 1)
  <2>1. b \in Pending(P, d, q + 1) <=> \E k \in DOMAIN d : b \in WaitingFor(P, d[k], q + 1)
    BY PendingNames
  <2>2. b \in Pending(P, cs, q) <=> \E k \in DOMAIN cs : b \in WaitingFor(P, cs[k], q)
    BY PendingNames
  <2> QED
    BY <2>1, <2>2, <1>2, <1>4
<1> QED
  BY <1>5 DEF d

\* The else of a construct is its turn.
LEMMA PendingElse ==
  ASSUME NEW P, IsBody(P), NEW q \in DOMAIN P, P[q].k = "else", NEW cs, Around(P, q, cs)
  PROVE  LET r == cs[Len(cs)] IN
         /\ Len(cs) \in DOMAIN cs /\ r \in DOMAIN P /\ P[r].k = "if"
         /\ {else(r), ifcont(r)} \subseteq Pending(P, cs, q)
         /\ Pending(P, cs, q + 1) = Pending(P, cs, q) \ {else(r)}
<1> DEFINE r == cs[Len(cs)]
<1>1. cs # << >> /\ r \in DOMAIN P /\ P[r].k = "if" /\ Else(P, r) = q
  BY ElseOfInnermost
<1>2. Closed(P) /\ q \in Nat \ {0} /\ DOMAIN P = 1 .. Len(P) /\ Len(P) \in Nat
  BY DEF IsBody, Closed
<1>3. cs \in Seq(DOMAIN P) /\ DOMAIN cs = 1 .. Len(cs) /\ Len(cs) \in DOMAIN cs
  <2>1. cs \in Seq(DOMAIN P)
    BY DEF Around
  <2> QED
    BY <2>1, <1>1
<1>4. WaitingFor(P, r, q) = {ifcont(r), else(r)} /\ WaitingFor(P, r, q + 1) = {ifcont(r)}
  BY <1>1, <1>2 DEF WaitingFor
<1>5. ASSUME NEW k \in DOMAIN cs, k # Len(cs)
      PROVE  /\ WaitingFor(P, cs[k], q + 1) = WaitingFor(P, cs[k], q)
             /\ else(r) \notin WaitingFor(P, cs[k], q)
  <2>1. cs[k] # r
    BY <1>3, <1>5, AroundDistinct
  <2>2. cs[k] \in DOMAIN P /\ Opens(P, cs[k])
    BY <1>3 DEF Around
  <2>3. Else(P, cs[k]) # q
    <3>1. SUFFICES ASSUME Else(P, cs[k]) = q
                   PROVE  FALSE
      OBVIOUS
    <3>2. Level(P, q) = Level(P, cs[k]) + 1
      BY <3>1, <2>2, <1>2, ElseInside
    <3>3. Level(P, cs[k]) = k - 1 /\ Level(P, q) = Len(cs) /\ k \in Nat
      BY <1>3 DEF Around
    <3> QED
      BY <3>2, <3>3, <1>3, <1>5
  <2>4. Else(P, cs[k]) \in Nat
    BY <2>2, <1>2, ElseInside
  <2>5. (Else(P, cs[k]) >= q + 1) = (Else(P, cs[k]) >= q)
    BY <2>3, <2>4, <1>2
  <2>6. else(r)[1] = r
    BY DEF else, Block
  <2>7. else(r) \notin WaitingFor(P, cs[k], q)
    BY <2>1, <2>6, WaitingNames
  <2>8. WaitingFor(P, cs[k], q + 1) = WaitingFor(P, cs[k], q)
    BY <2>5 DEF WaitingFor
  <2> QED
    BY <2>7, <2>8
<1>6. ifcont(r) # else(r)
  BY DEF ifcont, else, Block
<1> HIDE DEF r
<1>7. {else(r), ifcont(r)} \subseteq Pending(P, cs, q)
  BY <1>3, <1>4, PendingNames DEF r
<1>8. ASSUME NEW b
      PROVE  b \in Pending(P, cs, q + 1) <=> b \in Pending(P, cs, q) /\ b # else(r)
  <2>1. b \in Pending(P, cs, q + 1) <=> \E k \in DOMAIN cs : b \in WaitingFor(P, cs[k], q + 1)
    BY PendingNames
  <2>2. b \in Pending(P, cs, q) <=> \E k \in DOMAIN cs : b \in WaitingFor(P, cs[k], q)
    BY PendingNames
  <2>3. \A k \in DOMAIN cs :
          b \in WaitingFor(P, cs[k], q + 1) <=> b \in WaitingFor(P, cs[k], q) /\ b # else(r)
    <3> TAKE k \in DOMAIN cs
    <3>1. CASE k = Len(cs)
      BY <3>1, <1>4, <1>6 DEF r
    <3>2. CASE k # Len(cs)
      BY <3>2, <1>5
    <3> QED
      BY <3>1, <3>2
  <2> QED
    BY <2>1, <2>2, <2>3
<1> QED
  BY <1>1, <1>3, <1>7, <1>8 DEF r

\* At its end, a construct waits for what is behind it only.
LEMMA PendingOutside ==
  ASSUME NEW P, IsBody(P), NEW q \in DOMAIN P, P[q].k = "end", NEW cs, Around(P, q, cs)
  PROVE  LET r == cs[Len(cs)]
             Rest == Pending(P, SubSeq(cs, 1, Len(cs) - 1), q + 1)
             Last == IF P[r].k = "while" THEN {expr(r), after(r)} ELSE {ifcont(r)} IN
         /\ Len(cs) \in DOMAIN cs /\ r \in DOMAIN P
         /\ Pending(P, cs, q) = Rest \cup Last
         /\ \A b \in Rest : b[1] # r
<1> DEFINE r == cs[Len(cs)]
           d == SubSeq(cs, 1, Len(cs) - 1)
           Last == IF P[r].k = "while" THEN {expr(r), after(r)} ELSE {ifcont(r)}
<1>1. Closed(P) /\ q \in Nat \ {0} /\ DOMAIN P = 1 .. Len(P) /\ Len(P) \in Nat /\ Level(P, q) > 0
  BY DEF IsBody, Closed
<1>2. cs # << >> /\ r \in DOMAIN P /\ q = End(P, r) /\ cs \in Seq(DOMAIN P)
  BY <1>1, AroundOutside, ZenonT(30) DEF Around
<1>3. /\ DOMAIN cs = 1 .. Len(cs) /\ Len(cs) \in DOMAIN cs /\ Len(cs) \in Nat \ {0}
      /\ DOMAIN d = 1 .. Len(cs) - 1 /\ \A k \in DOMAIN d : d[k] = cs[k] /\ k \in DOMAIN cs
  <2>1. Len(cs) \in Nat \ {0} /\ d \in Seq(DOMAIN P) /\ Len(d) = Len(cs) - 1
        /\ \A k \in 1 .. Len(cs) - 1 : d[k] = cs[k]
    BY <1>2, AllButLast
  <2>2. DOMAIN d = 1 .. Len(cs) - 1 /\ DOMAIN cs = 1 .. Len(cs)
    BY <2>1, <1>2
  <2> QED
    BY <2>1, <2>2
<1>4. WaitingFor(P, r, q) = Last
  <2>1. Opens(P, r)
    BY <1>3 DEF Around
  <2>2. Else(P, r) \in Nat /\ Else(P, r) < q
    BY <2>1, <1>1, <1>2, ElseInside
  <2>3. ~(Else(P, r) >= q)
    BY <2>2, <1>1
  <2>4. {b \in {else(r)} : Else(P, r) >= q} = {}
    BY <2>3
  <2> QED
    BY <2>4 DEF WaitingFor
<1>5. ASSUME NEW k \in DOMAIN d
      PROVE  /\ WaitingFor(P, cs[k], q + 1) = WaitingFor(P, cs[k], q) /\ cs[k] # r
  <2>1. cs[k] # r
    BY <1>3, AroundDistinct
  <2>2. cs[k] \in DOMAIN P /\ Opens(P, cs[k])
    BY <1>2, <1>3 DEF Around
  <2>3. Else(P, cs[k]) \in Nat /\ Else(P, cs[k]) # q
    BY <2>2, <1>1, ElseInside
  <2>4. (Else(P, cs[k]) >= q + 1) = (Else(P, cs[k]) >= q)
    BY <2>3, <1>1
  <2> QED
    BY <2>1, <2>4 DEF WaitingFor
<1> HIDE DEF r, d, Last
<1>6. ASSUME NEW b
      PROVE  b \in Pending(P, cs, q) <=> b \in Pending(P, d, q + 1) \/ b \in Last
  <2>1. b \in Pending(P, cs, q) <=> \E k \in DOMAIN cs : b \in WaitingFor(P, cs[k], q)
    BY PendingNames
  <2>2. b \in Pending(P, d, q + 1) <=> \E k \in DOMAIN d : b \in WaitingFor(P, d[k], q + 1)
    BY PendingNames
  <2>3. \A k \in DOMAIN cs : k \in DOMAIN d \/ k = Len(cs)
    BY <1>3
  <2> QED
    BY <2>1, <2>2, <2>3, <1>3, <1>4, <1>5 DEF r
<1>7. \A b \in Pending(P, d, q + 1) : b[1] # r
  <2> TAKE b \in Pending(P, d, q + 1)
  <2>1. PICK k \in DOMAIN d : b \in WaitingFor(P, d[k], q + 1)
    BY PendingNames
  <2> QED
    BY <2>1, <1>3, <1>5, WaitingNames
<1> QED
  BY <1>2, <1>3, <1>6, <1>7 DEF r, d, Last

-----------------------------------------------------------------------------
(* What a step does to the blocks *)

\* A closed block stays as it is.
Stays(c, d) == \A b \in DOMAIN c : ~IsOpen(c, b) => b \in DOMAIN d /\ d[b] = c[b]

\* What t leads to is there.
Leads(t, D) == \A k \in 1 .. Len(t.to) : t.to[k] \in D

LEMMA GoodTerminate ==
  ASSUME NEW P, NEW c, Good(P, c), NEW b \in DOMAIN c, NEW t \in Terminators(P), t # NoTerminator,
         Leads(t, DOMAIN c)
  PROVE  /\ Good(P, Terminate(c, b, t)) /\ DOMAIN Terminate(c, b, t) = DOMAIN c
         /\ \A x \in DOMAIN c : IsOpen(Terminate(c, b, t), x) <=> IsOpen(c, x) /\ x # b
         /\ \A x \in DOMAIN c : x # b => Terminate(c, b, t)[x] = c[x]
<1> DEFINE d == Terminate(c, b, t)
<1>1. /\ d \in [DOMAIN c -> Blocks(P)] /\ d[b].term = t
      /\ \A x \in DOMAIN c : x # b => d[x] = c[x]
  BY TerminateType DEF Good
<1> HIDE DEF d
<1>2. DOMAIN d = DOMAIN c
  BY <1>1
<1>3. ASSUME NEW x \in DOMAIN d, NEW k \in 1 .. Len(d[x].term.to)
      PROVE  d[x].term.to[k] \in DOMAIN d
  <2>1. CASE x = b
    BY <2>1, <1>1, <1>2 DEF Leads
  <2>2. CASE x # b
    BY <2>2, <1>1, <1>2 DEF Good, Linked
  <2> QED
    BY <2>1, <2>2
<1>4. Good(P, d)
  BY <1>1, <1>2, <1>3 DEF Good, Linked
<1>5. \A x \in DOMAIN c : IsOpen(d, x) <=> IsOpen(c, x) /\ x # b
  BY <1>1 DEF IsOpen
<1> QED
  BY <1>1, <1>2, <1>4, <1>5 DEF d

LEMMA GoodTerminateOpen ==
  ASSUME NEW P, NEW c, Good(P, c), NEW b \in DOMAIN c, NEW t \in Terminators(P), t # NoTerminator,
         Leads(t, DOMAIN c)
  PROVE  /\ Good(P, TerminateOpen(c, b, t)) /\ DOMAIN TerminateOpen(c, b, t) = DOMAIN c
         /\ \A x \in DOMAIN c : IsOpen(TerminateOpen(c, b, t), x) <=> IsOpen(c, x) /\ x # b
         /\ \A x \in DOMAIN c : x # b \/ ~IsOpen(c, x) => TerminateOpen(c, b, t)[x] = c[x]
<1>1. CASE IsOpen(c, b)
  <2>1. TerminateOpen(c, b, t) = Terminate(c, b, t)
    BY <1>1 DEF TerminateOpen, IsOpen
  <2> QED
    BY <2>1, <1>1, GoodTerminate
<1>2. CASE ~IsOpen(c, b)
  <2>1. TerminateOpen(c, b, t) = c
    BY <1>2 DEF TerminateOpen, IsOpen
  <2> QED
    BY <2>1, <1>2
<1> QED
  BY <1>1, <1>2

LEMMA GoodWithBlocks ==
  ASSUME NEW P, Len(P) \in Nat, Good(P, code), NEW names, names \cap DOMAIN code = {}
  PROVE  /\ Good(P, WithBlocks(names)) /\ DOMAIN WithBlocks(names) = DOMAIN code \cup names
         /\ \A x \in names : IsOpen(WithBlocks(names), x)
         /\ \A x \in DOMAIN code : WithBlocks(names)[x] = code[x]
<1> DEFINE d == WithBlocks(names)
<1>1. /\ d \in [DOMAIN code \cup names -> Blocks(P)]
      /\ \A x \in DOMAIN code : d[x] = code[x]
      /\ \A x \in names : IsOpen(d, x)
  BY WithBlocksType DEF Good
<1> HIDE DEF d
<1>2. DOMAIN d = DOMAIN code \cup names
  BY <1>1
<1>3. ASSUME NEW x \in DOMAIN d, NEW k \in 1 .. Len(d[x].term.to)
      PROVE  d[x].term.to[k] \in DOMAIN d
  <2>1. CASE x \in DOMAIN code
    BY <2>1, <1>1, <1>2 DEF Good, Linked
  <2>2. CASE x \in names
    <3>1. d[x].term.to = << >>
      BY <2>2, <1>1 DEF IsOpen, NoTerminator
    <3> QED
      BY <3>1
  <2> QED
    BY <2>1, <2>2, <1>2
<1>4. Good(P, d)
  BY <1>1, <1>2, <1>3 DEF Good, Linked
<1> QED
  BY <1>1, <1>2, <1>4 DEF d

\* A step from q to q2 that makes the blocks `fresh' and closes `filled', and the
\* construct it enters or leaves.
EmitsInOrder(P, q, cs, c, ins, q2, cs2, d, ins2, fresh, filled) ==
  /\ q \in Nat /\ q2 \in Nat /\ q < q2
  /\ \A b \in DOMAIN c : b[1] \in Nat
  /\ \A b \in fresh : b[1] = q
  /\ DOMAIN d = DOMAIN c \cup fresh /\ ins2 \in DOMAIN d
  /\ ins \in filled \cup {ins2}
  /\ \A b \in DOMAIN c : IsOpen(d, b) <=> IsOpen(c, b) /\ b \notin filled
  /\ \A b \in fresh : IsOpen(d, b) <=> b \notin filled
  /\ Pending(P, cs2, q2) = ((Pending(P, cs, q) \cup fresh) \ filled) \ {ins2}
  /\ \A k \in DOMAIN cs2 : P[cs2[k]].k = "while" => cond(cs2[k]) \in DOMAIN d

LEMMA EmittedStep ==
  ASSUME NEW P, NEW q, NEW cs, NEW c, NEW ins, NEW loops, Emitted(P, cs, q, c, ins, loops),
         NEW q2, NEW cs2, NEW d, NEW ins2, NEW loops2, NEW fresh, NEW filled,
         EmitsInOrder(P, q, cs, c, ins, q2, cs2, d, ins2, fresh, filled),
         \A k \in DOMAIN loops2 : {expr(loops2[k]), after(loops2[k])} \subseteq DOMAIN d
  PROVE  Emitted(P, cs2, q2, d, ins2, loops2)
<1> USE DEF EmitsInOrder
<1>1. /\ \A b \in DOMAIN c : b[1] < q
      /\ Pending(P, cs, q) \subseteq DOMAIN c
      /\ \A b \in Pending(P, cs, q) : IsOpen(c, b) /\ b # ins
      /\ \A b \in DOMAIN c : IsOpen(c, b) => b = ins \/ b \in Pending(P, cs, q)
  BY DEF Emitted
<1>2. \A b \in DOMAIN d : b[1] < q2
  BY <1>1
<1>3. Pending(P, cs2, q2) \subseteq DOMAIN d
  BY <1>1
<1>4. \A b \in Pending(P, cs2, q2) : IsOpen(d, b) /\ b # ins2
  BY <1>1
<1>5. \A b \in DOMAIN d : IsOpen(d, b) => b = ins2 \/ b \in Pending(P, cs2, q2)
  BY <1>1
<1> QED
  BY <1>2, <1>3, <1>4, <1>5 DEF Emitted

-----------------------------------------------------------------------------
(* The invariant, taken apart and put together *)

LEMMA BodyNow ==
  ASSUME TypeOK
  PROVE  /\ IsBody(Body) /\ Closed(Body) /\ Len(Body) \in Nat /\ DOMAIN Body = 1 .. Len(Body)
         /\ prog.ret \in Types /\ Names = BlockNames(Body)
<1>1. IsBody(Body) /\ prog.ret \in Types
  BY BodyFacts DEF TypeOK, Body
<1> QED
  BY <1>1 DEF IsBody, Closed, Names, BlockNames

LEMMA AtCodegen ==
  ASSUME CodeInv, pc = "codegen"
  PROVE  /\ p \in 1 .. Len(Body) + 1 /\ Around(Body, p, calls)
         /\ calls \in Seq(1 .. Len(Body)) /\ loopStack \in Seq(1 .. Len(Body))
         /\ Good(Body, code) /\ DOMAIN code \subseteq BlockNames(Body) /\ insert \in DOMAIN code
         /\ Emitted(Body, calls, p, code, insert, loopStack)
         /\ i = 1
BY BodyNow DEF CodeInv, TypeOK, WalkInv, CodeTypes, EmitInv, Good, Bottom, Compiling

\* At the bottom nothing is running.
LEMMA NoCallsAtBottom ==
  ASSUME TypeOK, Around(Body, p, calls), ~AtToken
  PROVE  p = Bottom(Body) /\ calls = << >>
<1>1. p = Len(Body) + 1
  BY BodyNow DEF AtToken, TypeOK, Bottom
<1>2. Level(Body, p) = 0
  BY <1>1, BodyNow DEF Closed
<1>3. calls \in Seq(DOMAIN Body) /\ Len(calls) = 0
  BY <1>2 DEF Around
<1> QED
  BY <1>1, <1>3 DEF Bottom

LEMMA CodegenKeeps ==
  ASSUME CodeInv, pc = "codegen", prog' = prog, i' = i, checkVars' = checkVars, pc' = pc,
         p' \in 1 .. Len(Body) + 1, Around(Body, p', calls'),
         loopStack' \in Seq(1 .. Len(Body)),
         Good(Body, code'), DOMAIN code' \subseteq BlockNames(Body), insert' \in DOMAIN code',
         Emitted(Body, calls', p', code', insert', loopStack')
  PROVE  CodeInv'
<1>1. Body' = Body /\ Names' = Names /\ Names = BlockNames(Body) /\ DOMAIN Body = 1 .. Len(Body)
  BY BodyNow DEF CodeInv, Body, Names
<1>2. i' = 1 /\ code'[insert'].insts \in Seq(1 .. Len(Body))
  BY AtCodegen DEF Good, Blocks
<1>3. calls' \in Seq(1 .. Len(Body))
  BY <1>1 DEF Around
<1>4. i' \in 1 .. Len(code'[insert'].insts) + 1
  BY <1>2
<1>5. TypeOK'
  BY <1>1, <1>3, <1>4 DEF CodeInv, TypeOK, checkVars, Bottom
<1>6. WalkInv'
  BY <1>1 DEF WalkInv
<1>7. CodeTypes'
  BY <1>1, <1>2 DEF CodeTypes, Good
<1>8. EmitInv'
  BY <1>1 DEF EmitInv
<1> QED
  BY <1>5, <1>6, <1>7, <1>8 DEF CodeInv

-----------------------------------------------------------------------------
(* The semantic pass *)

LEMMA InitCode == Init => CodeInv
<1> SUFFICES ASSUME Init
             PROVE  CodeInv
  OBVIOUS
<1>1. IsBody(Body) /\ Closed(Body) /\ Len(Body) \in Nat /\ DOMAIN Body = 1 .. Len(Body) /\ type \in Types
  BY BodyFacts DEF Init, CheckInit, Body, IsBody, Closed
<1>2. NewBlock \in Blocks(Body) /\ NewBlock.term = NoTerminator /\ NewBlock.insts = << >>
  <2>1. << >> \in Seq(1 .. Len(Body)) /\ NoTerminator \in Terminators(Body)
    BY <1>1, TerminatorTypes
  <2> QED
    BY <2>1 DEF NewBlock, Blocks
<1> HIDE DEF NewBlock
<1>3. DOMAIN code = {entry} /\ code[entry] = NewBlock /\ insert = entry /\ loopStack = << >> /\ i = 1
  BY DEF Init
<1>4. entry \in Names
  BY <1>1 DEF entry, Block, Names
<1>5. 1 \in 1 .. Bottom(Body)
  BY <1>1 DEF Bottom
<1>6. TypeOK
  BY <1>1, <1>2, <1>3, <1>4, <1>5 DEF TypeOK, Init, CheckInit, Compiling
<1>7. WalkInv
  BY NoneAround, CountNone DEF WalkInv, Init, CheckInit
<1>8. Linked(code)
  <2>1. code[entry].term.to = << >>
    BY <1>2, <1>3 DEF NoTerminator
  <2> QED
    BY <1>3, <2>1 DEF Linked
<1>9. CodeTypes
  BY <1>2, <1>3, <1>8 DEF CodeTypes, Good, Init, Body
<1>10. EmitInv
  BY <1>3 DEF EmitInv, Init, CheckInit
<1> QED
  BY <1>6, <1>7, <1>9, <1>10 DEF CodeInv

\* The statements: one token on.
LEMMA StatementsKeep ==
  ASSUME CodeInv, pc = "check", AtToken, pc' = pc, prog' = prog, p' = p + 1,
         UNCHANGED <<code, insert, loopStack, i>>,
         Around(Body, p + 1, calls'), g_in_loop' = Count(Body, calls', {"while"}),
         errors' \in {errors, errors \cup {"SEM_BREAK_OUTSIDE_LOOP"},
                      errors \cup {"SEM_RETURN_TYPE_MISMATCH"}},
         type' \in Types, fn_name' \in BOOLEAN
  PROVE  CodeInv'
<1>1. Body' = Body /\ Names' = Names /\ DOMAIN Body = 1 .. Len(Body) /\ Len(Body) \in Nat
  BY BodyNow DEF CodeInv, Body, Names
<1>2. p' \in 1 .. Bottom(Body)
  BY <1>1 DEF CodeInv, TypeOK, AtToken, Bottom
<1>3. calls' \in Seq(1 .. Len(Body))
  BY <1>1 DEF Around
<1>4. g_in_loop' \in Nat
  BY <1>3, CountType
<1>5. TypeOK'
  BY <1>1, <1>2, <1>3, <1>4 DEF CodeInv, TypeOK
<1>6. WalkInv'
  BY <1>1 DEF WalkInv
<1>7. CodeTypes'
  BY <1>1 DEF CodeInv, CodeTypes
<1>8. EmitInv'
  BY <1>1 DEF CodeInv, EmitInv
<1> QED
  BY <1>5, <1>6, <1>7, <1>8 DEF CodeInv

LEMMA SemanticKeeps ==
  ASSUME CodeInv, SemanticPass, UNCHANGED <<code, insert, loopStack, i>>
  PROVE  CodeInv'
<1>1. /\ IsBody(Body) /\ Closed(Body) /\ Len(Body) \in Nat /\ DOMAIN Body = 1 .. Len(Body)
      /\ prog.ret \in Types
  BY BodyNow DEF CodeInv
<1>2. ASSUME pc = "check"
      PROVE  /\ Around(Body, p, calls) /\ g_in_loop = Count(Body, calls, {"while"})
             /\ calls \in Seq(1 .. Len(Body))
  BY <1>2 DEF CodeInv, WalkInv, TypeOK
<1>3. ASSUME pc = "check", AtToken
      PROVE  p \in DOMAIN Body
  BY <1>1, <1>3 DEF CodeInv, TypeOK, AtToken
<1>4. type \in Types /\ fn_name \in BOOLEAN
  BY DEF CodeInv, TypeOK
<1>5. CASE check_if
  <2>1. pc = "check" /\ AtToken /\ Body[p].k = "if" /\ Opens(Body, p)
    BY <1>5 DEF check_if, Check, Token, Opens, Openers
  <2>2. Around(Body, p + 1, Append(calls, p)) /\ Count(Body, Append(calls, p), {"while"}) = g_in_loop + 0
    BY <1>1, <1>2, <1>3, <2>1, AroundInside, CountCall
  <2>3. g_in_loop \in Nat
    BY DEF CodeInv, TypeOK
  <2> QED
    BY <1>4, <1>5, <2>1, <2>2, <2>3, StatementsKeep DEF check_if, Forward, Enter, checkVars
<1>6. CASE check_while_loop
  <2>1. pc = "check" /\ AtToken /\ Body[p].k = "while" /\ Opens(Body, p)
    BY <1>6 DEF check_while_loop, Check, Token, Opens, Openers
  <2>2. Around(Body, p + 1, Append(calls, p)) /\ Count(Body, Append(calls, p), {"while"}) = g_in_loop + 1
    BY <1>1, <1>2, <1>3, <2>1, AroundInside, CountCall
  <2> QED
    BY <1>4, <1>6, <2>1, <2>2, StatementsKeep DEF check_while_loop, Forward, Enter
<1>7. CASE check_end
  <2>1. pc = "check" /\ AtToken /\ Body[p].k = "end"
    BY <1>7 DEF check_end, Check, Token
  <2>2. Level(Body, p) > 0
    BY <1>1, <1>3, <2>1 DEF IsBody
  <2>3. /\ calls # << >> /\ Around(Body, p + 1, SubSeq(calls, 1, Len(calls) - 1))
    BY <1>1, <1>2, <1>3, <2>1, <2>2, AroundOutside
  <2>4. Count(Body, SubSeq(calls, 1, Len(calls) - 1), {"while"})
          = g_in_loop - (IF Caller = "while" THEN 1 ELSE 0)
    BY <1>2, <2>1, <2>3, CountReturn DEF Caller
  <2>5. g_in_loop \in Nat
    BY DEF CodeInv, TypeOK
  <2>6. g_in_loop' = Count(Body, SubSeq(calls, 1, Len(calls) - 1), {"while"})
    BY <1>7, <2>4, <2>5 DEF check_end
  <2> QED
    BY <1>4, <1>7, <2>1, <2>3, <2>6, StatementsKeep DEF check_end, Forward, Leave
<1>8. ASSUME pc = "check", AtToken, Body[p].k \in {"do", "else", "break", "continue", "ret"}
      PROVE  Around(Body, p + 1, calls)
  BY <1>1, <1>2, <1>3, <1>8, AroundNext DEF Opens, Openers
<1>9. CASE check_statement
  <2>1. pc = "check" /\ AtToken /\ Body[p].k \in {"do", "else"}
    BY <1>9 DEF check_statement, Check, Token
  <2> QED
    BY <1>2, <1>4, <1>8, <1>9, <2>1, StatementsKeep DEF check_statement, Forward, checkVars
<1>10. CASE check_unconditional_branches
  <2>1. pc = "check" /\ AtToken /\ Body[p].k \in {"break", "continue"}
    BY <1>10 DEF check_unconditional_branches, Check, Token
  <2>2. errors' \in {errors, errors \cup {"SEM_BREAK_OUTSIDE_LOOP"}}
    BY <1>10 DEF check_unconditional_branches, Error
  <2> QED
    BY <1>2, <1>4, <1>8, <1>10, <2>1, <2>2, StatementsKeep DEF check_unconditional_branches,
       Forward
<1>11. CASE ret
  <2>1. pc = "check" /\ AtToken /\ Body[p].k = "ret"
    BY <1>11 DEF ret, Check, Token
  <2>2. Typed(Token.value, g_current_fn_ret_type) \in Types
    BY <1>1, <1>3, <2>1, TypedType DEF IsBody, Token, g_current_fn_ret_type
  <2>3. type' \in {type, Typed(Token.value, g_current_fn_ret_type)}
    BY <1>11 DEF ret
  <2>4. fn_name' \in {fn_name, FALSE}
    BY <1>11 DEF ret
  <2>5. errors' \in {errors, errors \cup {"SEM_RETURN_TYPE_MISMATCH"}}
    BY <1>11 DEF ret, Error
  <2>6. pc' = pc /\ prog' = prog /\ p' = p + 1 /\ calls' = calls /\ g_in_loop' = g_in_loop
    BY <1>11 DEF ret, Forward
  <2> QED
    BY <1>2, <1>4, <1>8, <2>1, <2>2, <2>3, <2>4, <2>5, <2>6, StatementsKeep
<1>12. CASE handle_fn
  <2>1. pc = "check" /\ ~AtToken /\ p' = 1 /\ prog' = prog /\ calls' = calls
        /\ type' = type /\ fn_name' = fn_name /\ g_in_loop' = g_in_loop
    BY <1>12 DEF handle_fn
  <2>2. calls = << >>
    BY <1>2, <2>1, NoCallsAtBottom DEF CodeInv
  <2>3. pc' \in {"crashed", "rejected", "codegen"}
        /\ errors' \in {errors, errors \cup {"SEM_RETURN_TYPE_MISMATCH"}}
    BY <1>12 DEF handle_fn, Error
  <2>4. Body' = Body /\ Names' = Names
    BY <2>1 DEF Body, Names
  <2>5. TypeOK'
    BY <1>1, <2>1, <2>3, <2>4 DEF CodeInv, TypeOK, Compiling, Refused, Bottom
  <2>6. WalkInv'
    BY <2>1, <2>2, <2>3, NoneAround DEF WalkInv
  <2>7. CodeTypes'
    BY <2>1, <2>4 DEF CodeInv, CodeTypes, Compiling
  <2>8. DOMAIN code = {entry} /\ insert = entry /\ loopStack = << >> /\ entry[1] = 0
    BY <2>1 DEF CodeInv, EmitInv, entry, Block
  <2>9. Pending(Body, << >>, 1) = {}
    BY PendingNames
  <2>10. Emitted(Body, << >>, 1, code, insert, << >>)
    BY <2>8, <2>9 DEF Emitted
  <2>11. EmitInv'
    BY <2>1, <2>2, <2>3, <2>4, <2>8, <2>10 DEF EmitInv
  <2> QED
    BY <2>5, <2>6, <2>7, <2>11 DEF CodeInv
<1> QED
  BY <1>5, <1>6, <1>7, <1>9, <1>10, <1>11, <1>12 DEF SemanticPass

-----------------------------------------------------------------------------
(* Code generation, statement by statement *)

LEMMA OwnBlocks ==
  ASSUME NEW P, NEW q \in 0 .. Len(P)
  PROVE  /\ {then(q), else(q), ifcont(q), cond(q), body(q), expr(q), after(q)} \subseteq BlockNames(P)
         /\ \A b \in {then(q), else(q), ifcont(q), cond(q), body(q), expr(q), after(q)} : b[1] = q
         /\ then(q) \notin {else(q), ifcont(q)} /\ else(q) # ifcont(q)
         /\ cond(q) \notin {body(q), expr(q), after(q)} /\ body(q) \notin {expr(q), after(q)}
         /\ expr(q) # after(q)
BY DEF then, else, ifcont, cond, body, expr, after, Block, BlockNames

\* The blocks made so far belong to constructs in front of p.
LEMMA BlocksBefore ==
  ASSUME CodeInv, pc = "codegen"
  PROVE  \A b \in DOMAIN code : b[1] \in Nat /\ b[1] < p
<1>1. \A b \in DOMAIN code : b \in BlockNames(Body) /\ b[1] < p
  BY AtCodegen DEF Emitted
<1> QED
  BY <1>1 DEF BlockNames

\* What is common to all tokens.
LEMMA TokenFacts ==
  ASSUME CodeInv, pc = "codegen", AtToken
  PROVE  /\ p \in DOMAIN Body /\ p \in 1 .. Len(Body) /\ p \in Nat /\ p + 1 \in 1 .. Len(Body) + 1
         /\ p \in 0 .. Bottom(Body) /\ Token.k \in BodyKinds
BY BodyNow DEF CodeInv, TypeOK, AtToken, Token, IsBody, Bottom

LEMMA SkipKeeps ==
  ASSUME CodeInv, skip
  PROVE  CodeInv' /\ Stays(code, code')
<1>1. pc = "codegen" /\ AtToken /\ Body[p].k \notin {"else", "end"}
  BY DEF skip, Token
<1>2. p \in DOMAIN Body /\ p \in Nat /\ IsBody(Body) /\ Closed(Body)
  BY <1>1, TokenFacts, BodyNow DEF CodeInv
<1>3. /\ Behind(Body, p) \in 1 .. Len(Body) + 1 /\ p < Behind(Body, p)
      /\ Around(Body, Behind(Body, p), calls)
      /\ Pending(Body, calls, Behind(Body, p)) = Pending(Body, calls, p)
  BY <1>1, <1>2, AtCodegen, LevelBehind, AroundBehind, PendingBehind
<1>4. Behind(Body, p) \in Nat
  BY <1>3, BodyNow DEF CodeInv
<1>5. Emitted(Body, calls, Behind(Body, p), code, insert, loopStack)
  <2>1. Emitted(Body, calls, p, code, insert, loopStack)
    BY <1>1, AtCodegen
  <2>2. \A b \in DOMAIN code : b[1] < Behind(Body, p)
    BY <1>1, <1>2, <1>3, <1>4, BlocksBefore
  <2> QED
    BY <2>1, <2>2, <1>3 DEF Emitted
<1>6. CodeInv'
  BY <1>1, <1>3, <1>5, AtCodegen, CodegenKeeps DEF skip, Semantic
<1> QED
  BY <1>6 DEF skip, Stays

\* A statement that is emitted into the insertion block.
LEMMA PlainKeeps ==
  ASSUME CodeInv, pc = "codegen", AtToken, Token.k \in {"do", "ret", "break", "continue"}, Forward,
         UNCHANGED <<calls, insert, loopStack, i>>, Semantic,
         Good(Body, code'), DOMAIN code' = DOMAIN code,
         \A b \in DOMAIN code : b # insert => (IsOpen(code', b) <=> IsOpen(code, b))
  PROVE  CodeInv'
<1>1. p \in DOMAIN Body /\ p \in Nat /\ IsBody(Body) /\ Closed(Body) /\ p + 1 \in 1 .. Len(Body) + 1
  BY TokenFacts, BodyNow DEF CodeInv
<1>2. Body[p].k \notin {"else", "end"} /\ ~Opens(Body, p)
  BY DEF Token, Opens, Openers
<1>3. Around(Body, p + 1, calls) /\ Pending(Body, calls, p + 1) = Pending(Body, calls, p)
  BY <1>1, <1>2, AtCodegen, AroundNext, PendingBehind DEF Behind
<1>4. Emitted(Body, calls, p, code, insert, loopStack)
  BY AtCodegen
<1>5. Emitted(Body, calls, p + 1, code', insert, loopStack)
  <2>1. \A b \in DOMAIN code : b[1] < p + 1
    BY <1>1, BlocksBefore
  <2> QED
    BY <2>1, <1>3, <1>4 DEF Emitted
<1> QED
  BY <1>1, <1>3, <1>5, AtCodegen, CodegenKeeps DEF Forward, Semantic

LEMMA StatementKeeps ==
  ASSUME CodeInv, emit_statement
  PROVE  CodeInv' /\ Stays(code, code')
<1>1. pc = "codegen" /\ AtToken /\ Token.k = "do" /\ IsOpen(code, insert)
  BY DEF emit_statement, AtStatement, blockTerminated, IsOpen
<1>2. p \in 1 .. Len(Body) /\ Good(Body, code) /\ insert \in DOMAIN code
  BY <1>1, TokenFacts, AtCodegen
<1> DEFINE x == [code[insert] EXCEPT !.insts = Append(code[insert].insts, p)]
<1>3. code[insert] \in Blocks(Body)
  BY <1>2 DEF Good
<1>4. x \in Blocks(Body) /\ x.term = code[insert].term
  <2>1. Append(code[insert].insts, p) \in Seq(1 .. Len(Body))
    BY <1>2, <1>3 DEF Blocks
  <2> QED
    BY <2>1, <1>3 DEF Blocks
<1>5. code' = [code EXCEPT ![insert] = x]
  BY DEF emit_statement
<1> HIDE DEF x
<1>6. /\ code' \in [DOMAIN code -> Blocks(Body)] /\ DOMAIN code' = DOMAIN code
      /\ \A b \in DOMAIN code : code'[b].term = code[b].term
      /\ \A b \in DOMAIN code : b # insert => code'[b] = code[b]
  BY <1>2, <1>4, <1>5 DEF Good
<1>7. Good(Body, code')
  BY <1>2, <1>6 DEF Good, Linked
<1>8. \A b \in DOMAIN code : IsOpen(code', b) <=> IsOpen(code, b)
  BY <1>6 DEF IsOpen
<1>9. CodeInv'
  BY <1>1, <1>6, <1>7, <1>8, PlainKeeps DEF emit_statement
<1> QED
  BY <1>1, <1>6, <1>9 DEF Stays

LEMMA ReturnKeeps ==
  ASSUME CodeInv, emit_return
  PROVE  CodeInv' /\ Stays(code, code')
<1>1. pc = "codegen" /\ AtToken /\ Token.k = "ret" /\ IsOpen(code, insert)
  BY DEF emit_return, AtStatement, blockTerminated, IsOpen
<1>2. Good(Body, code) /\ insert \in DOMAIN code
  BY <1>1, AtCodegen
<1>3. Ret(p) \in Terminators(Body) /\ Ret(p) # NoTerminator /\ Leads(Ret(p), DOMAIN code)
  BY <1>1, TokenFacts, TerminatorTypes, BodyNow DEF CodeInv, Ret, Leads
<1>4. code' = Terminate(code, insert, Ret(p))
  BY DEF emit_return
<1>5. /\ Good(Body, code') /\ DOMAIN code' = DOMAIN code
      /\ \A b \in DOMAIN code : IsOpen(code', b) <=> IsOpen(code, b) /\ b # insert
      /\ \A b \in DOMAIN code : b # insert => code'[b] = code[b]
  BY <1>2, <1>3, <1>4, GoodTerminate
<1>6. CodeInv'
  BY <1>1, <1>5, PlainKeeps DEF emit_return
<1> QED
  BY <1>1, <1>5, <1>6 DEF Stays

LEMMA JumpKeeps ==
  ASSUME CodeInv, emit_jump
  PROVE  CodeInv' /\ Stays(code, code')
<1> DEFINE loop == loopStack[Len(loopStack)]
           to == IF Token.k = "break" THEN after(loop) ELSE expr(loop)
<1>1. pc = "codegen" /\ AtToken /\ Token.k \in {"break", "continue"} /\ IsOpen(code, insert)
  BY DEF emit_jump, AtStatement, blockTerminated, IsOpen
<1>2. Good(Body, code) /\ insert \in DOMAIN code /\ DOMAIN code \subseteq BlockNames(Body)
  BY <1>1, AtCodegen
<1>3. CASE loopStack = << >>
  <2>1. code' = code
    BY <1>3 DEF emit_jump
  <2>2. CodeInv'
    BY <1>1, <1>2, <2>1, PlainKeeps DEF emit_jump
  <2> QED
    BY <2>1, <2>2 DEF Stays
<1>4. CASE loopStack # << >>
  <2>1. code' = Terminate(code, insert, Br(to))
    BY <1>4 DEF emit_jump
  <2>2. to \in DOMAIN code
    <3>1. loopStack \in Seq(1 .. Len(Body)) /\ Len(loopStack) \in DOMAIN loopStack
      BY <1>1, <1>4, AtCodegen
    <3>2. {expr(loop), after(loop)} \subseteq DOMAIN code
      BY <1>1, <3>1, AtCodegen DEF Emitted
    <3> QED
      BY <3>2
  <2> HIDE DEF to
  <2>3. Br(to) \in Terminators(Body) /\ Br(to) # NoTerminator /\ Leads(Br(to), DOMAIN code)
    BY <1>2, <2>2, TerminatorTypes, BodyNow DEF CodeInv, Br, Leads
  <2>4. /\ Good(Body, code') /\ DOMAIN code' = DOMAIN code
        /\ \A b \in DOMAIN code : IsOpen(code', b) <=> IsOpen(code, b) /\ b # insert
        /\ \A b \in DOMAIN code : b # insert => code'[b] = code[b]
    BY <1>2, <2>1, <2>3, GoodTerminate
  <2>5. CodeInv'
    BY <1>1, <2>4, PlainKeeps DEF emit_jump
  <2> QED
    BY <1>1, <2>4, <2>5 DEF Stays
<1> QED
  BY <1>3, <1>4

\* What is running after a construct was entered or left.
LEMMA Entered ==
  ASSUME CodeInv, pc = "codegen", AtToken, Opens(Body, p)
  PROVE  LET d == Append(calls, p) IN
         /\ Around(Body, p + 1, d)
         /\ Pending(Body, d, p + 1) = Pending(Body, calls, p) \cup WaitingFor(Body, p, p + 1)
         /\ \A k \in DOMAIN d : d[k] = p \/ (k \in DOMAIN calls /\ d[k] = calls[k])
<1>1. p \in DOMAIN Body /\ IsBody(Body) /\ Closed(Body) /\ Around(Body, p, calls)
  BY TokenFacts, BodyNow, AtCodegen DEF CodeInv
<1>2. calls \in Seq(1 .. Len(Body))
  BY AtCodegen
<1>3. \A k \in DOMAIN Append(calls, p) :
        Append(calls, p)[k] = p \/ (k \in DOMAIN calls /\ Append(calls, p)[k] = calls[k])
  BY <1>2
<1> QED
  BY <1>1, <1>3, AroundInside, PendingInside

LEMMA IfKeeps ==
  ASSUME CodeInv, emit_if
  PROVE  CodeInv' /\ Stays(code, code')
<1> DEFINE no == IF Else(Body, p) # 0 THEN else(p) ELSE ifcont(p)
           names == {then(p), no, ifcont(p)}
           t == CondBr(p, then(p), no)
           more == WithBlocks(names)
           d == Append(calls, p)
<1>1. pc = "codegen" /\ AtToken /\ Token.k = "if" /\ IsOpen(code, insert) /\ Opens(Body, p)
  BY DEF emit_if, AtStatement, blockTerminated, IsOpen, Opens, Openers, Token
<1>2. /\ Good(Body, code) /\ insert \in DOMAIN code /\ DOMAIN code \subseteq BlockNames(Body)
      /\ Emitted(Body, calls, p, code, insert, loopStack) /\ loopStack \in Seq(1 .. Len(Body))
  BY <1>1, AtCodegen
<1>3. /\ p \in DOMAIN Body /\ p \in 0 .. Len(Body) /\ p \in 0 .. Bottom(Body) /\ p \in Nat
      /\ p + 1 \in 1 .. Len(Body) + 1 /\ Len(Body) \in Nat /\ Closed(Body) /\ IsBody(Body)
  BY <1>1, TokenFacts, BodyNow DEF CodeInv
<1>4. /\ names \subseteq BlockNames(Body) /\ \A b \in names : b[1] = p
      /\ then(p) # ifcont(p) /\ then(p) # no /\ else(p) # ifcont(p)
  BY <1>3, OwnBlocks
<1>5. names \cap DOMAIN code = {} /\ \A b \in DOMAIN code : b[1] \in Nat
  BY <1>1, <1>3, <1>4, BlocksBefore
<1>6. Else(Body, p) = 0 \/ (Else(Body, p) \in Nat /\ Else(Body, p) > p)
  BY <1>1, <1>3, ElseInside
<1>7. WaitingFor(Body, p, p + 1) = names \ {then(p)}
  <2>1. Body[p].k # "while"
    BY <1>1 DEF Token
  <2>2. WaitingFor(Body, p, p + 1) = {ifcont(p)} \cup {b \in {else(p)} : Else(Body, p) >= p + 1}
    BY <2>1 DEF WaitingFor
  <2>3. CASE Else(Body, p) = 0
    <3>1. ~(Else(Body, p) >= p + 1)
      BY <2>3, <1>3
    <3> QED
      BY <3>1, <2>2, <2>3, <1>4
  <2>4. CASE Else(Body, p) # 0
    <3>1. Else(Body, p) >= p + 1
      BY <2>4, <1>3, <1>6
    <3> QED
      BY <3>1, <2>2, <2>4, <1>4
  <2> QED
    BY <2>3, <2>4
<1> HIDE DEF no
<1>8. /\ Good(Body, more) /\ DOMAIN more = DOMAIN code \cup names
      /\ \A x \in names : IsOpen(more, x)
      /\ \A x \in DOMAIN code : more[x] = code[x]
  BY <1>2, <1>3, <1>5, GoodWithBlocks
<1>9. t \in Terminators(Body) /\ t # NoTerminator /\ Leads(t, DOMAIN more)
  <2>1. t \in Terminators(Body) /\ t # NoTerminator
    BY <1>3, <1>4, TerminatorTypes
  <2>2. \A k \in 1 .. Len(t.to) : t.to[k] \in {then(p), no}
    BY DEF CondBr
  <2> QED
    BY <2>1, <2>2, <1>8 DEF Leads
<1>10. code' = Terminate(more, insert, t) /\ insert' = then(p)
  BY DEF emit_if, no
<1> HIDE DEF more, names, t
<1>11. /\ Good(Body, code') /\ DOMAIN code' = DOMAIN more
       /\ \A x \in DOMAIN more : IsOpen(code', x) <=> IsOpen(more, x) /\ x # insert
       /\ \A x \in DOMAIN more : x # insert => code'[x] = more[x]
  BY <1>2, <1>8, <1>9, <1>10, GoodTerminate, SMTT(30)
<1>12. then(p) \in names /\ ifcont(p) \in names /\ insert \notin names
  BY <1>2, <1>5 DEF names
<1>13. /\ Around(Body, p + 1, d)
       /\ Pending(Body, d, p + 1) = Pending(Body, calls, p) \cup WaitingFor(Body, p, p + 1)
       /\ \A k \in DOMAIN d : d[k] = p \/ (k \in DOMAIN calls /\ d[k] = calls[k])
  BY <1>1, Entered
<1> HIDE DEF d
<1>14. Pending(Body, d, p + 1)
         = ((Pending(Body, calls, p) \cup names) \ {insert}) \ {then(p)}
  <2>1. Pending(Body, calls, p) \subseteq DOMAIN code /\ insert \notin Pending(Body, calls, p)
    BY <1>2 DEF Emitted
  <2> QED
    BY <2>1, <1>5, <1>7, <1>12, <1>13
<1>15. Emitted(Body, d, p + 1, code', then(p), loopStack)
  <2>1. \A b \in DOMAIN code : IsOpen(code', b) <=> IsOpen(code, b) /\ b \notin {insert}
    BY <1>8, <1>11 DEF IsOpen
  <2>2. \A b \in names : IsOpen(code', b) <=> b \notin {insert}
    BY <1>8, <1>11
  <2>3. \A k \in DOMAIN d : Body[d[k]].k = "while" => cond(d[k]) \in DOMAIN code'
    BY <1>1, <1>2, <1>8, <1>11, <1>13 DEF Emitted, Token
  <2>4. \A k \in DOMAIN loopStack : {expr(loopStack[k]), after(loopStack[k])} \subseteq DOMAIN code'
    BY <1>2, <1>8, <1>11 DEF Emitted
  <2>5. p < p + 1 /\ p + 1 \in Nat /\ then(p) \in DOMAIN code' /\ \A b \in names : b[1] = p
    BY <1>3, <1>4, <1>8, <1>11, <1>12
  <2>6. DOMAIN code' = DOMAIN code \cup names
    BY <1>8, <1>11
  <2>7. EmitsInOrder(Body, p, calls, code, insert, p + 1, d, code', then(p), names, {insert})
    BY <2>1, <2>2, <2>3, <2>5, <2>6, <1>3, <1>5, <1>14 DEF EmitsInOrder
  <2> QED
    BY <2>4, <2>7, <1>2, EmittedStep
<1>16. CodeInv'
  <2>1. calls' = d /\ p' = p + 1 /\ prog' = prog /\ pc' = pc /\ loopStack' = loopStack /\ i' = i
        /\ checkVars' = checkVars
    BY DEF emit_if, Enter, Forward, Semantic, d
  <2>2. DOMAIN code' \subseteq BlockNames(Body) /\ insert' \in DOMAIN code'
    BY <1>2, <1>4, <1>8, <1>10, <1>11, <1>12
  <2> QED
    BY <2>1, <2>2, <1>1, <1>2, <1>3, <1>10, <1>11, <1>13, <1>15, CodegenKeeps
<1> QED
  BY <1>1, <1>8, <1>11, <1>16 DEF Stays

LEMMA ElseKeeps ==
  ASSUME CodeInv, emit_else
  PROVE  CodeInv' /\ Stays(code, code')
<1> DEFINE r == calls[Len(calls)]
           t == Br(ifcont(r))
<1>1. pc = "codegen" /\ AtToken /\ Body[p].k = "else" /\ ~Opens(Body, p)
  BY DEF emit_else, AtPart, Opens, Openers, Token
<1>2. /\ Good(Body, code) /\ insert \in DOMAIN code /\ DOMAIN code \subseteq BlockNames(Body)
      /\ Emitted(Body, calls, p, code, insert, loopStack) /\ loopStack \in Seq(1 .. Len(Body))
      /\ Around(Body, p, calls)
  BY <1>1, AtCodegen
<1>3. /\ p \in DOMAIN Body /\ p \in Nat /\ p + 1 \in 1 .. Len(Body) + 1 /\ Len(Body) \in Nat
      /\ Closed(Body) /\ IsBody(Body) /\ p + 1 \in Nat /\ p < p + 1
  BY <1>1, TokenFacts, BodyNow DEF CodeInv
<1>4. /\ {else(r), ifcont(r)} \subseteq Pending(Body, calls, p)
      /\ Pending(Body, calls, p + 1) = Pending(Body, calls, p) \ {else(r)}
  BY <1>1, <1>2, <1>3, PendingElse
<1>5. /\ {else(r), ifcont(r)} \subseteq DOMAIN code /\ insert \notin Pending(Body, calls, p)
  BY <1>2, <1>4 DEF Emitted
<1>6. t \in Terminators(Body) /\ t # NoTerminator /\ Leads(t, DOMAIN code)
  BY <1>2, <1>3, <1>5, TerminatorTypes DEF Br, Leads
<1>7. code' = TerminateOpen(code, insert, t) /\ insert' = else(r)
  BY DEF emit_else, Running
<1> HIDE DEF t
<1>8. /\ Good(Body, code') /\ DOMAIN code' = DOMAIN code
      /\ \A x \in DOMAIN code : IsOpen(code', x) <=> IsOpen(code, x) /\ x # insert
      /\ \A x \in DOMAIN code : x # insert \/ ~IsOpen(code, x) => code'[x] = code[x]
  BY <1>2, <1>6, <1>7, GoodTerminateOpen
<1> HIDE DEF r
<1>9. Emitted(Body, calls, p + 1, code', else(r), loopStack)
  <2>1. \A k \in DOMAIN calls : Body[calls[k]].k = "while" => cond(calls[k]) \in DOMAIN code'
    BY <1>2, <1>8 DEF Emitted
  <2>2. \A k \in DOMAIN loopStack : {expr(loopStack[k]), after(loopStack[k])} \subseteq DOMAIN code'
    BY <1>2, <1>8 DEF Emitted
  <2>3. Pending(Body, calls, p + 1) = ((Pending(Body, calls, p) \cup {}) \ {insert}) \ {else(r)}
    BY <1>4, <1>5
  <2>4. \A b \in DOMAIN code : b[1] \in Nat
    BY <1>1, BlocksBefore
  <2>5. EmitsInOrder(Body, p, calls, code, insert, p + 1, calls, code', else(r), {}, {insert})
    BY <2>1, <2>3, <2>4, <1>3, <1>5, <1>8 DEF EmitsInOrder
  <2> QED
    BY <2>2, <2>5, <1>2, EmittedStep
<1>10. CodeInv'
  <2>1. calls' = calls /\ p' = p + 1 /\ prog' = prog /\ pc' = pc /\ loopStack' = loopStack /\ i' = i
        /\ checkVars' = checkVars
    BY DEF emit_else, Forward, Semantic
  <2>2. Around(Body, p + 1, calls)
    BY <1>1, <1>2, <1>3, AroundNext
  <2> QED
    BY <2>1, <2>2, <1>1, <1>2, <1>3, <1>5, <1>7, <1>8, <1>9, CodegenKeeps
<1> QED
  BY <1>8, <1>10 DEF Stays

\* What is running behind an end.
LEMMA Left ==
  ASSUME CodeInv, pc = "codegen", AtToken, Body[p].k = "end"
  PROVE  LET r == calls[Len(calls)]
             d == SubSeq(calls, 1, Len(calls) - 1) IN
         /\ Around(Body, p + 1, d) /\ r \in DOMAIN Body
         /\ \A k \in DOMAIN d : k \in DOMAIN calls /\ d[k] = calls[k]
         /\ Body[r].k = "while" => cond(r) \in DOMAIN code
         /\ Pending(Body, calls, p)
              = Pending(Body, d, p + 1) \cup (IF Body[r].k = "while" THEN {expr(r), after(r)} ELSE {ifcont(r)})
         /\ \A b \in Pending(Body, d, p + 1) : b[1] # r
<1> DEFINE r == calls[Len(calls)]
           d == SubSeq(calls, 1, Len(calls) - 1)
<1>1. p \in DOMAIN Body /\ IsBody(Body) /\ Closed(Body) /\ Around(Body, p, calls) /\ Level(Body, p) > 0
  BY TokenFacts, BodyNow, AtCodegen DEF CodeInv, IsBody
<1>2. calls # << >> /\ Around(Body, p + 1, d)
  BY <1>1, AroundOutside
<1>3. calls \in Seq(1 .. Len(Body))
  BY AtCodegen
<1>4. \A k \in DOMAIN d : k \in DOMAIN calls /\ d[k] = calls[k]
  <2>1. d \in Seq(1 .. Len(Body)) /\ Len(d) = Len(calls) - 1 /\ Len(calls) \in Nat
        /\ \A k \in 1 .. Len(calls) - 1 : d[k] = calls[k]
    BY <1>2, <1>3, AllButLast
  <2>2. DOMAIN d = 1 .. Len(calls) - 1 /\ DOMAIN calls = 1 .. Len(calls)
    BY <2>1, <1>3
  <2> QED
    BY <2>1, <2>2
<1>5. Body[r].k = "while" => cond(r) \in DOMAIN code
  <2>1. Len(calls) \in DOMAIN calls
    BY <1>2, <1>3
  <2> QED
    BY <2>1, AtCodegen DEF Emitted
<1> QED
  BY <1>1, <1>2, <1>4, <1>5, PendingOutside

LEMMA IfEndKeeps ==
  ASSUME CodeInv, emit_if_end
  PROVE  CodeInv' /\ Stays(code, code')
<1> DEFINE r == calls[Len(calls)]
           d == SubSeq(calls, 1, Len(calls) - 1)
           t == Br(ifcont(r))
<1>1. pc = "codegen" /\ AtToken /\ Body[p].k = "end" /\ Body[r].k = "if"
  BY DEF emit_if_end, AtPart, Token, Caller
<1>2. /\ Good(Body, code) /\ insert \in DOMAIN code /\ DOMAIN code \subseteq BlockNames(Body)
      /\ Emitted(Body, calls, p, code, insert, loopStack) /\ loopStack \in Seq(1 .. Len(Body))
  BY <1>1, AtCodegen
<1>3. /\ p \in Nat /\ p + 1 \in 1 .. Len(Body) + 1 /\ p + 1 \in Nat /\ p < p + 1 /\ Len(Body) \in Nat
  BY <1>1, TokenFacts, BodyNow DEF CodeInv
<1>4. /\ Around(Body, p + 1, d)
      /\ \A k \in DOMAIN d : k \in DOMAIN calls /\ d[k] = calls[k]
      /\ Pending(Body, calls, p) = Pending(Body, d, p + 1) \cup {ifcont(r)}
      /\ \A b \in Pending(Body, d, p + 1) : b[1] # r
  BY <1>1, Left
<1>5. ifcont(r) \in DOMAIN code /\ insert \notin Pending(Body, calls, p)
  BY <1>2, <1>4 DEF Emitted
<1>6. t \in Terminators(Body) /\ t # NoTerminator /\ Leads(t, DOMAIN code)
  BY <1>2, <1>3, <1>5, TerminatorTypes DEF Br, Leads
<1>7. /\ code' = TerminateOpen(code, insert, t) /\ insert' = ifcont(r) /\ calls' = d
      /\ p' = p + 1 /\ prog' = prog /\ pc' = pc /\ loopStack' = loopStack /\ i' = i
      /\ checkVars' = checkVars
  BY DEF emit_if_end, Running, Leave, Forward, Semantic
<1>8. ifcont(r)[1] = r
  BY DEF ifcont, Block
<1> HIDE DEF t, d, r
<1>9. /\ Good(Body, code') /\ DOMAIN code' = DOMAIN code
      /\ \A x \in DOMAIN code : IsOpen(code', x) <=> IsOpen(code, x) /\ x # insert
      /\ \A x \in DOMAIN code : x # insert \/ ~IsOpen(code, x) => code'[x] = code[x]
  BY <1>2, <1>6, <1>7, GoodTerminateOpen
<1>10. Emitted(Body, d, p + 1, code', ifcont(r), loopStack)
  <2>1. \A k \in DOMAIN d : Body[d[k]].k = "while" => cond(d[k]) \in DOMAIN code'
    BY <1>2, <1>4, <1>9 DEF Emitted
  <2>2. \A k \in DOMAIN loopStack : {expr(loopStack[k]), after(loopStack[k])} \subseteq DOMAIN code'
    BY <1>2, <1>9 DEF Emitted
  <2>3. Pending(Body, d, p + 1) = ((Pending(Body, calls, p) \cup {}) \ {insert}) \ {ifcont(r)}
    BY <1>4, <1>5, <1>8
  <2>4. \A b \in DOMAIN code : b[1] \in Nat
    BY <1>1, BlocksBefore
  <2>5. EmitsInOrder(Body, p, calls, code, insert, p + 1, d, code', ifcont(r), {}, {insert})
    BY <2>1, <2>3, <2>4, <1>3, <1>5, <1>9 DEF EmitsInOrder
  <2> QED
    BY <2>2, <2>5, <1>2, EmittedStep
<1>11. CodeInv'
  BY <1>1, <1>2, <1>3, <1>4, <1>5, <1>7, <1>9, <1>10, CodegenKeeps
<1> QED
  BY <1>9, <1>11 DEF Stays

LEMMA WhileKeeps ==
  ASSUME CodeInv, emit_whileloop
  PROVE  CodeInv' /\ Stays(code, code')
<1> DEFINE names == {cond(p), body(p), expr(p), after(p)}
           t == Br(cond(p))
           u == CondBr(p, body(p), after(p))
           more == WithBlocks(names)
           one == Terminate(more, insert, t)
           d == Append(calls, p)
           loops == Append(loopStack, p)
<1>1. pc = "codegen" /\ AtToken /\ Token.k = "while" /\ IsOpen(code, insert) /\ Opens(Body, p)
  BY DEF emit_whileloop, AtStatement, blockTerminated, IsOpen, Opens, Openers, Token
<1>2. /\ Good(Body, code) /\ insert \in DOMAIN code /\ DOMAIN code \subseteq BlockNames(Body)
      /\ Emitted(Body, calls, p, code, insert, loopStack) /\ loopStack \in Seq(1 .. Len(Body))
  BY <1>1, AtCodegen
<1>3. /\ p \in DOMAIN Body /\ p \in 1 .. Len(Body) /\ p \in 0 .. Len(Body) /\ p \in 0 .. Bottom(Body)
      /\ p \in Nat /\ p + 1 \in 1 .. Len(Body) + 1 /\ p + 1 \in Nat /\ p < p + 1 /\ Len(Body) \in Nat
  BY <1>1, TokenFacts, BodyNow DEF CodeInv
<1>4. /\ names \subseteq BlockNames(Body) /\ \A b \in names : b[1] = p
      /\ cond(p) \notin {body(p), expr(p), after(p)} /\ body(p) \notin {expr(p), after(p)}
      /\ expr(p) # after(p)
  BY <1>3, OwnBlocks
<1>5. names \cap DOMAIN code = {} /\ \A b \in DOMAIN code : b[1] \in Nat
  BY <1>1, <1>3, <1>4, BlocksBefore
<1>6. WaitingFor(Body, p, p + 1) = {expr(p), after(p)}
  BY <1>1 DEF Token, WaitingFor
<1>7. t \in Terminators(Body) /\ t # NoTerminator /\ u \in Terminators(Body) /\ u # NoTerminator
  BY <1>3, <1>4, TerminatorTypes
<1>8. /\ \A k \in 1 .. Len(t.to) : t.to[k] = cond(p)
      /\ \A k \in 1 .. Len(u.to) : u.to[k] \in {body(p), after(p)}
  BY DEF Br, CondBr
<1>9. /\ code' = Terminate(one, cond(p), u) /\ insert' = body(p) /\ calls' = d /\ loopStack' = loops
      /\ p' = p + 1 /\ prog' = prog /\ pc' = pc /\ i' = i /\ checkVars' = checkVars
  BY DEF emit_whileloop, Enter, Forward, Semantic
<1>10. {cond(p), body(p), expr(p), after(p)} \subseteq names
  OBVIOUS
<1>11. /\ loops \in Seq(1 .. Len(Body))
       /\ \A k \in DOMAIN loops : loops[k] = p \/ (k \in DOMAIN loopStack /\ loops[k] = loopStack[k])
  BY <1>2, <1>3
<1>12. /\ Around(Body, p + 1, d)
       /\ Pending(Body, d, p + 1) = Pending(Body, calls, p) \cup {expr(p), after(p)}
       /\ \A k \in DOMAIN d : d[k] = p \/ (k \in DOMAIN calls /\ d[k] = calls[k])
  BY <1>1, <1>6, Entered
<1>13. /\ Good(Body, more) /\ DOMAIN more = DOMAIN code \cup names
       /\ \A x \in names : IsOpen(more, x)
       /\ \A x \in DOMAIN code : more[x] = code[x]
  BY <1>2, <1>3, <1>5, GoodWithBlocks
<1> HIDE DEF more, t, u, d, loops
<1>14. Leads(t, DOMAIN more) /\ Leads(u, DOMAIN more)
  BY <1>8, <1>10, <1>13 DEF Leads
<1>15. /\ Good(Body, one) /\ DOMAIN one = DOMAIN more
       /\ \A x \in DOMAIN more : IsOpen(one, x) <=> IsOpen(more, x) /\ x # insert
       /\ \A x \in DOMAIN more : x # insert => one[x] = more[x]
  BY <1>2, <1>7, <1>13, <1>14, GoodTerminate, ZenonT(30)
<1> HIDE DEF one
<1>16. /\ Good(Body, code') /\ DOMAIN code' = DOMAIN one
       /\ \A x \in DOMAIN one : IsOpen(code', x) <=> IsOpen(one, x) /\ x # cond(p)
       /\ \A x \in DOMAIN one : x # cond(p) => code'[x] = one[x]
  BY <1>7, <1>9, <1>10, <1>13, <1>14, <1>15, GoodTerminate
<1>17. DOMAIN code' = DOMAIN code \cup names /\ insert \notin names /\ cond(p) \notin DOMAIN code
  BY <1>2, <1>5, <1>10, <1>13, <1>15, <1>16
<1>18. Pending(Body, d, p + 1)
         = ((Pending(Body, calls, p) \cup names) \ {insert, cond(p)}) \ {body(p)}
  <2>1. Pending(Body, calls, p) \subseteq DOMAIN code /\ insert \notin Pending(Body, calls, p)
    BY <1>2 DEF Emitted
  <2>2. insert \notin {expr(p), after(p)} /\ body(p) \notin DOMAIN code
    BY <1>5, <1>10, <1>17
  <2> QED
    BY <2>1, <2>2, <1>4, <1>12, <1>17
<1>19. \A b \in names : b[1] = p
  BY <1>4
<1>20. names \subseteq BlockNames(Body)
  BY <1>4
<1> HIDE DEF names
<1>21. Emitted(Body, d, p + 1, code', body(p), loops)
  <2>1. \A b \in DOMAIN code : IsOpen(code', b) <=> IsOpen(code, b) /\ b \notin {insert, cond(p)}
    BY <1>13, <1>15, <1>16, <1>17 DEF IsOpen
  <2>2. \A b \in names : IsOpen(code', b) <=> b \notin {insert, cond(p)}
    BY <1>13, <1>15, <1>16, <1>17
  <2>3. \A k \in DOMAIN d : Body[d[k]].k = "while" => cond(d[k]) \in DOMAIN code'
    BY <1>2, <1>10, <1>12, <1>17 DEF Emitted
  <2>4. \A k \in DOMAIN loops : {expr(loops[k]), after(loops[k])} \subseteq DOMAIN code'
    BY <1>2, <1>10, <1>11, <1>17 DEF Emitted
  <2>5. EmitsInOrder(Body, p, calls, code, insert, p + 1, d, code', body(p), names, {insert, cond(p)})
    BY <2>1, <2>2, <2>3, <1>3, <1>5, <1>10, <1>17, <1>18, <1>19 DEF EmitsInOrder
  <2> QED
    BY <2>4, <2>5, <1>2, EmittedStep
<1>22. CodeInv'
  <2>1. DOMAIN code' \subseteq BlockNames(Body) /\ insert' \in DOMAIN code'
    BY <1>2, <1>9, <1>10, <1>17, <1>20
  <2> QED
    BY <2>1, <1>1, <1>3, <1>9, <1>11, <1>12, <1>16, <1>21, CodegenKeeps
<1> QED
  BY <1>1, <1>13, <1>15, <1>16, <1>17, <1>22 DEF Stays

LEMMA WhileEndKeeps ==
  ASSUME CodeInv, emit_while_end
  PROVE  CodeInv' /\ Stays(code, code')
<1> DEFINE r == calls[Len(calls)]
           d == SubSeq(calls, 1, Len(calls) - 1)
           loops == SubSeq(loopStack, 1, Len(loopStack) - 1)
           t == Br(expr(r))
           u == Br(cond(r))
           one == TerminateOpen(code, insert, t)
<1>1. pc = "codegen" /\ AtToken /\ Body[p].k = "end" /\ Body[r].k = "while"
  BY DEF emit_while_end, AtPart, Token, Caller
<1>2. /\ Good(Body, code) /\ insert \in DOMAIN code /\ DOMAIN code \subseteq BlockNames(Body)
      /\ Emitted(Body, calls, p, code, insert, loopStack) /\ loopStack \in Seq(1 .. Len(Body))
  BY <1>1, AtCodegen
<1>3. /\ p \in Nat /\ p + 1 \in 1 .. Len(Body) + 1 /\ p + 1 \in Nat /\ p < p + 1 /\ Len(Body) \in Nat
  BY <1>1, TokenFacts, BodyNow DEF CodeInv
<1>4. /\ Around(Body, p + 1, d) /\ cond(r) \in DOMAIN code /\ r \in DOMAIN Body
      /\ \A k \in DOMAIN d : k \in DOMAIN calls /\ d[k] = calls[k]
      /\ Pending(Body, calls, p) = Pending(Body, d, p + 1) \cup {expr(r), after(r)}
      /\ \A b \in Pending(Body, d, p + 1) : b[1] # r
  BY <1>1, Left
<1>5. /\ expr(r) \in DOMAIN code /\ after(r) \in DOMAIN code /\ IsOpen(code, expr(r))
      /\ insert \notin Pending(Body, calls, p)
  BY <1>2, <1>4 DEF Emitted
<1>6. /\ t \in Terminators(Body) /\ t # NoTerminator /\ Leads(t, DOMAIN code)
      /\ u \in Terminators(Body) /\ u # NoTerminator /\ Leads(u, DOMAIN code)
  BY <1>2, <1>3, <1>4, <1>5, TerminatorTypes DEF Br, Leads
<1>7. expr(r)[1] = r /\ after(r)[1] = r /\ expr(r) # after(r)
  BY DEF expr, after, Block
<1>8. /\ code' = Terminate(one, expr(r), u) /\ insert' = after(r) /\ calls' = d /\ loopStack' = loops
      /\ p' = p + 1 /\ prog' = prog /\ pc' = pc /\ i' = i /\ checkVars' = checkVars
  BY DEF emit_while_end, Running, Leave, Forward, Semantic
<1>9. /\ loops \in Seq(1 .. Len(Body))
      /\ \A k \in DOMAIN loops : k \in DOMAIN loopStack /\ loops[k] = loopStack[k]
  <2>1. CASE loopStack = << >>
    <3>1. loops = << >>
      BY <2>1
    <3> QED
      BY <3>1
  <2>2. CASE loopStack # << >>
    <3>1. /\ Len(loopStack) \in Nat \ {0} /\ loops \in Seq(1 .. Len(Body))
          /\ Len(loops) = Len(loopStack) - 1
          /\ \A k \in 1 .. Len(loopStack) - 1 : loops[k] = loopStack[k]
      BY <1>2, <2>2, AllButLast
    <3>2. DOMAIN loops = 1 .. Len(loopStack) - 1 /\ DOMAIN loopStack = 1 .. Len(loopStack)
      BY <3>1, <1>2
    <3> QED
      BY <3>1, <3>2
  <2> QED
    BY <2>1, <2>2
<1> HIDE DEF t, u, d, r, loops
<1>10. /\ Good(Body, one) /\ DOMAIN one = DOMAIN code
       /\ \A x \in DOMAIN code : IsOpen(one, x) <=> IsOpen(code, x) /\ x # insert
       /\ \A x \in DOMAIN code : x # insert \/ ~IsOpen(code, x) => one[x] = code[x]
  BY <1>2, <1>6, GoodTerminateOpen
<1> HIDE DEF one
<1>11. /\ Good(Body, code') /\ DOMAIN code' = DOMAIN one
       /\ \A x \in DOMAIN one : IsOpen(code', x) <=> IsOpen(one, x) /\ x # expr(r)
       /\ \A x \in DOMAIN one : x # expr(r) => code'[x] = one[x]
  BY <1>5, <1>6, <1>8, <1>10, GoodTerminate
<1>12. Emitted(Body, d, p + 1, code', after(r), loops)
  <2>1. \A k \in DOMAIN d : Body[d[k]].k = "while" => cond(d[k]) \in DOMAIN code'
    BY <1>2, <1>4, <1>10, <1>11 DEF Emitted
  <2>2. \A k \in DOMAIN loops : {expr(loops[k]), after(loops[k])} \subseteq DOMAIN code'
    BY <1>2, <1>9, <1>10, <1>11 DEF Emitted
  <2>3. Pending(Body, d, p + 1)
          = ((Pending(Body, calls, p) \cup {}) \ {insert, expr(r)}) \ {after(r)}
    BY <1>4, <1>5, <1>7
  <2>4. \A b \in DOMAIN code : b[1] \in Nat
    BY <1>1, BlocksBefore
  <2>5. EmitsInOrder(Body, p, calls, code, insert, p + 1, d, code', after(r), {}, {insert, expr(r)})
    BY <2>1, <2>3, <2>4, <1>3, <1>5, <1>10, <1>11 DEF EmitsInOrder
  <2> QED
    BY <2>2, <2>5, <1>2, EmittedStep
<1>13. CodeInv'
  BY <1>1, <1>2, <1>3, <1>4, <1>5, <1>8, <1>9, <1>10, <1>11, <1>12, CodegenKeeps
<1> QED
  BY <1>5, <1>10, <1>11, <1>13 DEF Stays

LEMMA FunctionKeeps ==
  ASSUME CodeInv, emit_function
  PROVE  CodeInv' /\ Stays(code, code')
<1>1. /\ pc = "codegen" /\ ~AtToken /\ prog' = prog /\ p' = p /\ calls' = calls /\ insert' = insert
      /\ loopStack' = loopStack /\ i' = i /\ checkVars' = checkVars
  BY DEF emit_function, Semantic
<1>2. /\ Good(Body, code) /\ insert \in DOMAIN code /\ DOMAIN code \subseteq BlockNames(Body)
      /\ Emitted(Body, calls, p, code, insert, loopStack) /\ Around(Body, p, calls) /\ i = 1
  BY <1>1, AtCodegen
<1>3. Len(Body) \in Nat /\ Bottom(Body) \in 0 .. Bottom(Body)
  BY BodyNow DEF CodeInv, Bottom
<1>4. calls = << >>
  BY <1>1, <1>2, NoCallsAtBottom DEF CodeInv
<1>5. \A b \in DOMAIN code : IsOpen(code, b) => b = insert
  BY <1>2, <1>4, PendingNames DEF Emitted
<1>6. \/ code' = TerminateOpen(code, insert, Ret(Bottom(Body))) /\ pc' = "verify"
      \/ code' = code /\ pc' = "aborted"
  BY DEF emit_function
<1>7. Ret(Bottom(Body)) \in Terminators(Body) /\ Ret(Bottom(Body)) # NoTerminator
      /\ Leads(Ret(Bottom(Body)), DOMAIN code)
  BY <1>3, TerminatorTypes DEF Ret, Leads
<1> HIDE DEF Ret
<1>8. Good(Body, code') /\ DOMAIN code' = DOMAIN code /\ Stays(code, code')
  BY <1>2, <1>6, <1>7, GoodTerminateOpen DEF Stays
<1>9. pc' = "verify" => \A b \in DOMAIN code' : ~IsOpen(code', b)
  BY <1>2, <1>5, <1>6, <1>7, GoodTerminateOpen
<1>10. Body' = Body /\ Names' = Names
  BY <1>1 DEF Body, Names
<1>11. i' \in 1 .. Len(code'[insert'].insts) + 1
  <2>1. code'[insert'].insts \in Seq(1 .. Len(Body))
    BY <1>1, <1>2, <1>8 DEF Good, Blocks
  <2> QED
    BY <1>1, <1>2, <2>1
<1>12. TypeOK'
  BY <1>1, <1>2, <1>6, <1>8, <1>10, <1>11 DEF CodeInv, TypeOK, checkVars, Compiling, Refused
<1>13. WalkInv'
  BY <1>6 DEF WalkInv
<1>14. CodeTypes'
  BY <1>1, <1>2, <1>8, <1>10 DEF CodeTypes, Good
<1>15. EmitInv'
  BY <1>6, <1>9 DEF EmitInv
<1> QED
  BY <1>8, <1>12, <1>13, <1>14, <1>15 DEF CodeInv

LEMMA VerifyKeeps ==
  ASSUME CodeInv, verifyModule
  PROVE  CodeInv' /\ Stays(code, code')
<1>1. /\ pc = "verify" /\ prog' = prog /\ p' = p /\ calls' = calls /\ code' = code
      /\ loopStack' = loopStack /\ checkVars' = checkVars
  BY DEF verifyModule, Semantic
<1>2. /\ Good(Body, code) /\ i = 1
      /\ \A b \in DOMAIN code : ~IsOpen(code, b)
      /\ DOMAIN code \subseteq Names /\ insert \in DOMAIN code
  BY <1>1 DEF CodeInv, CodeTypes, EmitInv, TypeOK, Compiling
<1>3. \/ /\ pc' = "invalid" /\ insert' = insert /\ i' = i
      \/ /\ pc' = "run" /\ insert' = entry /\ i' = 1
  BY DEF verifyModule
<1>4. entry \in DOMAIN code
  BY <1>2 DEF Good
<1>5. Body' = Body /\ Names' = Names
  BY <1>1 DEF Body, Names
<1>6. insert' \in DOMAIN code' /\ i' = 1
  BY <1>1, <1>2, <1>3, <1>4
<1>7. i' \in 1 .. Len(code'[insert'].insts) + 1
  <2>1. code[insert'].insts \in Seq(1 .. Len(Body))
    BY <1>1, <1>2, <1>6 DEF Good, Blocks
  <2> QED
    BY <1>1, <1>6, <2>1
<1>8. TypeOK'
  BY <1>1, <1>3, <1>5, <1>6, <1>7 DEF CodeInv, TypeOK, checkVars, Compiling, Refused
<1>9. WalkInv'
  BY <1>3 DEF WalkInv
<1>10. CodeTypes'
  BY <1>1, <1>2, <1>5, <1>6 DEF CodeTypes
<1>11. EmitInv'
  BY <1>1, <1>2, <1>3 DEF EmitInv
<1> QED
  BY <1>1, <1>8, <1>9, <1>10, <1>11 DEF CodeInv, Stays


\* The compiled function runs over blocks that stay as they are.
LEMMA RunKeeps ==
  ASSUME CodeInv, Run
  PROVE  CodeInv' /\ code' = code
<1>1. /\ pc = "run" /\ prog' = prog /\ p' = p /\ calls' = calls /\ code' = code
      /\ loopStack' = loopStack /\ checkVars' = checkVars /\ pc' \in {"run", "returned"}
  BY DEF Run, execute, branch, conditional_branch, return, AtTerminator, Enters, Compiled
<1>2. /\ Good(Body, code) /\ \A b \in DOMAIN code : ~IsOpen(code, b)
      /\ insert \in DOMAIN code /\ i \in 1 .. Len(code[insert].insts) + 1
  BY <1>1 DEF CodeInv, CodeTypes, EmitInv, TypeOK
<1>3. code \in [DOMAIN code -> Blocks(Body)] /\ code[insert] \in Blocks(Body)
  BY <1>2 DEF Good
<1>4. Len(code[insert].insts) \in Nat /\ code[insert].term \in Terminators(Body)
  BY <1>3 DEF Blocks
<1>5. insert' \in DOMAIN code /\ i' \in 1 .. Len(code[insert'].insts) + 1
  <2>1. CASE execute
    BY <2>1, <1>2, <1>4 DEF execute
  <2>2. CASE return
    BY <2>2, <1>2 DEF return
  <2>3. ASSUME NEW k \in 1 .. Len(term.to), Enters(k)
        PROVE  insert' \in DOMAIN code /\ i' \in 1 .. Len(code[insert'].insts) + 1
    <3>1. insert' \in DOMAIN code /\ i' = 1
      BY <1>2, <2>3 DEF Good, Linked, term, Enters
    <3>2. Len(code[insert'].insts) \in Nat
      BY <1>3, <3>1 DEF Blocks
    <3> QED
      BY <3>1, <3>2
  <2>4. CASE branch
    <3>1. Len(term.to) = 1
      BY <2>4, <1>4 DEF branch, term, Terminators
    <3> QED
      BY <2>3, <2>4, <3>1 DEF branch
  <2>5. CASE conditional_branch
    <3>1. Len(term.to) = 2
      BY <2>5, <1>4 DEF conditional_branch, term, Terminators
    <3> QED
      BY <2>3, <2>5, <3>1 DEF conditional_branch
  <2> QED
    BY <2>1, <2>2, <2>4, <2>5 DEF Run
<1>6. Body' = Body /\ Names' = Names
  BY <1>1 DEF Body, Names
<1>7. TypeOK'
  BY <1>1, <1>5, <1>6 DEF CodeInv, TypeOK, checkVars
<1>8. WalkInv'
  BY <1>1 DEF WalkInv
<1>9. CodeTypes'
  BY <1>1, <1>2, <1>6 DEF CodeTypes, Compiling, Refused
<1>10. EmitInv'
  BY <1>1, <1>2 DEF EmitInv
<1> QED
  BY <1>1, <1>7, <1>8, <1>9, <1>10 DEF CodeInv

-----------------------------------------------------------------------------
(* Types and blocks *)

LEMMA StepKeeps ==
  ASSUME CodeInv, [Next]_vars
  PROVE  CodeInv' /\ Stays(code, code')
<1>1. CASE SemanticPass /\ UNCHANGED <<code, insert, loopStack, i>>
  BY <1>1, SemanticKeeps DEF Stays
<1>2. CASE skip
  BY <1>2, SkipKeeps
<1>3. CASE emit_statement
  BY <1>3, StatementKeeps
<1>4. CASE emit_return
  BY <1>4, ReturnKeeps
<1>5. CASE emit_jump
  BY <1>5, JumpKeeps
<1>6. CASE emit_if
  BY <1>6, IfKeeps
<1>7. CASE emit_else
  BY <1>7, ElseKeeps
<1>8. CASE emit_if_end
  BY <1>8, IfEndKeeps
<1>9. CASE emit_whileloop
  BY <1>9, WhileKeeps
<1>10. CASE emit_while_end
  BY <1>10, WhileEndKeeps
<1>11. CASE emit_function
  BY <1>11, FunctionKeeps
<1>12. CASE verifyModule
  BY <1>12, VerifyKeeps
<1>13. CASE Run
  BY <1>13, RunKeeps DEF Stays
<1>14. CASE UNCHANGED vars
  <2>1. CodeInv'
    <3>1. Body' = Body /\ Names' = Names
      BY <1>14 DEF vars, Body, Names
    <3> QED
      BY <1>14, <3>1 DEF vars, checkVars, CodeInv, TypeOK, WalkInv, CodeTypes, EmitInv
  <2> QED
    BY <1>14, <2>1 DEF vars, Stays
<1> QED
  BY <1>1, <1>2, <1>3, <1>4, <1>5, <1>6, <1>7, <1>8, <1>9, <1>10, <1>11, <1>12, <1>13, <1>14
  DEF Next, Compile, Finished

\* In every state the open blocks are the one that is being filled and those whose turn
\* comes at an else or an end that the walk has still to reach.
THEOREM CodeIsInvariant == Spec => []CodeInv
<1>1. CodeInv /\ [Next]_vars => CodeInv'
  BY StepKeeps
<1> QED
  BY InitCode, <1>1, PTL DEF Spec

\* The variables keep their types: the insertion block exists, the handlers that run are
\* statements of the body.
THEOREM TypesAreKept == Spec => []TypeOK
<1>1. CodeInv => TypeOK
  BY DEF CodeInv
<1> QED
  BY CodeIsInvariant, <1>1, PTL

\* Nothing is emitted behind the terminator of a block, and no terminator is replaced.
THEOREM ClosedBlocksAreLeftAlone == Spec => ClosedBlocksStay
<1>1. CodeInv /\ [Next]_vars
        => [\A b \in DOMAIN code :
              code[b].term # NoTerminator => b \in DOMAIN code' /\ code'[b] = code[b]]_vars
  BY StepKeeps DEF Stays, IsOpen
<1> QED
  BY CodeIsInvariant, <1>1, PTL DEF Spec, ClosedBlocksStay

\* When a function has been emitted, every block of it has a terminator, and what it
\* leads to is a block of the function.
THEOREM AllBlocksClose == Spec => []EveryBlockCloses
<1>1. CodeInv => EveryBlockCloses
  BY DEF CodeInv, EmitInv, CodeTypes, Good, Linked, IsOpen, EveryBlockCloses
<1> QED
  BY CodeIsInvariant, <1>1, PTL

-----------------------------------------------------------------------------
(* Recursive functions *)

\* Every nonempty set of naturals has a least element.
LEMMA Least ==
  ASSUME NEW S, S \subseteq Nat, S # {}
  PROVE  \E m \in S : \A k \in S : m <= k
<1>1. PICK m \in S : \A k \in S : <<k, m>> \notin OpToRel(<, Nat)
  BY WFMin, NatLessThanWellFounded, Zenon
<1>2. \A k \in S : ~(k < m)
  BY <1>1 DEF OpToRel
<1> QED
  BY <1>2

\* rule says what a function on S has at k, and looks at arguments of lower rank only.
Recursive(S, T, rank, rule) ==
  /\ rank \in [S -> Nat]
  /\ rule \in [S -> [[S -> T] -> T]]
  /\ \A k \in S : \A f, g \in [S -> T] :
       (\A j \in S : rank[j] < rank[k] => f[j] = g[j]) => rule[k][f] = rule[k][g]
\* f follows it up to rank n.
Follows(S, T, rank, rule, f, n) ==
  /\ n \in Nat /\ f \in [S -> T]
  /\ \A k \in S : rank[k] < n => f[k] = rule[k][f]

\* Of those that are wrong, one has the lowest rank.
LEMMA LowestRank ==
  ASSUME NEW S, NEW rank \in [S -> Nat], NEW W, W \subseteq S, W # {}
  PROVE  \E k \in W : \A j \in W : rank[k] <= rank[j]
<1> DEFINE R == {rank[k] : k \in W}
<1>1. R \subseteq Nat /\ R # {}
  OBVIOUS
<1>2. PICK m \in R : \A j \in R : m <= j
  <2> HIDE DEF R
  <2> QED
    BY <1>1, Least
<1> QED
  BY <1>2

\* Such a function is determined,
LEMMA RecursionUnique ==
  ASSUME NEW S, NEW T, NEW rank, NEW rule, NEW n, NEW f, NEW g, Recursive(S, T, rank, rule),
         Follows(S, T, rank, rule, f, n), Follows(S, T, rank, rule, g, n)
  PROVE  \A k \in S : rank[k] < n => f[k] = g[k]
<1> DEFINE Wrong == {k \in S : rank[k] < n /\ f[k] # g[k]}
<1>1. SUFFICES ASSUME Wrong # {} PROVE FALSE
  OBVIOUS
<1>2. rank \in [S -> Nat] /\ n \in Nat
  BY DEF Recursive, Follows
<1>3. PICK m \in Wrong : \A k \in Wrong : rank[m] <= rank[k]
  <2>1. Wrong \subseteq S
    OBVIOUS
  <2> HIDE DEF Wrong
  <2> QED
    BY <1>1, <1>2, <2>1, LowestRank
<1>4. m \in S /\ rank[m] < n /\ f[m] # g[m] /\ rank[m] \in Nat
  BY <1>2, <1>3
<1>5. \A j \in S : rank[j] < rank[m] => f[j] = g[j]
  <2>1. SUFFICES ASSUME NEW j \in S, rank[j] < rank[m], f[j] # g[j] PROVE FALSE
    OBVIOUS
  <2>2. rank[j] \in Nat
    BY <1>2
  <2>3. j \in Wrong
    BY <1>2, <1>4, <2>1, <2>2
  <2> QED
    BY <1>3, <1>4, <2>1, <2>2, <2>3
<1>6. rule[m][f] = rule[m][g]
  BY <1>4, <1>5 DEF Recursive, Follows
<1> QED
  BY <1>4, <1>6 DEF Follows

\* and exists.
LEMMA RecursionExists ==
  ASSUME NEW S, NEW T, NEW rank, NEW rule, NEW t0 \in T, Recursive(S, T, rank, rule)
  PROVE  \E f \in [S -> T] : \A k \in S : f[k] = rule[k][f]
<1> DEFINE Has(n) == \E f : Follows(S, T, rank, rule, f, n)
           Missing == {n \in Nat : ~Has(n)}
<1>0. rank \in [S -> Nat]
  BY DEF Recursive
<1>1. \A n \in Nat : Has(n)
  <2>1. SUFFICES ASSUME Missing # {} PROVE FALSE
    OBVIOUS
  <2>2. PICK m \in Missing : \A k \in Missing : m <= k
    <3>1. Missing \subseteq Nat
      OBVIOUS
    <3> HIDE DEF Missing
    <3> QED
      BY <2>1, <3>1, Least
  <2>3. m \in Nat /\ ~Has(m)
    BY <2>2
  <2>4. Has(0)
    <3>1. \A k \in S : ~(rank[k] < 0)
      BY <1>0
    <3>2. Follows(S, T, rank, rule, [k \in S |-> t0], 0)
      BY <3>1 DEF Follows
    <3> QED
      BY <3>2
  <2>5. m # 0
    BY <2>3, <2>4
  <2>6. m - 1 \in Nat /\ m - 1 \notin Missing
    BY <2>2, <2>3, <2>5
  <2>7. PICK f : Follows(S, T, rank, rule, f, m - 1)
    BY <2>6
  <2> DEFINE g == [k \in S |-> IF rank[k] = m - 1 THEN rule[k][f] ELSE f[k]]
  <2>8. \A k \in S : rank[k] \in Nat /\ rule[k][f] \in T
    BY <2>7 DEF Recursive, Follows
  <2>9. g \in [S -> T]
    BY <2>7, <2>8 DEF Follows
  <2>10. \A k \in S : rank[k] < m - 1 => g[k] = f[k]
    BY <2>3
  <2>11. \A k \in S : rank[k] = m - 1 => g[k] = rule[k][f]
    OBVIOUS
  <2> HIDE DEF Has, Missing, g
  <2>12. ASSUME NEW k \in S, rank[k] < m PROVE g[k] = rule[k][g]
    <3>1. (rank[k] = m - 1 \/ rank[k] < m - 1) /\ \A j \in S : rank[j] < rank[k] => g[j] = f[j]
      BY <2>3, <2>8, <2>10, <2>12
    <3>2. rule[k][g] = rule[k][f]
      BY <2>7, <2>9, <3>1 DEF Recursive, Follows
    <3>3. g[k] = rule[k][f]
      BY <2>7, <2>10, <2>11, <3>1 DEF Follows
    <3> QED
      BY <3>2, <3>3
  <2>13. Follows(S, T, rank, rule, g, m)
    BY <2>3, <2>9, <2>12 DEF Follows
  <2> QED
    BY <2>3, <2>13 DEF Has
<1> DEFINE at == [n \in Nat |-> CHOOSE f : Follows(S, T, rank, rule, f, n)]
<1>2. ASSUME NEW n \in Nat PROVE Follows(S, T, rank, rule, at[n], n)
  BY <1>1
<1> HIDE DEF Has, Missing, at
<1> DEFINE F == [k \in S |-> at[rank[k] + 1][k]]
<1>3. \A k \in S : rank[k] \in Nat /\ rank[k] + 1 \in Nat /\ rank[k] < rank[k] + 1
  BY <1>0
<1>4. F \in [S -> T]
  <2>1. ASSUME NEW k \in S PROVE at[rank[k] + 1][k] \in T
    BY <1>2, <1>3 DEF Follows
  <2> QED
    BY <2>1
<1>5. ASSUME NEW k \in S PROVE F[k] = rule[k][F]
  <2>1. Follows(S, T, rank, rule, at[rank[k] + 1], rank[k] + 1)
    BY <1>2, <1>3
  <2>2. F[k] = rule[k][at[rank[k] + 1]]
    BY <1>3, <2>1 DEF Follows
  <2>3. ASSUME NEW j \in S, rank[j] < rank[k] PROVE F[j] = at[rank[k] + 1][j]
    <3>1. /\ rank[j] \in Nat /\ rank[j] + 1 \in Nat /\ rank[j] < rank[j] + 1
          /\ \A x \in S : rank[x] < rank[j] + 1 => rank[x] < rank[k] + 1
      BY <1>3, <2>3
    <3>2. Follows(S, T, rank, rule, at[rank[j] + 1], rank[j] + 1)
      BY <1>2, <3>1
    <3>3. Follows(S, T, rank, rule, at[rank[k] + 1], rank[j] + 1)
      BY <2>1, <3>1 DEF Follows
    <3>4. \A x \in S : rank[x] < rank[j] + 1 => at[rank[j] + 1][x] = at[rank[k] + 1][x]
      BY <3>2, <3>3, RecursionUnique
    <3> QED
      BY <3>1, <3>4
  <2>4. at[rank[k] + 1] \in [S -> T]
    BY <2>1 DEF Follows
  <2> HIDE DEF F
  <2>5. rule[k][F] = rule[k][at[rank[k] + 1]]
    BY <1>4, <2>3, <2>4 DEF Recursive
  <2> QED
    BY <2>2, <2>5
<1> HIDE DEF F
<1> QED
  BY <1>4, <1>5

-----------------------------------------------------------------------------
(* Constructs and loops around a token *)

\* Every token has constructs around it.
LEMMA AroundExists ==
  ASSUME NEW P, IsBody(P), NEW q \in 1 .. Len(P) + 1
  PROVE  \E c : Around(P, q, c)
<1> DEFINE Has(x) == \E c : Around(P, x, c)
           Missing == {x \in 1 .. Len(P) + 1 : ~Has(x)}
<1>1. Closed(P) /\ Len(P) \in Nat /\ DOMAIN P = 1 .. Len(P)
  BY DEF IsBody, Closed
<1>2. SUFFICES ASSUME Missing # {} PROVE FALSE
  OBVIOUS
<1>3. PICK m \in Missing : \A k \in Missing : m <= k
  <2>1. Missing \subseteq Nat
    BY <1>1
  <2> HIDE DEF Missing
  <2> QED
    BY <1>2, <2>1, Least
<1>4. m \in 1 .. Len(P) + 1 /\ ~Has(m)
  BY <1>3
<1>5. m # 1
  BY <1>4, NoneAround
<1>6. m - 1 \in DOMAIN P /\ m - 1 \notin Missing /\ m - 1 \in 1 .. Len(P) + 1 /\ (m - 1) + 1 = m
  BY <1>1, <1>3, <1>4, <1>5
<1>7. PICK c : Around(P, m - 1, c)
  BY <1>6
<1> HIDE DEF Missing
<1> DEFINE x == m - 1
<1>8. x \in DOMAIN P /\ x + 1 = m /\ Around(P, x, c)
  BY <1>6, <1>7
<1> HIDE DEF x
<1>9. Has(x + 1)
  <2>1. CASE Opens(P, x)
    BY <1>1, <1>8, <2>1, AroundInside
  <2>2. CASE P[x].k = "end"
    BY <1>1, <1>8, <2>2, AroundOutside DEF IsBody
  <2>3. CASE P[x].k # "end" /\ ~Opens(P, x)
    BY <1>1, <1>8, <2>3, AroundNext
  <2> QED
    BY <2>1, <2>2, <2>3
<1> QED
  BY <1>4, <1>8, <1>9

\* They are all there are,
LEMMA InAround ==
  ASSUME NEW P, IsBody(P), NEW q \in DOMAIN P, NEW c, Around(P, q, c),
         NEW o \in DOMAIN P, Opens(P, o), o < q, q <= End(P, o)
  PROVE  \E k \in DOMAIN c : c[k] = o
<1>1. Closed(P) /\ Len(P) \in Nat /\ DOMAIN P = 1 .. Len(P) /\ q \in Nat /\ o \in Nat \ {0}
  BY DEF IsBody, Closed
<1>2. /\ End(P, o) \in DOMAIN P /\ Level(P, End(P, o)) = Level(P, o) + 1
      /\ \A r \in o + 1 .. End(P, o) - 1 : Level(P, r) > Level(P, o)
  BY <1>1, EndCloses
<1>3. Level(P, o) \in Int /\ Level(P, q) \in Int
  BY <1>1, LevelOfNext
<1>4. Level(P, o) + 1 <= Level(P, q)
  <2>1. CASE q = End(P, o)
    BY <1>2, <1>3, <2>1
  <2>2. CASE q # End(P, o)
    <3>1. q \in o + 1 .. End(P, o) - 1
      BY <1>1, <1>2, <2>2
    <3> QED
      BY <1>2, <1>3, <3>1
  <2> QED
    BY <2>1, <2>2
<1>5. Level(P, o) \in Nat
  <2>1. PICK d : Around(P, o, d)
    BY <1>1, AroundExists
  <2> QED
    BY <2>1 DEF Around
<1>6. c \in Seq(DOMAIN P) /\ Len(c) = Level(P, q) /\ DOMAIN c = 1 .. Len(c) /\ Len(c) \in Nat
  BY DEF Around
<1> DEFINE k == Level(P, o) + 1
<1>7. k \in DOMAIN c
  BY <1>3, <1>4, <1>5, <1>6
<1>8. /\ Opens(P, c[k]) /\ c[k] < q /\ q <= End(P, c[k]) /\ Level(P, c[k]) = k - 1
      /\ c[k] \in DOMAIN P
  BY <1>6, <1>7 DEF Around
<1>9. Level(P, c[k]) = Level(P, o)
  BY <1>3, <1>8
<1> HIDE DEF k
<1>10. c[k] = o
  BY <1>1, <1>8, <1>9, OneConstruct
<1> QED
  BY <1>7, <1>10

\* from the outside in.
LEMMA AroundOrder ==
  ASSUME NEW P, IsBody(P), NEW q \in 1 .. Len(P) + 1, NEW c, Around(P, q, c),
         NEW k \in DOMAIN c, NEW l \in DOMAIN c, k < l
  PROVE  c[k] < c[l]
<1>1. Closed(P) /\ Len(P) \in Nat /\ DOMAIN P = 1 .. Len(P)
  BY DEF IsBody, Closed
<1>2. c \in Seq(DOMAIN P) /\ DOMAIN c = 1 .. Len(c) /\ Len(c) \in Nat
  BY DEF Around
<1>3. /\ Opens(P, c[k]) /\ c[k] < q /\ q <= End(P, c[k]) /\ Level(P, c[k]) = k - 1 /\ c[k] \in DOMAIN P
      /\ Opens(P, c[l]) /\ c[l] < q /\ q <= End(P, c[l]) /\ Level(P, c[l]) = l - 1 /\ c[l] \in DOMAIN P
  BY <1>2 DEF Around
<1>4. c[k] # c[l]
  BY AroundDistinct
<1>5. SUFFICES ASSUME c[l] < c[k] PROVE FALSE
  BY <1>1, <1>3, <1>4
<1>6. /\ End(P, c[l]) \in DOMAIN P
      /\ \A r \in c[l] + 1 .. End(P, c[l]) - 1 : Level(P, r) > Level(P, c[l])
  BY <1>1, <1>3, EndCloses
<1>7. c[k] \in c[l] + 1 .. End(P, c[l]) - 1
  BY <1>1, <1>3, <1>5, <1>6
<1> QED
  BY <1>2, <1>3, <1>6, <1>7

\* The construct an else or an end belongs to is the innermost.
LEMMA ConstructIs ==
  ASSUME NEW P, IsBody(P), NEW q \in DOMAIN P, Level(P, q) > 0, NEW c, Around(P, q, c)
  PROVE  /\ c # << >> /\ Len(c) \in DOMAIN c /\ Construct(P, q) = c[Len(c)]
         /\ c[Len(c)] \in DOMAIN P /\ Opens(P, c[Len(c)]) /\ c[Len(c)] < q /\ q <= End(P, c[Len(c)])
         /\ Level(P, c[Len(c)]) + 1 = Level(P, q)
<1>1. Closed(P) /\ Len(P) \in Nat /\ DOMAIN P = 1 .. Len(P) /\ q \in Nat
  BY DEF IsBody, Closed
<1>2. c \in Seq(DOMAIN P) /\ Len(c) = Level(P, q) /\ DOMAIN c = 1 .. Len(c) /\ Len(c) \in DOMAIN c /\ c # << >>
  BY DEF Around
<1> DEFINE o == c[Len(c)]
           Is(x) == Opens(P, x) /\ Level(P, x) + 1 = Level(P, q) /\ q <= End(P, x)
<1>3. o \in DOMAIN P /\ o < q /\ Is(o)
  BY <1>2 DEF Around
<1>4. o \in 1 .. q - 1
  BY <1>1, <1>3
<1>5. ASSUME NEW x \in 1 .. q - 1, Is(x)
      PROVE  x = o
  <2>1. x \in DOMAIN P /\ x < q /\ x \in Nat \ {0} /\ o \in Nat \ {0}
    BY <1>1, <1>4, <1>5
  <2>2. Level(P, x) = Level(P, o)
    <3>1. Level(P, x) \in Int /\ Level(P, o) \in Int
      BY <2>1, LevelOfNext
    <3> QED
      BY <3>1, <1>3, <1>5
  <2> QED
    BY <1>1, <1>3, <1>5, <2>1, <2>2, OneConstruct
<1>6. Construct(P, q) = CHOOSE x \in 1 .. q - 1 : Is(x)
  BY Zenon DEF Construct
<1> HIDE DEF Is
<1>7. Construct(P, q) = o
  BY <1>4, <1>3, <1>5, <1>6
<1> QED
  BY <1>2, <1>3, <1>7 DEF Is

\* The innermost loop is the last one around.
LEMMA LoopFacts ==
  ASSUME NEW P, IsBody(P), NEW q \in DOMAIN P
  PROVE  \/ /\ Loop(P, q) = 0
            /\ \A o \in 1 .. q - 1 : ~(P[o].k = "while" /\ Within(P, q, o))
         \/ /\ Loop(P, q) \in 1 .. q - 1 /\ Loop(P, q) \in DOMAIN P /\ Loop(P, q) # 0
            /\ P[Loop(P, q)].k = "while" /\ Within(P, q, Loop(P, q))
            /\ \A o \in 1 .. q - 1 : P[o].k = "while" /\ Within(P, q, o) => o <= Loop(P, q)
<1> DEFINE around == {o \in 1 .. q - 1 : P[o].k = "while" /\ Within(P, q, o)}
<1>1. Len(P) \in Nat /\ DOMAIN P = 1 .. Len(P) /\ q \in Nat /\ q - 1 \in Nat
  BY DEF IsBody, Closed
<1>2. Loop(P, q) = IF around = {} THEN 0 ELSE CHOOSE o \in around : \A r \in around : r <= o
  BY Zenon DEF Loop
<1>3. CASE around = {}
  BY <1>2, <1>3
<1>4. CASE around # {}
  <2>1. \E o \in around : \A r \in around : r <= o
    <3>1. around \subseteq 1 .. q - 1
      OBVIOUS
    <3> HIDE DEF around
    <3> QED
      BY <1>1, <1>4, <3>1, MaxExists
  <2>2. Loop(P, q) \in around /\ \A r \in around : r <= Loop(P, q)
    <3> HIDE DEF around
    <3> QED
      BY <1>2, <1>4, <2>1
  <2> QED
    BY <1>1, <2>2
<1> QED
  BY <1>3, <1>4

-----------------------------------------------------------------------------
(* Where control is *)

\* The step Here takes from x.
Hop(P, f, x) ==
  IF x = Bottom(P) THEN x
  ELSE CASE P[x].k = "else" -> f[End(P, Construct(P, x)) + 1]
         [] P[x].k = "end" -> IF P[Construct(P, x)].k = "while" THEN Construct(P, x) ELSE f[x + 1]
         [] P[x].k = "break" /\ Loop(P, x) # 0 -> f[End(P, Loop(P, x)) + 1]
         [] P[x].k = "continue" /\ Loop(P, x) # 0 -> Loop(P, x)
         [] OTHER -> x

\* What a hop meets: it leads on, or to a loop.
LEMMA HopFacts ==
  ASSUME NEW P, IsBody(P), NEW q \in DOMAIN P
  PROVE  /\ P[q].k \in {"else", "end"} =>
              /\ Construct(P, q) \in DOMAIN P /\ Opens(P, Construct(P, q))
              /\ Construct(P, q) < q /\ Level(P, q) = Level(P, Construct(P, q)) + 1
         /\ P[q].k = "else" =>
              /\ P[Construct(P, q)].k = "if" /\ Else(P, Construct(P, q)) = q
              /\ q < End(P, Construct(P, q)) /\ End(P, Construct(P, q)) \in DOMAIN P
         /\ P[q].k = "end" => End(P, Construct(P, q)) = q
         /\ Loop(P, q) # 0 =>
              /\ Loop(P, q) \in DOMAIN P /\ P[Loop(P, q)].k = "while" /\ Opens(P, Loop(P, q))
              /\ Loop(P, q) < q /\ q < End(P, Loop(P, q)) /\ End(P, Loop(P, q)) \in DOMAIN P
<1>1. Closed(P) /\ Len(P) \in Nat /\ DOMAIN P = 1 .. Len(P) /\ q \in Nat /\ q \in 1 .. Len(P) + 1
  BY DEF IsBody, Closed
<1>2. PICK c : Around(P, q, c)
  BY <1>1, AroundExists
<1>3. ASSUME P[q].k \in {"else", "end"}
      PROVE  /\ Construct(P, q) = c[Len(c)] /\ c # << >>
             /\ Construct(P, q) \in DOMAIN P /\ Opens(P, Construct(P, q))
             /\ Construct(P, q) < q /\ Level(P, q) = Level(P, Construct(P, q)) + 1
  <2>1. Level(P, q) > 0
    BY <1>3 DEF IsBody
  <2> QED
    BY <1>2, <2>1, ConstructIs
<1>4. ASSUME P[q].k = "else"
      PROVE  /\ P[Construct(P, q)].k = "if" /\ Else(P, Construct(P, q)) = q
             /\ q < End(P, Construct(P, q)) /\ End(P, Construct(P, q)) \in DOMAIN P
  <2>1. P[c[Len(c)]].k = "if" /\ Else(P, c[Len(c)]) = q
    BY <1>2, <1>4, ElseOfInnermost
  <2>2. Else(P, Construct(P, q)) # 0
    BY <1>1, <1>3, <1>4, <2>1
  <2> QED
    BY <1>1, <1>3, <1>4, <2>1, <2>2, ElseInside, EndCloses
<1>5. ASSUME P[q].k = "end"
      PROVE  End(P, Construct(P, q)) = q
  <2>1. Level(P, q) > 0
    BY <1>5 DEF IsBody
  <2> QED
    BY <1>1, <1>2, <1>3, <1>5, <2>1, AroundOutside
<1>6. ASSUME Loop(P, q) # 0
      PROVE  /\ Loop(P, q) \in DOMAIN P /\ P[Loop(P, q)].k = "while" /\ Opens(P, Loop(P, q))
             /\ Loop(P, q) < q /\ q < End(P, Loop(P, q)) /\ End(P, Loop(P, q)) \in DOMAIN P
  <2>1. Loop(P, q) \in DOMAIN P /\ P[Loop(P, q)].k = "while" /\ Within(P, q, Loop(P, q))
    BY <1>6, LoopFacts
  <2>2. End(P, Loop(P, q)) \in DOMAIN P
    BY <1>1, <2>1, EndCloses DEF Within
  <2> QED
    BY <2>1, <2>2 DEF Within
<1> QED
  BY <1>3, <1>4, <1>5, <1>6

\* Here is a function of positions that follows Hop.
LEMMA HereHops ==
  ASSUME NEW P, IsBody(P)
  PROVE  \E h \in [1 .. Bottom(P) -> 1 .. Bottom(P)] :
           /\ \A q : Here(P, q) = h[q]
           /\ \A q \in 1 .. Bottom(P) : h[q] = Hop(P, h, q)
<1> DEFINE S == 1 .. Bottom(P)
           rank == [q \in S |-> Bottom(P) - q]
           rule == [q \in S |-> [f \in [S -> S] |-> Hop(P, f, q)]]
           h == CHOOSE f : f = [x \in 1 .. Bottom(P) |-> Hop(P, f, x)]
<1>1. /\ Len(P) \in Nat /\ DOMAIN P = 1 .. Len(P) /\ Bottom(P) \in Nat /\ Bottom(P) = Len(P) + 1
      /\ \A q \in S : q # Bottom(P) => q \in DOMAIN P
      /\ \A q \in DOMAIN P : q \in S /\ q + 1 \in S
  BY DEF IsBody, Closed, Bottom
<1>2. ASSUME NEW q \in S, NEW f, \A x \in S : q < x => f[x] \in S
      PROVE  Hop(P, f, q) \in S
  <2>1. CASE q = Bottom(P)
    BY <2>1 DEF Hop
  <2>2. CASE q # Bottom(P)
    <3>1. q \in DOMAIN P /\ \A x \in DOMAIN P : q <= x => f[x + 1] \in S
      BY <1>1, <1>2, <2>2
    <3>2. /\ P[q].k = "else" => f[End(P, Construct(P, q)) + 1] \in S
          /\ P[q].k = "end" => Construct(P, q) \in S /\ f[q + 1] \in S
          /\ Loop(P, q) # 0 => f[End(P, Loop(P, q)) + 1] \in S /\ Loop(P, q) \in S
      <4>1. \A x \in DOMAIN P : q < x => q <= x
        BY <1>1, <3>1
      <4>2. q <= q
        BY <1>1, <3>1
      <4> QED
        BY <1>1, <3>1, <4>1, <4>2, HopFacts
    <3> QED
      BY <3>2 DEF Hop
  <2> QED
    BY <2>1, <2>2
<1>3. ASSUME NEW q \in S, NEW f \in [S -> S], NEW g \in [S -> S],
             \A x \in S : rank[x] < rank[q] => f[x] = g[x]
      PROVE  Hop(P, f, q) = Hop(P, g, q)
  <2>1. CASE q = Bottom(P)
    BY <2>1 DEF Hop
  <2>2. CASE q # Bottom(P)
    <3>1. q \in DOMAIN P
      BY <1>1, <2>2
    <3>2. \A x \in DOMAIN P : q <= x => f[x + 1] = g[x + 1]
      BY <1>1, <1>3, <3>1
    <3>3. /\ P[q].k = "else" => f[End(P, Construct(P, q)) + 1] = g[End(P, Construct(P, q)) + 1]
          /\ P[q].k = "end" => f[q + 1] = g[q + 1]
          /\ Loop(P, q) # 0 => f[End(P, Loop(P, q)) + 1] = g[End(P, Loop(P, q)) + 1]
      <4>1. \A x \in DOMAIN P : q < x => q <= x
        BY <1>1, <3>1
      <4>2. q <= q
        BY <1>1, <3>1
      <4> QED
        BY <3>1, <3>2, <4>1, <4>2, HopFacts
    <3> QED
      BY <3>3 DEF Hop
  <2> QED
    BY <2>1, <2>2
<1>4. Recursive(S, S, rank, rule)
  <2>1. \A q \in S : Bottom(P) - q \in Nat
    BY <1>1
  <2>2. rank \in [S -> Nat]
    BY <2>1
  <2>3. rule \in [S -> [[S -> S] -> S]]
    <3>1. \A q \in S : \A f \in [S -> S] : Hop(P, f, q) \in S
      BY <1>2
    <3> QED
      BY <3>1
  <2> HIDE DEF S, rank
  <2>4. \A q \in S : \A f, g \in [S -> S] :
          (\A x \in S : rank[x] < rank[q] => f[x] = g[x]) => rule[q][f] = rule[q][g]
    BY <1>3
  <2> HIDE DEF rule
  <2> QED
    BY <2>2, <2>3, <2>4 DEF Recursive
<1>5. 1 \in S
  BY <1>1
<1>6. PICK f \in [S -> S] : \A q \in S : f[q] = rule[q][f]
  <2> HIDE DEF S, rule, rank
  <2> QED
    BY <1>4, <1>5, RecursionExists
<1>7. h = [x \in S |-> Hop(P, h, x)]
  <2>1. f = [x \in S |-> Hop(P, f, x)]
    BY <1>6
  <2> QED
    BY <2>1
<1>8. \A q : Here(P, q) = h[q]
  BY Zenon DEF Here, Hop
<1> HIDE DEF h
<1>9. \A x \in S : h[x] \in S
  <2> DEFINE Bad == {x \in S : h[x] \notin S}
  <2>1. SUFFICES ASSUME Bad # {} PROVE FALSE
    OBVIOUS
  <2>2. PICK x \in Bad : \A y \in Bad : y <= x
    <3>1. Bad \subseteq S
      OBVIOUS
    <3> HIDE DEF Bad
    <3> QED
      BY <1>1, <2>1, <3>1, MaxExists
  <2>3. x \in S /\ h[x] \notin S
    BY <2>2
  <2>4. \A y \in S : x < y => h[y] \in S
    BY <1>1, <2>2, <2>3
  <2>5. Hop(P, h, x) \in S
    BY <1>2, <2>3, <2>4
  <2> QED
    BY <1>7, <2>3, <2>5
<1>10. h \in [S -> S] /\ \A x \in S : h[x] = Hop(P, h, x)
  BY <1>7, <1>9
<1> QED
  BY <1>8, <1>10

\* Where control is when it comes to q.
LEMMA HereFacts ==
  ASSUME NEW P, IsBody(P), NEW q \in 1 .. Bottom(P)
  PROVE  /\ Here(P, q) \in 1 .. Bottom(P)
         /\ q = Bottom(P) => Here(P, q) = q
         /\ q # Bottom(P) => q \in DOMAIN P
         /\ q \in DOMAIN P =>
              /\ P[q].k \in {"do", "ret", "if", "while"} => Here(P, q) = q
              /\ P[q].k = "else" => Here(P, q) = Here(P, End(P, Construct(P, q)) + 1)
              /\ P[q].k = "end" =>
                   Here(P, q) = IF P[Construct(P, q)].k = "while" THEN Construct(P, q) ELSE Here(P, q + 1)
              /\ P[q].k = "break" /\ Loop(P, q) # 0 => Here(P, q) = Here(P, End(P, Loop(P, q)) + 1)
              /\ P[q].k = "continue" /\ Loop(P, q) # 0 => Here(P, q) = Loop(P, q)
<1>1. PICK h \in [1 .. Bottom(P) -> 1 .. Bottom(P)] :
         /\ \A x : Here(P, x) = h[x]
         /\ \A x \in 1 .. Bottom(P) : h[x] = Hop(P, h, x)
  BY HereHops
<1>2. Len(P) \in Nat /\ DOMAIN P = 1 .. Len(P) /\ Bottom(P) = Len(P) + 1
  BY DEF IsBody, Closed, Bottom
<1>3. h[q] = Hop(P, h, q) /\ Here(P, q) = h[q] /\ h[q] \in 1 .. Bottom(P)
  BY <1>1
<1>4. ASSUME q \in DOMAIN P
      PROVE  q # Bottom(P)
  BY <1>2, <1>4
<1>5. Here(P, q) = Hop(P, h, q) /\ \A x : h[x] = Here(P, x)
  BY <1>1, <1>3
<1> HIDE DEF Hop
<1>6. ASSUME q # Bottom(P)
      PROVE  Hop(P, h, q) = CASE P[q].k = "else" -> h[End(P, Construct(P, q)) + 1]
         [] P[q].k = "end" -> IF P[Construct(P, q)].k = "while" THEN Construct(P, q) ELSE h[q + 1]
         [] P[q].k = "break" /\ Loop(P, q) # 0 -> h[End(P, Loop(P, q)) + 1]
         [] P[q].k = "continue" /\ Loop(P, q) # 0 -> Loop(P, q)
         [] OTHER -> q
  BY <1>6 DEF Hop
<1>7. q = Bottom(P) => Hop(P, h, q) = q
  BY DEF Hop
<1>8. CASE q = Bottom(P)
  BY <1>3, <1>4, <1>7, <1>8
<1>9. CASE q # Bottom(P)
  <2>1. q \in DOMAIN P
    BY <1>2, <1>9
  <2>2. P[q].k \in {"do", "ret", "if", "while"} => Here(P, q) = q
    BY <1>5, <1>6, <1>9
  <2>3. P[q].k = "else" => Here(P, q) = Here(P, End(P, Construct(P, q)) + 1)
    BY <1>5, <1>6, <1>9
  <2>4. P[q].k = "end" =>
          Here(P, q) = IF P[Construct(P, q)].k = "while" THEN Construct(P, q) ELSE Here(P, q + 1)
    BY <1>5, <1>6, <1>9
  <2>5. P[q].k = "break" /\ Loop(P, q) # 0 => Here(P, q) = Here(P, End(P, Loop(P, q)) + 1)
    BY <1>5, <1>6, <1>9
  <2>6. P[q].k = "continue" /\ Loop(P, q) # 0 => Here(P, q) = Loop(P, q)
    BY <1>5, <1>6, <1>9
  <2> QED
    BY <1>3, <1>9, <2>1, <2>2, <2>3, <2>4, <2>5, <2>6
<1> QED
  BY <1>8, <1>9

\* Control is where something is done, or at the bottom.
Stops(P) == {q \in DOMAIN P : P[q].k \in {"do", "ret", "if", "while"}} \cup {Bottom(P)}

\* Control is at a statement that does something, or at the bottom.
LEMMA HereStops ==
  ASSUME NEW P, IsBody(P), JumpsInLoops(P), NEW q \in 1 .. Bottom(P)
  PROVE  Here(P, q) \in Stops(P)
<1> DEFINE Bad == {x \in 1 .. Bottom(P) : Here(P, x) \notin Stops(P)}
<1>1. Len(P) \in Nat /\ DOMAIN P = 1 .. Len(P) /\ Bottom(P) = Len(P) + 1 /\ Bottom(P) \in Nat
  BY DEF IsBody, Closed, Bottom
<1>2. SUFFICES ASSUME Bad # {} PROVE FALSE
  OBVIOUS
<1>3. PICK x \in Bad : \A y \in Bad : y <= x
  <2>1. Bad \subseteq 1 .. Bottom(P)
    OBVIOUS
  <2> HIDE DEF Bad
  <2> QED
    BY <1>1, <1>2, <2>1, MaxExists
<1>4. x \in 1 .. Bottom(P) /\ Here(P, x) \notin Stops(P)
  BY <1>3
<1>5. \A y \in 1 .. Bottom(P) : x < y => Here(P, y) \in Stops(P)
  BY <1>1, <1>3, <1>4
<1> HIDE DEF Bad
<1>6. x \in DOMAIN P
  BY <1>4, HereFacts DEF Stops
<1>7. P[x].k \in BodyKinds
  BY <1>6 DEF IsBody
<1>8. CASE P[x].k \in {"do", "ret", "if", "while"}
  BY <1>4, <1>6, <1>8, HereFacts DEF Stops
<1>9. CASE P[x].k = "else"
  <2>1. End(P, Construct(P, x)) + 1 \in 1 .. Bottom(P) /\ x < End(P, Construct(P, x)) + 1
    BY <1>1, <1>6, <1>9, HopFacts
  <2> QED
    BY <1>4, <1>5, <1>6, <1>9, <2>1, HereFacts
<1>10. CASE P[x].k = "end"
  <2>1. Construct(P, x) \in DOMAIN P /\ x + 1 \in 1 .. Bottom(P) /\ x < x + 1
    BY <1>1, <1>6, <1>10, HopFacts
  <2>2. P[Construct(P, x)].k = "while" => Construct(P, x) \in Stops(P)
    BY <2>1 DEF Stops
  <2> QED
    BY <1>4, <1>5, <1>6, <1>10, <2>1, <2>2, HereFacts
<1>11. CASE P[x].k \in {"break", "continue"}
  <2>1. Loop(P, x) # 0
    BY <1>1, <1>6, <1>11 DEF JumpsInLoops, Positions
  <2>2. /\ Loop(P, x) \in DOMAIN P /\ P[Loop(P, x)].k = "while"
        /\ End(P, Loop(P, x)) + 1 \in 1 .. Bottom(P) /\ x < End(P, Loop(P, x)) + 1
    BY <1>1, <1>6, <2>1, HopFacts
  <2>3. Loop(P, x) \in Stops(P)
    BY <2>2 DEF Stops
  <2> QED
    BY <1>4, <1>5, <1>6, <1>11, <2>1, <2>2, <2>3, HereFacts
<1> QED
  BY <1>7, <1>8, <1>9, <1>10, <1>11 DEF BodyKinds

-----------------------------------------------------------------------------
(* The loops that are being emitted *)

\* The loop stack holds the loops that are running, from the outside in.
LoopsAre(P, cs, loops) ==
  /\ \A j \in DOMAIN cs : P[cs[j]].k = "while" => \E k \in DOMAIN loops : loops[k] = cs[j]
  /\ \A k \in DOMAIN loops : P[loops[k]].k = "while" /\ \E j \in DOMAIN cs : cs[j] = loops[k]
  /\ \A k, l \in DOMAIN loops : k < l => loops[k] < loops[l]

\* The innermost loop that is being emitted is the one around the token.
LEMMA LastLoop ==
  ASSUME NEW P, IsBody(P), NEW q \in DOMAIN P, P[q].k # "end", NEW cs, Around(P, q, cs),
         NEW loops \in Seq(DOMAIN P), LoopsAre(P, cs, loops)
  PROVE  /\ loops = << >> <=> Loop(P, q) = 0
         /\ loops # << >> => Len(loops) \in DOMAIN loops /\ loops[Len(loops)] = Loop(P, q)
<1>1. Closed(P) /\ Len(P) \in Nat /\ DOMAIN P = 1 .. Len(P) /\ q \in Nat
  BY DEF IsBody, Closed
<1>2. cs \in Seq(DOMAIN P) /\ DOMAIN loops = 1 .. Len(loops) /\ Len(loops) \in Nat
  BY DEF Around
<1>3. ASSUME NEW o, \E k \in DOMAIN loops : loops[k] = o
      PROVE  o \in 1 .. q - 1 /\ P[o].k = "while" /\ Within(P, q, o)
  <2>1. PICK j \in DOMAIN cs : cs[j] = o
    BY <1>3 DEF LoopsAre
  <2>2. P[o].k = "while" /\ o \in DOMAIN P /\ Opens(P, o) /\ o < q /\ q <= End(P, o)
    BY <1>2, <1>3, <2>1 DEF LoopsAre, Around
  <2>3. q # End(P, o) /\ End(P, o) \in Nat
    BY <1>1, <2>2, EndCloses
  <2> QED
    BY <1>1, <2>2, <2>3 DEF Within
<1>4. ASSUME NEW o \in 1 .. q - 1, P[o].k = "while", Within(P, q, o)
      PROVE  \E k \in DOMAIN loops : loops[k] = o
  <2>1. o \in DOMAIN P /\ Opens(P, o) /\ o < q /\ q < End(P, o) /\ End(P, o) \in Nat /\ q <= End(P, o)
    <3>1. o \in DOMAIN P /\ Opens(P, o) /\ o < q /\ q < End(P, o)
      BY <1>1, <1>4 DEF Within
    <3>2. End(P, o) \in DOMAIN P
      BY <1>1, <3>1, EndCloses
    <3> QED
      BY <1>1, <3>1, <3>2
  <2>2. \E k \in DOMAIN cs : cs[k] = o
    BY <2>1, InAround
  <2>3. PICK k \in DOMAIN cs : cs[k] = o
    BY <2>2
  <2> QED
    BY <1>4, <2>3 DEF LoopsAre
<1>5. CASE loops = << >>
  <2>1. ~\E k \in DOMAIN loops : TRUE
    BY <1>5
  <2>2. Loop(P, q) = 0
    BY <1>4, <2>1, LoopFacts
  <2> QED
    BY <1>5, <2>2
<1>6. CASE loops # << >>
  <2> DEFINE n == Len(loops)
  <2>1. n \in DOMAIN loops
    BY <1>2, <1>6
  <2>2. loops[n] \in 1 .. q - 1 /\ P[loops[n]].k = "while" /\ Within(P, q, loops[n])
    BY <1>3, <2>1
  <2>3. /\ Loop(P, q) \in 1 .. q - 1 /\ P[Loop(P, q)].k = "while" /\ Within(P, q, Loop(P, q))
        /\ loops[n] <= Loop(P, q) /\ Loop(P, q) # 0
    BY <2>2, LoopFacts
  <2>4. PICK k \in DOMAIN loops : loops[k] = Loop(P, q)
    BY <1>4, <2>3
  <2>5. k = n
    <3>1. SUFFICES ASSUME k < n PROVE FALSE
      BY <1>2, <2>1
    <3>2. loops[k] < loops[n]
      BY <2>1, <3>1 DEF LoopsAre
    <3> QED
      BY <1>1, <2>2, <2>3, <2>4, <3>2
  <2> QED
    BY <1>6, <2>1, <2>3, <2>4, <2>5
<1> QED
  BY <1>5, <1>6

\* A loop is entered,
LEMMA LoopsEntered ==
  ASSUME NEW P, IsBody(P), NEW q \in DOMAIN P, NEW cs, Around(P, q, cs),
         NEW loops \in Seq(DOMAIN P), LoopsAre(P, cs, loops), P[q].k \in {"if", "while"}
  PROVE  LoopsAre(P, Append(cs, q), IF P[q].k = "while" THEN Append(loops, q) ELSE loops)
<1> DEFINE d == Append(cs, q)
           e == IF P[q].k = "while" THEN Append(loops, q) ELSE loops
<1>1. cs \in Seq(DOMAIN P) /\ DOMAIN P = 1 .. Len(P) /\ Len(P) \in Nat
  BY DEF Around, IsBody, Closed
<1>2. /\ DOMAIN d = DOMAIN cs \cup {Len(cs) + 1} /\ d[Len(cs) + 1] = q
      /\ \A j \in DOMAIN cs : d[j] = cs[j] /\ cs[j] < q
  <2>1. \A j \in DOMAIN cs : cs[j] < q
    BY DEF Around
  <2> QED
    BY <1>1, <2>1
<1>3. /\ DOMAIN loops = 1 .. Len(loops) /\ Len(loops) \in Nat /\ \A k \in DOMAIN loops : loops[k] < q
      /\ \A k \in DOMAIN loops : loops[k] \in DOMAIN P
  BY <1>2 DEF LoopsAre
<1>4. CASE P[q].k = "while"
  <2>1. /\ DOMAIN e = DOMAIN loops \cup {Len(loops) + 1} /\ e[Len(loops) + 1] = q
        /\ \A k \in DOMAIN loops : e[k] = loops[k]
    BY <1>1, <1>3, <1>4
  <2> HIDE DEF e, d
  <2>2. \A k, l \in DOMAIN e : k < l => e[k] < e[l]
    <3> TAKE k, l \in DOMAIN e
    <3> HAVE k < l
    <3>1. k \in DOMAIN loops
      BY <1>3, <2>1
    <3> QED
      BY <1>3, <2>1, <3>1 DEF LoopsAre
  <2>3. \A j \in DOMAIN d : P[d[j]].k = "while" => \E k \in DOMAIN e : e[k] = d[j]
    <3> TAKE j \in DOMAIN d
    <3> HAVE P[d[j]].k = "while"
    <3>1. CASE j \in DOMAIN cs
      <4>1. PICK k \in DOMAIN loops : loops[k] = cs[j]
        BY <1>2, <3>1 DEF LoopsAre
      <4> QED
        BY <1>2, <2>1, <3>1, <4>1
    <3>2. CASE j = Len(cs) + 1
      BY <1>2, <2>1, <3>2
    <3> QED
      BY <1>2, <3>1, <3>2
  <2>4. \A k \in DOMAIN e : P[e[k]].k = "while" /\ \E j \in DOMAIN d : d[j] = e[k]
    <3> TAKE k \in DOMAIN e
    <3>1. CASE k \in DOMAIN loops
      <4>1. PICK j \in DOMAIN cs : cs[j] = loops[k]
        BY <3>1 DEF LoopsAre
      <4> QED
        BY <1>2, <2>1, <3>1, <4>1 DEF LoopsAre
    <3>2. CASE k = Len(loops) + 1
      BY <1>2, <1>4, <2>1, <3>2
    <3> QED
      BY <2>1, <3>1, <3>2
  <2>5. LoopsAre(P, d, e)
    BY <2>2, <2>3, <2>4 DEF LoopsAre
  <2> QED
    BY <2>5 DEF d, e
<1>5. CASE P[q].k # "while"
  <2>1. e = loops
    BY <1>5
  <2> HIDE DEF d, e
  <2>2. \A j \in DOMAIN d : P[d[j]].k = "while" => \E k \in DOMAIN loops : loops[k] = d[j]
    BY <1>2, <1>5 DEF LoopsAre
  <2>3. \A k \in DOMAIN loops : P[loops[k]].k = "while" /\ \E j \in DOMAIN d : d[j] = loops[k]
    <3> TAKE k \in DOMAIN loops
    <3>1. PICK j \in DOMAIN cs : cs[j] = loops[k]
      BY DEF LoopsAre
    <3> QED
      BY <1>2, <3>1 DEF LoopsAre
  <2>4. LoopsAre(P, d, e)
    BY <2>1, <2>2, <2>3 DEF LoopsAre
  <2> QED
    BY <2>4 DEF d, e
<1> QED
  BY <1>4, <1>5

\* and left.
LEMMA LoopsLeft ==
  ASSUME NEW P, IsBody(P), NEW q \in DOMAIN P, P[q].k = "end", NEW cs, Around(P, q, cs),
         NEW loops \in Seq(DOMAIN P), LoopsAre(P, cs, loops)
  PROVE  LoopsAre(P, SubSeq(cs, 1, Len(cs) - 1),
                  IF P[cs[Len(cs)]].k = "while" THEN SubSeq(loops, 1, Len(loops) - 1) ELSE loops)
<1> DEFINE r == cs[Len(cs)]
           d == SubSeq(cs, 1, Len(cs) - 1)
           e == IF P[r].k = "while" THEN SubSeq(loops, 1, Len(loops) - 1) ELSE loops
<1>1. Closed(P) /\ DOMAIN P = 1 .. Len(P) /\ Len(P) \in Nat /\ cs \in Seq(DOMAIN P) /\ q \in 1 .. Len(P) + 1
  BY DEF Around, IsBody, Closed
<1>2. Len(cs) \in DOMAIN cs /\ cs # << >>
  <2>1. Level(P, q) > 0
    BY DEF IsBody
  <2> QED
    BY <2>1, ConstructIs
<1>3. /\ Len(cs) \in Nat \ {0} /\ DOMAIN cs = 1 .. Len(cs)
      /\ DOMAIN d = 1 .. Len(cs) - 1 /\ \A j \in DOMAIN d : d[j] = cs[j] /\ j \in DOMAIN cs
  <2>1. Len(cs) \in Nat \ {0} /\ d \in Seq(DOMAIN P) /\ Len(d) = Len(cs) - 1
        /\ \A k \in 1 .. Len(cs) - 1 : d[k] = cs[k]
    BY <1>1, <1>2, AllButLast
  <2>2. DOMAIN d = 1 .. Len(cs) - 1 /\ DOMAIN cs = 1 .. Len(cs)
    BY <1>1, <2>1
  <2> QED
    BY <2>1, <2>2
<1>4. \A j \in DOMAIN d : cs[j] < r
  <2> TAKE j \in DOMAIN d
  <2>1. j \in DOMAIN cs /\ j < Len(cs)
    BY <1>3
  <2> QED
    BY <1>1, <1>2, <2>1, AroundOrder
<1>5. DOMAIN loops = 1 .. Len(loops) /\ Len(loops) \in Nat /\ \A k \in DOMAIN loops : loops[k] \in Nat
  BY <1>1
<1>6. CASE P[r].k = "while"
  <2>1. PICK n \in DOMAIN loops : loops[n] = r
    BY <1>2, <1>6 DEF LoopsAre
  <2>2. loops # << >>
    BY <2>1
  <2>3. /\ Len(loops) \in DOMAIN loops
        /\ DOMAIN e = 1 .. Len(loops) - 1 /\ \A k \in DOMAIN e : e[k] = loops[k] /\ k \in DOMAIN loops
    <3>1. Len(loops) \in Nat \ {0} /\ e \in Seq(DOMAIN P) /\ Len(e) = Len(loops) - 1
          /\ \A k \in 1 .. Len(loops) - 1 : e[k] = loops[k]
      BY <1>6, <2>2, AllButLast
    <3> HIDE DEF e
    <3>2. DOMAIN e = 1 .. Len(loops) - 1
      BY <3>1
    <3> QED
      BY <1>5, <3>1, <3>2
  <2>4. \A k \in DOMAIN loops : loops[k] <= r
    <3> TAKE k \in DOMAIN loops
    <3>1. PICK j \in DOMAIN cs : cs[j] = loops[k]
      BY DEF LoopsAre
    <3>2. j = Len(cs) \/ j \in DOMAIN d
      BY <1>3
    <3>3. r \in Nat /\ cs[j] \in Nat
      BY <1>1, <1>2
    <3> QED
      BY <1>4, <3>1, <3>2, <3>3
  <2>5. n = Len(loops)
    <3>1. SUFFICES ASSUME n < Len(loops) PROVE FALSE
      BY <1>5
    <3>2. loops[n] < loops[Len(loops)]
      BY <2>3, <3>1 DEF LoopsAre
    <3> QED
      BY <1>5, <2>1, <2>3, <2>4, <3>2
  <2> HIDE DEF d, e, r
  <2>6. \A k, l \in DOMAIN e : k < l => e[k] < e[l]
    BY <2>3 DEF LoopsAre
  <2>7. \A j \in DOMAIN d : P[d[j]].k = "while" => \E k \in DOMAIN e : e[k] = d[j]
    <3> TAKE j \in DOMAIN d
    <3> HAVE P[d[j]].k = "while"
    <3>1. PICK k \in DOMAIN loops : loops[k] = cs[j]
      BY <1>3 DEF LoopsAre
    <3>2. k # n
      BY <1>4, <2>1, <3>1, <1>5
    <3> QED
      BY <1>3, <1>5, <2>3, <2>5, <3>1, <3>2
  <2>8. \A k \in DOMAIN e : P[e[k]].k = "while" /\ \E j \in DOMAIN d : d[j] = e[k]
    <3> TAKE k \in DOMAIN e
    <3>1. PICK j \in DOMAIN cs : cs[j] = loops[k]
      BY <2>3 DEF LoopsAre
    <3>2. j # Len(cs)
      <4>1. loops[k] < loops[n]
        BY <1>5, <2>3, <2>5 DEF LoopsAre
      <4> QED
        BY <1>5, <2>1, <2>3, <3>1, <4>1 DEF r
    <3>3. j \in DOMAIN d
      BY <1>3, <3>2
    <3>4. d[j] = e[k] /\ P[e[k]].k = "while"
      BY <1>3, <2>3, <3>1, <3>3 DEF LoopsAre
    <3> QED
      BY <3>3, <3>4
  <2>9. LoopsAre(P, d, e)
    BY <2>6, <2>7, <2>8 DEF LoopsAre
  <2> QED
    BY <2>9 DEF d, e, r
<1>7. CASE P[r].k # "while"
  <2>1. e = loops
    BY <1>7
  <2> HIDE DEF d, e, r
  <2>2. \A j \in DOMAIN d : P[d[j]].k = "while" => \E k \in DOMAIN loops : loops[k] = d[j]
    BY <1>3 DEF LoopsAre
  <2>3. \A k \in DOMAIN loops : P[loops[k]].k = "while" /\ \E j \in DOMAIN d : d[j] = loops[k]
    <3> TAKE k \in DOMAIN loops
    <3>1. PICK j \in DOMAIN cs : cs[j] = loops[k]
      BY DEF LoopsAre
    <3>2. j # Len(cs)
      BY <1>7, <3>1 DEF LoopsAre, r
    <3>3. j \in DOMAIN d
      BY <1>3, <3>2
    <3>4. d[j] = loops[k] /\ P[loops[k]].k = "while"
      BY <1>3, <3>1, <3>3 DEF LoopsAre
    <3> QED
      BY <3>3, <3>4
  <2>4. LoopsAre(P, d, e)
    BY <2>1, <2>2, <2>3 DEF LoopsAre
  <2> QED
    BY <2>4 DEF d, e, r
<1> QED
  BY <1>6, <1>7

-----------------------------------------------------------------------------
(* Blocks and the text *)

\* The position whose code a block begins with.
Origin(P, b) ==
  CASE b[2] = "entry" -> 1
    [] b[2] \in {"then", "while.body"} -> b[1] + 1
    [] b[2] = "else" -> Else(P, b[1]) + 1
    [] b[2] \in {"ifcont", "while.end"} -> End(P, b[1]) + 1
    [] OTHER -> b[1]

\* Where control is in the text when it enters b, and when it has run the instructions s of b.
StartsAt(P, b) == Here(P, Origin(P, b))
EndsAt(P, b, s) == IF s = << >> THEN StartsAt(P, b) ELSE Here(P, s[Len(s)] + 1)

\* Blocks that do nothing lead on to blocks of lower rank.
Rank(P, b) ==
  CASE b[2] = "while.cond" -> 0
    [] b[2] = "while.expr" -> 1
    [] OTHER -> 2 + Bottom(P) - Origin(P, b)

\* A block belongs to a construct that has such a part.
BelongsTo(P, b) ==
  b = entry \/ (/\ b[1] \in DOMAIN P /\ b[2] # "entry"
                /\ b[2] \in {"then", "else", "ifcont"} => P[b[1]].k = "if"
                /\ b[2] = "else" => Else(P, b[1]) # 0
                /\ b[2] \notin {"then", "else", "ifcont"} => P[b[1]].k = "while")

StraightLine(P, b, s) ==
  /\ s # << >> => s[1] = StartsAt(P, b)
  /\ \A k \in DOMAIN s : s[k] \in DOMAIN P /\ P[s[k]].k = "do"
  /\ \A k \in DOMAIN s : k + 1 \in DOMAIN s => s[k + 1] = Here(P, s[k] + 1)

\* The terminator t takes control to where the text does.
FlowsOn(P, b, s, t) ==
  /\ t.op # "none"
  /\ t.op = "br" => /\ StartsAt(P, t.to[1]) = EndsAt(P, b, s)
                    /\ Rank(P, t.to[1]) < Rank(P, b)
  /\ t.op = "condbr" => /\ t.q = EndsAt(P, b, s)
                        /\ t.q \in DOMAIN P /\ P[t.q].k \in {"if", "while"}
                        /\ StartsAt(P, t.to[1]) = IfTrue(P, t.q)
                        /\ StartsAt(P, t.to[2]) = IfFalse(P, t.q)
  /\ t.op = "ret" => /\ t.q = EndsAt(P, b, s)
                     /\ t.q = Bottom(P) \/ (t.q \in DOMAIN P /\ P[t.q].k = "ret")

BlocksFollow(P, c, ins) ==
  \A b \in DOMAIN c :
    /\ BelongsTo(P, b) /\ StraightLine(P, b, c[b].insts)
    /\ ~IsOpen(c, b) => FlowsOn(P, b, c[b].insts, c[b].term)
    /\ IsOpen(c, b) /\ b # ins => c[b].insts = << >>

\* What is emitted next is at q.
Points(P, c, ins, q) ==
  /\ Origin(P, ins) <= q /\ ins[2] \notin {"while.cond", "while.expr"}
  /\ IsOpen(c, ins) => EndsAt(P, ins, c[ins].insts) = Here(P, q)

\* The blocks of an if, and of a loop.
LEMMA IfBlocks ==
  ASSUME NEW P, IsBody(P), NEW q \in DOMAIN P, P[q].k = "if"
  PROVE  /\ Origin(P, then(q)) = q + 1 /\ StartsAt(P, then(q)) = IfTrue(P, q)
         /\ Origin(P, else(q)) = Else(P, q) + 1 /\ Origin(P, ifcont(q)) = End(P, q) + 1
         /\ StartsAt(P, IF Else(P, q) # 0 THEN else(q) ELSE ifcont(q)) = IfFalse(P, q)
         /\ BelongsTo(P, then(q)) /\ BelongsTo(P, ifcont(q))
         /\ Else(P, q) # 0 => BelongsTo(P, else(q))
         /\ then(q)[2] = "then" /\ else(q)[2] = "else" /\ ifcont(q)[2] = "ifcont"
<1>1. /\ then(q)[1] = q /\ else(q)[1] = q /\ ifcont(q)[1] = q
      /\ then(q)[2] = "then" /\ else(q)[2] = "else" /\ ifcont(q)[2] = "ifcont"
  BY DEF then, else, ifcont, Block
<1>2. /\ Origin(P, then(q)) = q + 1
      /\ Origin(P, else(q)) = Else(P, q) + 1 /\ Origin(P, ifcont(q)) = End(P, q) + 1
  BY <1>1 DEF Origin
<1>3. StartsAt(P, then(q)) = IfTrue(P, q)
  BY <1>2 DEF StartsAt, IfTrue
<1>4. StartsAt(P, IF Else(P, q) # 0 THEN else(q) ELSE ifcont(q)) = IfFalse(P, q)
  <2>1. CASE Else(P, q) # 0
    BY <1>2, <2>1 DEF StartsAt, IfFalse
  <2>2. CASE Else(P, q) = 0
    BY <1>2, <2>2 DEF StartsAt, IfFalse
  <2> QED
    BY <2>1, <2>2
<1>5. BelongsTo(P, then(q)) /\ BelongsTo(P, ifcont(q)) /\ (Else(P, q) # 0 => BelongsTo(P, else(q)))
  BY <1>1 DEF BelongsTo
<1> QED
  BY <1>1, <1>2, <1>3, <1>4, <1>5

\* Where the four blocks of a loop belong in the text.
LEMMA LoopBlocks ==
  ASSUME NEW P, IsBody(P), NEW q \in DOMAIN P, P[q].k = "while"
  PROVE  /\ StartsAt(P, cond(q)) = q /\ StartsAt(P, expr(q)) = q
         /\ Rank(P, cond(q)) = 0 /\ Rank(P, expr(q)) = 1
         /\ Origin(P, body(q)) = q + 1 /\ StartsAt(P, body(q)) = IfTrue(P, q)
         /\ Origin(P, after(q)) = End(P, q) + 1 /\ StartsAt(P, after(q)) = IfFalse(P, q)
         /\ BelongsTo(P, cond(q)) /\ BelongsTo(P, body(q)) /\ BelongsTo(P, expr(q))
         /\ BelongsTo(P, after(q))
         /\ body(q)[2] = "while.body" /\ after(q)[2] = "while.end"
<1>1. /\ cond(q)[1] = q /\ body(q)[1] = q /\ expr(q)[1] = q /\ after(q)[1] = q
      /\ cond(q)[2] = "while.cond" /\ body(q)[2] = "while.body" /\ expr(q)[2] = "while.expr"
      /\ after(q)[2] = "while.end"
  BY DEF cond, body, expr, after, Block
<1>2. /\ Origin(P, cond(q)) = q /\ Origin(P, expr(q)) = q
      /\ Origin(P, body(q)) = q + 1 /\ Origin(P, after(q)) = End(P, q) + 1
      /\ Rank(P, cond(q)) = 0 /\ Rank(P, expr(q)) = 1
  BY <1>1 DEF Origin, Rank
<1>3. Here(P, q) = q
  <2>1. q \in 1 .. Bottom(P)
    BY DEF IsBody, Closed, Bottom
  <2> QED
    BY <2>1, HereFacts
<1>4. /\ StartsAt(P, cond(q)) = q /\ StartsAt(P, expr(q)) = q
      /\ StartsAt(P, body(q)) = IfTrue(P, q) /\ StartsAt(P, after(q)) = IfFalse(P, q)
  BY <1>2, <1>3 DEF StartsAt, IfTrue, IfFalse
<1>5. /\ BelongsTo(P, cond(q)) /\ BelongsTo(P, body(q)) /\ BelongsTo(P, expr(q))
      /\ BelongsTo(P, after(q))
  BY <1>1 DEF BelongsTo
<1> QED
  BY <1>1, <1>2, <1>4, <1>5

\* What a block begins with is in the body or at its bottom.
LEMMA OriginFacts ==
  ASSUME NEW P, IsBody(P), NEW b, BelongsTo(P, b)
  PROVE  Origin(P, b) \in 1 .. Bottom(P) /\ Rank(P, b) \in Nat /\ StartsAt(P, b) \in 1 .. Bottom(P)
<1>1. Closed(P) /\ Len(P) \in Nat /\ DOMAIN P = 1 .. Len(P) /\ Bottom(P) = Len(P) + 1
  BY DEF IsBody, Closed, Bottom
<1>2. Origin(P, b) \in 1 .. Bottom(P)
  <2>1. CASE b = entry
    <3>1. b[2] = "entry"
      BY <2>1 DEF entry, Block
    <3> QED
      BY <1>1, <3>1 DEF Origin
  <2>2. CASE b # entry
    <3>1. /\ b[1] \in DOMAIN P /\ b[2] # "entry" /\ P[b[1]].k \in {"if", "while"}
          /\ b[2] = "else" => Else(P, b[1]) # 0
      BY <2>2 DEF BelongsTo
    <3>2. Opens(P, b[1])
      BY <3>1 DEF Opens, Openers
    <3>3. End(P, b[1]) \in DOMAIN P /\ (Else(P, b[1]) # 0 => Else(P, b[1]) \in DOMAIN P)
      BY <1>1, <3>1, <3>2, EndCloses, ElseInside
    <3>4. \A x \in DOMAIN P : x \in 1 .. Bottom(P) /\ x + 1 \in 1 .. Bottom(P)
      BY <1>1
    <3> QED
      BY <3>1, <3>3, <3>4 DEF Origin
  <2> QED
    BY <2>1, <2>2
<1>3. Rank(P, b) \in Nat
  <2>1. 2 + Bottom(P) - Origin(P, b) \in Nat
    BY <1>1, <1>2
  <2> QED
    BY <2>1 DEF Rank
<1> QED
  BY <1>2, <1>3, HereFacts DEF StartsAt

-----------------------------------------------------------------------------
(* What terminators and new blocks do to it *)

\* A block is closed by what comes next in the text,
LEMMA FollowTerminate ==
  ASSUME NEW P, NEW c, NEW ins, Good(P, c), BlocksFollow(P, c, ins), NEW b \in DOMAIN c,
         NEW t \in Terminators(P), t # NoTerminator, FlowsOn(P, b, c[b].insts, t)
  PROVE  /\ BlocksFollow(P, Terminate(c, b, t), ins)
         /\ \A x \in DOMAIN c : Terminate(c, b, t)[x].insts = c[x].insts
<1> DEFINE d == Terminate(c, b, t)
<1>1. /\ DOMAIN d = DOMAIN c
      /\ d[b].term = t /\ \A x \in DOMAIN c : d[x].insts = c[x].insts
      /\ \A x \in DOMAIN c : x # b => d[x] = c[x]
  BY TerminateType DEF Good
<1> HIDE DEF d
<1>2. ASSUME NEW x \in DOMAIN d
      PROVE  /\ BelongsTo(P, x) /\ StraightLine(P, x, d[x].insts)
             /\ ~IsOpen(d, x) => FlowsOn(P, x, d[x].insts, d[x].term)
             /\ IsOpen(d, x) /\ x # ins => d[x].insts = << >>
  <2>1. x \in DOMAIN c /\ d[x].insts = c[x].insts
    BY <1>1
  <2>2. BelongsTo(P, x) /\ StraightLine(P, x, d[x].insts)
    BY <2>1 DEF BlocksFollow
  <2>3. CASE x = b
    <3>1. d[x].term = t
      BY <1>1, <2>3
    <3> QED
      BY <2>1, <2>2, <2>3, <3>1 DEF IsOpen
  <2>4. CASE x # b
    <3>1. d[x] = c[x]
      BY <1>1, <2>1, <2>4
    <3> QED
      BY <2>1, <2>2, <3>1 DEF BlocksFollow, IsOpen
  <2> QED
    BY <2>3, <2>4
<1>3. BlocksFollow(P, d, ins)
  BY <1>2 DEF BlocksFollow
<1> QED
  BY <1>1, <1>3 DEF d

\* or left as it is if it is closed already,
LEMMA FollowTerminateOpen ==
  ASSUME NEW P, NEW c, NEW ins, Good(P, c), BlocksFollow(P, c, ins), NEW b \in DOMAIN c,
         NEW t \in Terminators(P), t # NoTerminator, IsOpen(c, b) => FlowsOn(P, b, c[b].insts, t)
  PROVE  /\ BlocksFollow(P, TerminateOpen(c, b, t), ins)
         /\ \A x \in DOMAIN c : TerminateOpen(c, b, t)[x].insts = c[x].insts
<1>1. CASE IsOpen(c, b)
  <2>1. TerminateOpen(c, b, t) = Terminate(c, b, t)
    BY <1>1 DEF TerminateOpen, IsOpen
  <2> QED
    BY <2>1, <1>1, FollowTerminate
<1>2. CASE ~IsOpen(c, b)
  <2>1. TerminateOpen(c, b, t) = c
    BY <1>2 DEF TerminateOpen, IsOpen
  <2> QED
    BY <2>1
<1> QED
  BY <1>1, <1>2

\* When the insertion block is closed, another one can be taken.
LEMMA FollowInsert ==
  ASSUME NEW P, NEW c, NEW ins, BlocksFollow(P, c, ins), ins \in DOMAIN c => ~IsOpen(c, ins), NEW ins2
  PROVE  BlocksFollow(P, c, ins2)
BY DEF BlocksFollow

\* and blocks are made empty.
LEMMA FollowWithBlocks ==
  ASSUME NEW P, Len(P) \in Nat, Good(P, code), NEW ins, BlocksFollow(P, code, ins),
         NEW names, names \cap DOMAIN code = {}, \A b \in names : BelongsTo(P, b)
  PROVE  /\ BlocksFollow(P, WithBlocks(names), ins)
         /\ \A b \in names : WithBlocks(names)[b].insts = << >>
<1> DEFINE d == WithBlocks(names)
<1>1. /\ DOMAIN d = DOMAIN code \cup names
      /\ \A x \in DOMAIN code : d[x] = code[x]
      /\ \A x \in names : IsOpen(d, x) /\ d[x] = NewBlock
  BY WithBlocksType DEF Good
<1> HIDE DEF d
<1>2. NewBlock.insts = << >>
  BY DEF NewBlock
<1>3. ASSUME NEW x \in DOMAIN d
      PROVE  /\ BelongsTo(P, x) /\ StraightLine(P, x, d[x].insts)
             /\ ~IsOpen(d, x) => FlowsOn(P, x, d[x].insts, d[x].term)
             /\ IsOpen(d, x) /\ x # ins => d[x].insts = << >>
  <2>1. CASE x \in DOMAIN code
    <3>1. d[x] = code[x]
      BY <1>1, <2>1
    <3> QED
      BY <2>1, <3>1 DEF BlocksFollow, IsOpen
  <2>2. CASE x \in names
    <3>1. d[x].insts = << >> /\ IsOpen(d, x) /\ BelongsTo(P, x)
      BY <1>1, <1>2, <2>2
    <3>2. StraightLine(P, x, << >>)
      BY DEF StraightLine
    <3> QED
      BY <3>1, <3>2
  <2> QED
    BY <1>1, <2>1, <2>2
<1>4. BlocksFollow(P, d, ins)
  BY <1>3 DEF BlocksFollow
<1> QED
  BY <1>1, <1>2, <1>4 DEF d

\* A block that begins at q is the one to fill there.
LEMMA PointsAtStart ==
  ASSUME NEW P, NEW c, NEW ins, NEW q \in Nat, Origin(P, ins) = q,
         ins[2] \notin {"while.cond", "while.expr"}, c[ins].insts = << >>
  PROVE  Points(P, c, ins, q)
BY DEF Points, EndsAt, StartsAt

\* A branch from the insertion block goes down in rank.
LEMMA RankDown ==
  ASSUME NEW P, IsBody(P), NEW ins, BelongsTo(P, ins), NEW q \in DOMAIN P, Origin(P, ins) <= q,
         ins[2] \notin {"while.cond", "while.expr"},
         NEW b, BelongsTo(P, b), b[2] \in {"while.cond", "while.expr"} \/ q < Origin(P, b)
  PROVE  Rank(P, b) < Rank(P, ins)
<1>1. Len(P) \in Nat /\ DOMAIN P = 1 .. Len(P) /\ Bottom(P) = Len(P) + 1
  BY DEF IsBody, Closed, Bottom
<1>2. Origin(P, ins) \in 1 .. Bottom(P) /\ Origin(P, b) \in 1 .. Bottom(P)
  BY OriginFacts
<1>3. Rank(P, ins) = 2 + Bottom(P) - Origin(P, ins)
  BY DEF Rank
<1>4. Rank(P, ins) > 2
  BY <1>1, <1>2, <1>3
<1>5. CASE b[2] \in {"while.cond", "while.expr"}
  <2>1. Rank(P, b) \in {0, 1}
    BY <1>5 DEF Rank
  <2> QED
    BY <1>1, <1>2, <1>3, <1>4, <2>1
<1>6. CASE b[2] \notin {"while.cond", "while.expr"}
  <2>1. Rank(P, b) = 2 + Bottom(P) - Origin(P, b)
    BY <1>6 DEF Rank
  <2> QED
    BY <1>1, <1>2, <1>3, <1>6, <2>1
<1> QED
  BY <1>5, <1>6

-----------------------------------------------------------------------------
(* The blocks follow the text *)

\* What the semantic pass has seen of the jumps.
JumpsSeen(P, at) ==
  \A q \in DOMAIN P : q < at /\ P[q].k \in {"break", "continue"} => Loop(P, q) # 0

TextInv ==
  /\ BlocksFollow(Body, code, insert)
  /\ pc = "check" => code[entry] = NewBlock
  /\ pc = "check" => ("SEM_BREAK_OUTSIDE_LOOP" \notin errors <=> JumpsSeen(Body, p))
  /\ pc = "rejected" /\ "SEM_BREAK_OUTSIDE_LOOP" \in errors => ~JumpsInLoops(Body)
  /\ pc \notin {"check", "rejected", "crashed"} => JumpsInLoops(Body)
  /\ pc = "codegen" => Points(Body, code, insert, p) /\ LoopsAre(Body, calls, loopStack)

\* What holds at a token that is emitted.
LEMMA TextNow ==
  ASSUME CodeInv, TextInv, pc = "codegen", AtToken
  PROVE  /\ IsBody(Body) /\ p \in DOMAIN Body /\ p \in Nat /\ p \in 1 .. Bottom(Body) /\ Len(Body) \in Nat
         /\ Good(Body, code) /\ insert \in DOMAIN code /\ BlocksFollow(Body, code, insert)
         /\ BelongsTo(Body, insert) /\ Origin(Body, insert) \in Nat /\ Origin(Body, insert) <= p
         /\ insert[2] \notin {"while.cond", "while.expr"}
         /\ IsOpen(code, insert) => EndsAt(Body, insert, code[insert].insts) = Here(Body, p)
         /\ Around(Body, p, calls) /\ LoopsAre(Body, calls, loopStack)
         /\ loopStack \in Seq(DOMAIN Body) /\ JumpsInLoops(Body)
         /\ DOMAIN code \subseteq BlockNames(Body)
<1>1. /\ IsBody(Body) /\ DOMAIN Body = 1 .. Len(Body) /\ Len(Body) \in Nat
      /\ Good(Body, code) /\ insert \in DOMAIN code /\ Around(Body, p, calls)
      /\ loopStack \in Seq(1 .. Len(Body)) /\ DOMAIN code \subseteq BlockNames(Body)
      /\ p \in DOMAIN Body /\ p \in Nat
  BY AtCodegen, BodyNow, TokenFacts DEF CodeInv
<1>2. BlocksFollow(Body, code, insert) /\ Points(Body, code, insert, p) /\ JumpsInLoops(Body)
      /\ LoopsAre(Body, calls, loopStack)
  BY DEF TextInv
<1>3. BelongsTo(Body, insert)
  BY <1>1, <1>2 DEF BlocksFollow
<1>4. Origin(Body, insert) \in 1 .. Bottom(Body)
  BY <1>1, <1>3, OriginFacts
<1>5. Bottom(Body) \in Nat /\ p \in 1 .. Bottom(Body)
  BY <1>1 DEF Bottom
<1>6. Origin(Body, insert) \in Nat
  BY <1>4, <1>5
<1> QED
  BY <1>1, <1>2, <1>3, <1>5, <1>6 DEF Points

LEMMA TextKeeps ==
  ASSUME TextInv, pc = "codegen", pc' = pc, prog' = prog,
         BlocksFollow(Body, code', insert'), Points(Body, code', insert', p'),
         LoopsAre(Body, calls', loopStack')
  PROVE  TextInv'
<1>1. Body' = Body /\ pc' = "codegen"
  BY DEF Body
<1>2. JumpsInLoops(Body)
  BY DEF TextInv
<1> QED
  BY <1>1, <1>2 DEF TextInv

\* A branch out of the insertion block goes on with the text.
LEMMA BranchesOn ==
  ASSUME CodeInv, TextInv, pc = "codegen", AtToken, IsOpen(code, insert),
         NEW b, BelongsTo(Body, b), StartsAt(Body, b) = Here(Body, p),
         b[2] \in {"while.cond", "while.expr"} \/ p < Origin(Body, b)
  PROVE  FlowsOn(Body, insert, code[insert].insts, Br(b))
<1>1. Rank(Body, b) < Rank(Body, insert)
  BY TextNow, RankDown
<1>2. EndsAt(Body, insert, code[insert].insts) = Here(Body, p)
  BY TextNow
<1>3. Br(b).op = "br" /\ Br(b).to[1] = b
  BY DEF Br
<1> QED
  BY <1>1, <1>2, <1>3 DEF FlowsOn

\* Where nothing more is emitted into the insertion block, only its place counts.
LEMMA PointsClosed ==
  ASSUME NEW P, NEW c, NEW ins, NEW q, ~IsOpen(c, ins), Origin(P, ins) <= q,
         ins[2] \notin {"while.cond", "while.expr"}
  PROVE  Points(P, c, ins, q)
BY DEF Points

LEMMA SkipFollows ==
  ASSUME CodeInv, TextInv, skip
  PROVE  TextInv'
<1>1. pc = "codegen" /\ AtToken /\ Body[p].k \notin {"else", "end"} /\ ~IsOpen(code, insert)
  BY DEF skip, Token, blockTerminated, IsOpen
<1>2. p < Behind(Body, p) /\ Behind(Body, p) \in Nat
  <2>1. Closed(Body) /\ p \in DOMAIN Body /\ Len(Body) \in Nat
    BY <1>1, TextNow, BodyNow DEF CodeInv
  <2>2. Behind(Body, p) \in 1 .. Len(Body) + 1 /\ p < Behind(Body, p)
    BY <2>1, LevelBehind
  <2> QED
    BY <2>1, <2>2
<1>3. Points(Body, code, insert, Behind(Body, p))
  <2>1. Origin(Body, insert) <= Behind(Body, p)
    BY <1>1, <1>2, TextNow
  <2> QED
    BY <2>1, <1>1, TextNow, PointsClosed
<1> QED
  BY <1>1, <1>3, TextNow, TextKeeps DEF skip

\* The walk goes on in the same constructs.
LEMMA ReturnFollows ==
  ASSUME CodeInv, TextInv, emit_return
  PROVE  TextInv'
<1>1. pc = "codegen" /\ AtToken /\ Body[p].k = "ret" /\ IsOpen(code, insert)
  BY DEF emit_return, AtStatement, blockTerminated, IsOpen, Token
<1>2. Ret(p) \in Terminators(Body) /\ Ret(p) # NoTerminator
  BY <1>1, TokenFacts, TerminatorTypes, BodyNow DEF CodeInv
<1>3. Here(Body, p) = p
  BY <1>1, TextNow, HereFacts
<1>4. FlowsOn(Body, insert, code[insert].insts, Ret(p))
  <2>1. Ret(p).op = "ret" /\ Ret(p).q = p
    BY DEF Ret
  <2>2. EndsAt(Body, insert, code[insert].insts) = p /\ p \in DOMAIN Body
    BY <1>1, <1>3, TextNow
  <2> QED
    BY <1>1, <2>1, <2>2 DEF FlowsOn
<1>5. /\ code' = Terminate(code, insert, Ret(p)) /\ insert' = insert /\ p' = p + 1
      /\ pc' = pc /\ prog' = prog /\ calls' = calls /\ loopStack' = loopStack
  BY DEF emit_return, Forward
<1>6. BlocksFollow(Body, code', insert)
  BY <1>1, <1>2, <1>4, <1>5, TextNow, FollowTerminate
<1>7. ~IsOpen(code', insert)
  <2>1. code'[insert].term = Ret(p)
    BY <1>1, <1>2, <1>5, TextNow, TerminateType DEF Good
  <2> QED
    BY <1>2, <2>1 DEF IsOpen
<1>8. Points(Body, code', insert, p + 1)
  <2>1. Origin(Body, insert) <= p + 1
    BY <1>1, TextNow
  <2> QED
    BY <1>1, <1>7, <2>1, TextNow, PointsClosed
<1> QED
  BY <1>1, <1>5, <1>6, <1>8, TextNow, TextKeeps

LEMMA JumpFollows ==
  ASSUME CodeInv, TextInv, emit_jump
  PROVE  TextInv'
<1> DEFINE loop == loopStack[Len(loopStack)]
           to == IF Token.k = "break" THEN after(loop) ELSE expr(loop)
<1>1. pc = "codegen" /\ AtToken /\ Body[p].k \in {"break", "continue"} /\ IsOpen(code, insert)
  BY DEF emit_jump, AtStatement, blockTerminated, IsOpen, Token
<1>2. Loop(Body, p) # 0
  <2>1. p \in Positions(Body)
    BY <1>1, TextNow, TokenFacts DEF Positions
  <2> QED
    BY <1>1, <2>1, TextNow DEF JumpsInLoops
<1>3. loopStack # << >> /\ Len(loopStack) \in DOMAIN loopStack /\ loop = Loop(Body, p)
  BY <1>1, <1>2, TextNow, LastLoop
<1>4. /\ loop \in DOMAIN Body /\ Body[loop].k = "while" /\ p < End(Body, loop)
      /\ End(Body, loop) \in DOMAIN Body
  BY <1>1, <1>2, <1>3, TextNow, HopFacts
<1>5. /\ BelongsTo(Body, to) /\ StartsAt(Body, to) = Here(Body, p)
      /\ to[2] \in {"while.cond", "while.expr"} \/ p < Origin(Body, to)
  <2>1. /\ StartsAt(Body, expr(loop)) = loop /\ Origin(Body, after(loop)) = End(Body, loop) + 1
        /\ BelongsTo(Body, expr(loop)) /\ BelongsTo(Body, after(loop))
    BY <1>1, <1>4, TextNow, LoopBlocks
  <2>2. expr(loop)[2] = "while.expr"
    BY DEF expr, Block
  <2>3. CASE Body[p].k = "break"
    <3>1. Here(Body, p) = Here(Body, End(Body, loop) + 1)
      BY <1>1, <1>2, <1>3, <2>3, TextNow, HereFacts
    <3>2. to = after(loop)
      BY <2>3 DEF Token
    <3>3. p < End(Body, loop) + 1
      BY <1>1, <1>4, TextNow, BodyNow DEF CodeInv
    <3> QED
      BY <2>1, <3>1, <3>2, <3>3 DEF StartsAt
  <2>4. CASE Body[p].k = "continue"
    <3>1. Here(Body, p) = loop
      BY <1>1, <1>2, <1>3, <2>4, TextNow, HereFacts
    <3>2. to = expr(loop)
      BY <2>4 DEF Token
    <3> QED
      BY <2>1, <2>2, <3>1, <3>2
  <2> QED
    BY <1>1, <2>3, <2>4
<1>6. /\ code' = Terminate(code, insert, Br(to)) /\ insert' = insert /\ p' = p + 1
      /\ pc' = pc /\ prog' = prog /\ calls' = calls /\ loopStack' = loopStack
  BY <1>3 DEF emit_jump, Forward
<1>7. Br(to) \in Terminators(Body) /\ Br(to) # NoTerminator
  <2>1. loop \in 0 .. Len(Body) /\ Len(Body) \in Nat
    BY <1>4, BodyNow DEF CodeInv
  <2>2. to \in BlockNames(Body)
    BY <2>1, OwnBlocks
  <2> QED
    BY <2>1, <2>2, TerminatorTypes
<1> HIDE DEF to, loop
<1>8. FlowsOn(Body, insert, code[insert].insts, Br(to))
  BY <1>1, <1>5, BranchesOn
<1>9. BlocksFollow(Body, code', insert)
  BY <1>1, <1>6, <1>7, <1>8, TextNow, FollowTerminate
<1>10. ~IsOpen(code', insert)
  <2>1. code'[insert].term = Br(to)
    BY <1>1, <1>6, <1>7, TextNow, TerminateType DEF Good
  <2> QED
    BY <1>7, <2>1 DEF IsOpen
<1>11. Points(Body, code', insert, p + 1)
  <2>1. Origin(Body, insert) <= p + 1
    BY <1>1, TextNow
  <2> QED
    BY <1>1, <1>10, <2>1, TextNow, PointsClosed
<1> QED
  BY <1>1, <1>6, <1>9, <1>11, TextNow, TextKeeps

LEMMA StatementFollows ==
  ASSUME CodeInv, TextInv, emit_statement
  PROVE  TextInv'
<1> DEFINE s == code[insert].insts
           x == [code[insert] EXCEPT !.insts = Append(s, p)]
<1>1. pc = "codegen" /\ AtToken /\ Body[p].k = "do" /\ IsOpen(code, insert)
  BY DEF emit_statement, AtStatement, blockTerminated, IsOpen, Token
<1>2. Here(Body, p) = p
  BY <1>1, TextNow, HereFacts
<1>3. code[insert] \in Blocks(Body)
  BY <1>1, TextNow DEF Good
<1>4. s \in Seq(1 .. Len(Body)) /\ x.insts = Append(s, p) /\ x.term = code[insert].term
  BY <1>3 DEF Blocks
<1>5. code' = [code EXCEPT ![insert] = x] /\ insert' = insert /\ p' = p + 1
      /\ pc' = pc /\ prog' = prog /\ calls' = calls /\ loopStack' = loopStack
  BY DEF emit_statement, Forward
<1> HIDE DEF x
<1>6. /\ DOMAIN code' = DOMAIN code /\ code'[insert].insts = Append(s, p)
      /\ code'[insert].term = code[insert].term
      /\ \A b \in DOMAIN code : b # insert => code'[b] = code[b]
  BY <1>1, <1>4, <1>5, TextNow DEF Good
<1>7. EndsAt(Body, insert, s) = p
  BY <1>1, <1>2, TextNow
<1>8. StraightLine(Body, insert, s)
  BY <1>1, TextNow DEF BlocksFollow
<1>9. /\ Len(s) \in Nat /\ DOMAIN s = 1 .. Len(s)
      /\ DOMAIN Append(s, p) = 1 .. Len(s) + 1 /\ Len(Append(s, p)) = Len(s) + 1
      /\ Append(s, p)[Len(s) + 1] = p /\ Append(s, p) # << >>
      /\ \A k \in DOMAIN s : Append(s, p)[k] = s[k]
  <2>1. p \in 1 .. Len(Body)
    BY <1>1, TokenFacts
  <2> QED
    BY <1>4, <2>1
<1> HIDE DEF s
<1>10. StraightLine(Body, insert, Append(s, p))
  <2>1. Append(s, p)[1] = StartsAt(Body, insert)
    <3>1. CASE s = << >>
      <4>1. StartsAt(Body, insert) = p
        BY <1>7, <3>1 DEF EndsAt
      <4>2. Len(s) = 0
        BY <3>1
      <4> QED
        BY <1>9, <4>1, <4>2
    <3>2. CASE s # << >>
      <4>1. s[1] = StartsAt(Body, insert)
        BY <1>8, <3>2 DEF StraightLine
      <4>2. 1 \in DOMAIN s
        BY <1>4, <1>9, <3>2
      <4> QED
        BY <1>9, <4>1, <4>2
    <3> QED
      BY <3>1, <3>2
  <2>2. ASSUME NEW k \in DOMAIN Append(s, p)
        PROVE  Append(s, p)[k] \in DOMAIN Body /\ Body[Append(s, p)[k]].k = "do"
    <3>1. k \in DOMAIN s \/ k = Len(s) + 1
      BY <1>9
    <3>2. p \in DOMAIN Body
      BY <1>1, TextNow
    <3> QED
      BY <1>1, <1>8, <1>9, <3>1, <3>2 DEF StraightLine
  <2>3. ASSUME NEW k \in DOMAIN Append(s, p), k + 1 \in DOMAIN Append(s, p)
        PROVE  Append(s, p)[k + 1] = Here(Body, Append(s, p)[k] + 1)
    <3>1. k \in DOMAIN s
      BY <1>9, <2>3
    <3>2. CASE k + 1 \in DOMAIN s
      BY <1>8, <1>9, <3>1, <3>2 DEF StraightLine
    <3>3. CASE k + 1 \notin DOMAIN s
      <4>1. k = Len(s) /\ s # << >>
        BY <1>9, <3>1, <3>3
      <4>2. p = Here(Body, s[Len(s)] + 1)
        BY <1>7, <4>1 DEF EndsAt
      <4> QED
        BY <1>9, <3>1, <4>1, <4>2
    <3> QED
      BY <3>2, <3>3
  <2> QED
    BY <2>1, <2>2, <2>3 DEF StraightLine
<1>11. IsOpen(code', insert)
  BY <1>1, <1>6 DEF IsOpen
<1>12. BlocksFollow(Body, code', insert)
  <2> SUFFICES ASSUME NEW b \in DOMAIN code'
               PROVE  /\ BelongsTo(Body, b) /\ StraightLine(Body, b, code'[b].insts)
                      /\ ~IsOpen(code', b) => FlowsOn(Body, b, code'[b].insts, code'[b].term)
                      /\ IsOpen(code', b) /\ b # insert => code'[b].insts = << >>
    BY DEF BlocksFollow
  <2>1. CASE b = insert
    BY <1>1, <1>6, <1>10, <1>11, <2>1, TextNow
  <2>2. CASE b # insert
    <3>1. code'[b] = code[b] /\ b \in DOMAIN code
      BY <1>6, <2>2
    <3> QED
      BY <1>1, <2>2, <3>1, TextNow DEF BlocksFollow, IsOpen
  <2> QED
    BY <2>1, <2>2
<1>13. Points(Body, code', insert, p + 1)
  <2>1. EndsAt(Body, insert, code'[insert].insts) = Here(Body, p + 1)
    BY <1>6, <1>9 DEF EndsAt
  <2>2. Origin(Body, insert) <= p + 1
    BY <1>1, TextNow
  <2> QED
    BY <1>1, <2>1, <2>2, TextNow DEF Points
<1> QED
  BY <1>1, <1>5, <1>12, <1>13, TextNow, TextKeeps

LEMMA IfFollows ==
  ASSUME CodeInv, TextInv, emit_if
  PROVE  TextInv'
<1> DEFINE no == IF Else(Body, p) # 0 THEN else(p) ELSE ifcont(p)
           names == {then(p), no, ifcont(p)}
           t == CondBr(p, then(p), no)
           more == WithBlocks(names)
<1>1. pc = "codegen" /\ AtToken /\ Body[p].k = "if" /\ IsOpen(code, insert)
  BY DEF emit_if, AtStatement, blockTerminated, IsOpen, Token
<1>2. p \in 0 .. Len(Body) /\ p \in 0 .. Bottom(Body)
  BY <1>1, TextNow, TokenFacts
<1>3. names \subseteq BlockNames(Body) /\ \A b \in names : b[1] = p
  BY <1>2, OwnBlocks
<1>4. names \cap DOMAIN code = {}
  BY <1>1, <1>3, TextNow, BlocksBefore
<1>5. /\ Origin(Body, then(p)) = p + 1 /\ StartsAt(Body, then(p)) = IfTrue(Body, p)
      /\ StartsAt(Body, no) = IfFalse(Body, p)
      /\ \A b \in names : BelongsTo(Body, b)
      /\ then(p)[2] = "then"
  BY <1>1, TextNow, IfBlocks
<1>6. then(p) \in names /\ no \in names
  OBVIOUS
<1> HIDE DEF no
<1>7. Here(Body, p) = p
  BY <1>1, TextNow, HereFacts
<1>8. /\ BlocksFollow(Body, more, insert) /\ \A b \in names : more[b].insts = << >>
      /\ Good(Body, more) /\ DOMAIN more = DOMAIN code \cup names
      /\ \A x \in DOMAIN code : more[x] = code[x]
  <2> HIDE DEF names
  <2>1. Len(Body) \in Nat /\ Good(Body, code) /\ BlocksFollow(Body, code, insert)
    BY <1>1, TextNow
  <2>2. BlocksFollow(Body, more, insert) /\ \A b \in names : more[b].insts = << >>
    BY <1>4, <1>5, <2>1, FollowWithBlocks
  <2>3. /\ Good(Body, more) /\ DOMAIN more = DOMAIN code \cup names
        /\ \A x \in DOMAIN code : more[x] = code[x]
    BY <1>4, <2>1, GoodWithBlocks
  <2> QED
    BY <2>2, <2>3
<1>9. FlowsOn(Body, insert, code[insert].insts, t)
  <2>1. t.op = "condbr" /\ t.q = p /\ t.to[1] = then(p) /\ t.to[2] = no
    BY DEF CondBr
  <2>2. EndsAt(Body, insert, code[insert].insts) = p
    BY <1>1, <1>7, TextNow
  <2> QED
    BY <1>1, <1>5, <2>1, <2>2, TextNow DEF FlowsOn
<1>10. t \in Terminators(Body) /\ t # NoTerminator
  <2>1. Len(Body) \in Nat
    BY <1>1, TextNow
  <2> QED
    BY <1>2, <1>3, <1>6, <2>1, TerminatorTypes
<1>11. /\ code' = Terminate(more, insert, t) /\ insert' = then(p) /\ p' = p + 1
       /\ pc' = pc /\ prog' = prog /\ calls' = Append(calls, p) /\ loopStack' = loopStack
  BY DEF emit_if, Forward, Enter, no
<1>12. insert \in DOMAIN more /\ more[insert] = code[insert] /\ then(p) \in DOMAIN more /\ insert # then(p)
  BY <1>1, <1>4, <1>6, <1>8, TextNow
<1>13. more[then(p)].insts = << >>
  BY <1>6, <1>8
<1> HIDE DEF more, names, t
<1>14. BlocksFollow(Body, code', insert) /\ \A x \in DOMAIN more : code'[x].insts = more[x].insts
  BY <1>8, <1>9, <1>10, <1>11, <1>12, FollowTerminate
<1>15. ~IsOpen(code', insert)
  <2>1. code'[insert].term = t
    BY <1>8, <1>10, <1>11, <1>12, TerminateType DEF Good
  <2> QED
    BY <1>10, <2>1 DEF IsOpen
<1>16. BlocksFollow(Body, code', then(p))
  BY <1>14, <1>15, FollowInsert
<1>17. Points(Body, code', then(p), p + 1)
  <2>1. code'[then(p)].insts = << >> /\ p + 1 \in Nat
    BY <1>1, <1>12, <1>13, <1>14, TextNow
  <2> QED
    BY <1>5, <2>1, PointsAtStart
<1>18. LoopsAre(Body, Append(calls, p), loopStack)
  BY <1>1, TextNow, LoopsEntered
<1> QED
  BY <1>1, <1>11, <1>16, <1>17, <1>18, TextKeeps

\* A branch to what waits for its turn closes the insertion block, and the block that is
\* filled next is empty.
LEMMA TurnFollows ==
  ASSUME CodeInv, TextInv, pc = "codegen", AtToken, prog' = prog, pc' = pc, p' = p + 1,
         NEW b, NEW next,
         code' = TerminateOpen(code, insert, Br(b)), insert' = next,
         b \in BlockNames(Body), BelongsTo(Body, b), StartsAt(Body, b) = Here(Body, p),
         b[2] \in {"while.cond", "while.expr"} \/ p < Origin(Body, b),
         next \in DOMAIN code, next # insert, IsOpen(code, next),
         Origin(Body, next) = p + 1, next[2] \notin {"while.cond", "while.expr"},
         LoopsAre(Body, calls', loopStack')
  PROVE  TextInv'
<1>1. Br(b) \in Terminators(Body) /\ Br(b) # NoTerminator
  BY TextNow, TerminatorTypes
<1>2. IsOpen(code, insert) => FlowsOn(Body, insert, code[insert].insts, Br(b))
  BY BranchesOn
<1>3. BlocksFollow(Body, code', insert) /\ \A x \in DOMAIN code : code'[x].insts = code[x].insts
  BY <1>1, <1>2, TextNow, FollowTerminateOpen
<1>4. ~IsOpen(code', insert)
  BY <1>1, TextNow, TerminateOpenType DEF Good
<1>5. BlocksFollow(Body, code', next)
  BY <1>3, <1>4, FollowInsert
<1>6. code'[next].insts = << >>
  <2>1. code[next].insts = << >>
    BY TextNow DEF BlocksFollow
  <2> QED
    BY <1>3, <2>1
<1>7. Points(Body, code', next, p + 1)
  <2>1. p + 1 \in Nat
    BY TextNow
  <2> QED
    BY <1>6, <2>1, PointsAtStart
<1> QED
  BY <1>5, <1>7, TextKeeps

LEMMA ElseFollows ==
  ASSUME CodeInv, TextInv, emit_else
  PROVE  TextInv'
<1> DEFINE r == calls[Len(calls)]
<1>1. pc = "codegen" /\ AtToken /\ Body[p].k = "else"
  BY DEF emit_else, AtPart, Token
<1>2. /\ {else(r), ifcont(r)} \subseteq Pending(Body, calls, p)
      /\ Emitted(Body, calls, p, code, insert, loopStack)
  BY <1>1, TextNow, PendingElse, AtCodegen
<1>3. Level(Body, p) > 0
  BY <1>1, TextNow DEF IsBody
<1>4. r = Construct(Body, p)
  BY <1>1, <1>3, TextNow, ConstructIs
<1>5. /\ r \in DOMAIN Body /\ Body[r].k = "if" /\ Else(Body, r) = p /\ p # 0
      /\ p < End(Body, r) /\ End(Body, r) \in Nat
  <2>1. DOMAIN Body \subseteq Nat
    BY <1>1, TextNow, BodyNow DEF CodeInv
  <2> QED
    BY <1>1, <1>4, <2>1, TextNow, HopFacts, BodyNow DEF CodeInv
<1>6. Here(Body, p) = Here(Body, End(Body, r) + 1)
  BY <1>1, <1>4, TextNow, HereFacts
<1>7. /\ Origin(Body, else(r)) = p + 1 /\ Origin(Body, ifcont(r)) = End(Body, r) + 1
      /\ BelongsTo(Body, ifcont(r)) /\ else(r)[2] = "else"
  BY <1>1, <1>5, TextNow, IfBlocks
<1>8. StartsAt(Body, ifcont(r)) = Here(Body, p) /\ p < Origin(Body, ifcont(r))
  <2>1. p < End(Body, r) + 1
    BY <1>1, <1>5, TextNow
  <2> QED
    BY <1>6, <1>7, <2>1 DEF StartsAt
<1>9. else(r) \in DOMAIN code /\ else(r) # insert /\ IsOpen(code, else(r)) /\ ifcont(r) \in BlockNames(Body)
  BY <1>1, <1>2, TextNow DEF Emitted
<1>10. /\ code' = TerminateOpen(code, insert, Br(ifcont(r))) /\ insert' = else(r) /\ p' = p + 1
       /\ pc' = pc /\ prog' = prog /\ calls' = calls /\ loopStack' = loopStack
  BY DEF emit_else, Forward, Running
<1> HIDE DEF r
<1>11. LoopsAre(Body, calls', loopStack')
  BY <1>1, <1>10, TextNow
<1> QED
  BY <1>1, <1>7, <1>8, <1>9, <1>10, <1>11, TurnFollows

LEMMA IfEndFollows ==
  ASSUME CodeInv, TextInv, emit_if_end
  PROVE  TextInv'
<1> DEFINE r == calls[Len(calls)]
<1>1. pc = "codegen" /\ AtToken /\ Body[p].k = "end" /\ Body[r].k = "if"
  BY DEF emit_if_end, AtPart, Token, Caller
<1>2. Level(Body, p) > 0
  BY <1>1, TextNow DEF IsBody
<1>3. r = Construct(Body, p)
  BY <1>1, <1>2, TextNow, ConstructIs
<1>4. r \in DOMAIN Body /\ End(Body, r) = p
  BY <1>1, <1>3, TextNow, HopFacts
<1>5. Here(Body, p) = Here(Body, p + 1)
  BY <1>1, <1>3, TextNow, HereFacts
<1>6. Origin(Body, ifcont(r)) = p + 1 /\ BelongsTo(Body, ifcont(r)) /\ ifcont(r)[2] = "ifcont"
  BY <1>1, <1>4, TextNow, IfBlocks
<1>7. StartsAt(Body, ifcont(r)) = Here(Body, p) /\ p < Origin(Body, ifcont(r))
  <2>1. p < p + 1
    BY <1>1, TextNow
  <2> QED
    BY <1>5, <1>6, <2>1 DEF StartsAt
<1>8. ifcont(r) \in DOMAIN code /\ ifcont(r) # insert /\ IsOpen(code, ifcont(r)) /\ ifcont(r) \in BlockNames(Body)
  <2>1. ifcont(r) \in Pending(Body, calls, p)
    BY <1>1, Left
  <2>2. Emitted(Body, calls, p, code, insert, loopStack)
    BY <1>1, AtCodegen
  <2> QED
    BY <1>1, <2>1, <2>2, TextNow DEF Emitted
<1>9. LoopsAre(Body, SubSeq(calls, 1, Len(calls) - 1), loopStack)
  BY <1>1, TextNow, LoopsLeft
<1>10. /\ code' = TerminateOpen(code, insert, Br(ifcont(r))) /\ insert' = ifcont(r) /\ p' = p + 1
       /\ pc' = pc /\ prog' = prog /\ calls' = SubSeq(calls, 1, Len(calls) - 1) /\ loopStack' = loopStack
  BY DEF emit_if_end, Forward, Running, Leave
<1> HIDE DEF r
<1>11. LoopsAre(Body, calls', loopStack')
  BY <1>9, <1>10
<1> QED
  BY <1>1, <1>6, <1>7, <1>8, <1>10, <1>11, TurnFollows

LEMMA WhileFollows ==
  ASSUME CodeInv, TextInv, emit_whileloop
  PROVE  TextInv'
<1> DEFINE names == {cond(p), body(p), expr(p), after(p)}
           t == Br(cond(p))
           u == CondBr(p, body(p), after(p))
           more == WithBlocks(names)
           one == Terminate(more, insert, t)
<1>1. pc = "codegen" /\ AtToken /\ Body[p].k = "while" /\ IsOpen(code, insert)
  BY DEF emit_whileloop, AtStatement, blockTerminated, IsOpen, Token
<1>2. p \in 0 .. Len(Body) /\ p \in 0 .. Bottom(Body)
  BY <1>1, TextNow, TokenFacts
<1>3. names \subseteq BlockNames(Body) /\ (\A b \in names : b[1] = p) /\ body(p) # cond(p)
  BY <1>2, OwnBlocks
<1>4. names \cap DOMAIN code = {}
  BY <1>1, <1>3, TextNow, BlocksBefore
<1>5. /\ StartsAt(Body, cond(p)) = p /\ Origin(Body, body(p)) = p + 1
      /\ StartsAt(Body, body(p)) = IfTrue(Body, p) /\ StartsAt(Body, after(p)) = IfFalse(Body, p)
      /\ \A b \in names : BelongsTo(Body, b)
      /\ body(p)[2] = "while.body" /\ cond(p)[2] = "while.cond"
  <2>1. cond(p)[2] = "while.cond"
    BY DEF cond, Block
  <2> QED
    BY <1>1, <2>1, TextNow, LoopBlocks
<1>6. {cond(p), body(p), after(p)} \subseteq names
  OBVIOUS
<1>7. Here(Body, p) = p
  BY <1>1, TextNow, HereFacts
<1>8. /\ BlocksFollow(Body, more, insert) /\ \A b \in names : more[b].insts = << >>
      /\ Good(Body, more) /\ DOMAIN more = DOMAIN code \cup names
      /\ \A x \in DOMAIN code : more[x] = code[x]
  <2> HIDE DEF names
  <2>1. Len(Body) \in Nat /\ Good(Body, code) /\ BlocksFollow(Body, code, insert)
    BY <1>1, TextNow
  <2>2. BlocksFollow(Body, more, insert) /\ \A b \in names : more[b].insts = << >>
    BY <1>4, <1>5, <2>1, FollowWithBlocks
  <2>3. /\ Good(Body, more) /\ DOMAIN more = DOMAIN code \cup names
        /\ \A x \in DOMAIN code : more[x] = code[x]
    BY <1>4, <2>1, GoodWithBlocks
  <2> QED
    BY <2>2, <2>3
<1>9. FlowsOn(Body, insert, code[insert].insts, t)
  BY <1>1, <1>5, <1>6, <1>7, TextNow, BranchesOn
<1>10. /\ t \in Terminators(Body) /\ t # NoTerminator /\ u \in Terminators(Body) /\ u # NoTerminator
       /\ t.to[1] = cond(p) /\ Len(t.to) = 1
  <2>1. Len(Body) \in Nat /\ {cond(p), body(p), after(p)} \subseteq BlockNames(Body)
    BY <1>1, <1>3, TextNow
  <2>2. t.to[1] = cond(p) /\ Len(t.to) = 1
    BY DEF Br
  <2> QED
    BY <1>2, <2>1, <2>2, TerminatorTypes
<1>11. FlowsOn(Body, cond(p), << >>, u)
  <2>1. u.op = "condbr" /\ u.q = p /\ u.to[1] = body(p) /\ u.to[2] = after(p)
    BY DEF CondBr
  <2>2. EndsAt(Body, cond(p), << >>) = p
    BY <1>5 DEF EndsAt
  <2> QED
    BY <1>1, <1>5, <2>1, <2>2, TextNow DEF FlowsOn
<1>12. /\ code' = Terminate(one, cond(p), u) /\ insert' = body(p) /\ p' = p + 1
       /\ pc' = pc /\ prog' = prog /\ calls' = Append(calls, p) /\ loopStack' = Append(loopStack, p)
  BY DEF emit_whileloop, Forward, Enter
<1>13. /\ insert \in DOMAIN more /\ more[insert] = code[insert]
       /\ cond(p) \in DOMAIN more /\ body(p) \in DOMAIN more /\ insert \notin names
       /\ insert # cond(p) /\ insert # body(p)
  BY <1>1, <1>4, <1>6, <1>8, TextNow
<1>14. more[cond(p)].insts = << >> /\ more[body(p)].insts = << >>
  BY <1>6, <1>8
<1>15. Leads(t, DOMAIN more)
  BY <1>10, <1>13 DEF Leads
<1> HIDE DEF more, names, t, u
<1>16. /\ BlocksFollow(Body, one, insert) /\ \A x \in DOMAIN more : one[x].insts = more[x].insts
       /\ Good(Body, one) /\ DOMAIN one = DOMAIN more /\ one[insert].term = t
  <2>1. BlocksFollow(Body, one, insert) /\ \A x \in DOMAIN more : one[x].insts = more[x].insts
    BY <1>8, <1>9, <1>10, <1>13, FollowTerminate
  <2>2. Good(Body, one) /\ DOMAIN one = DOMAIN more
    BY <1>8, <1>10, <1>13, <1>15, GoodTerminate
  <2>3. one[insert].term = t
    BY <1>8, <1>10, <1>13, TerminateType DEF Good
  <2> QED
    BY <2>1, <2>2, <2>3
<1> HIDE DEF one
<1>17. /\ BlocksFollow(Body, code', insert) /\ \A x \in DOMAIN one : code'[x].insts = one[x].insts
       /\ \A x \in DOMAIN one : x # cond(p) => code'[x] = one[x]
  <2>1. FlowsOn(Body, cond(p), one[cond(p)].insts, u)
    BY <1>11, <1>13, <1>14, <1>16
  <2>2. cond(p) \in DOMAIN one
    BY <1>13, <1>16
  <2>3. BlocksFollow(Body, code', insert) /\ \A x \in DOMAIN one : code'[x].insts = one[x].insts
    BY <1>10, <1>12, <1>16, <2>1, <2>2, FollowTerminate
  <2>4. \A x \in DOMAIN one : x # cond(p) => code'[x] = one[x]
    BY <1>10, <1>12, <1>16, <2>2, TerminateType DEF Good
  <2> QED
    BY <2>3, <2>4
<1>18. ~IsOpen(code', insert)
  BY <1>10, <1>13, <1>16, <1>17 DEF IsOpen
<1>19. BlocksFollow(Body, code', body(p))
  BY <1>17, <1>18, FollowInsert
<1>20. Points(Body, code', body(p), p + 1)
  <2>1. code'[body(p)].insts = << >> /\ p + 1 \in Nat
    BY <1>1, <1>13, <1>14, <1>16, <1>17, TextNow
  <2> QED
    BY <1>5, <2>1, PointsAtStart
<1>21. LoopsAre(Body, Append(calls, p), Append(loopStack, p))
  BY <1>1, TextNow, LoopsEntered
<1> QED
  BY <1>1, <1>12, <1>19, <1>20, <1>21, TextKeeps

LEMMA WhileEndFollows ==
  ASSUME CodeInv, TextInv, emit_while_end
  PROVE  TextInv'
<1> DEFINE r == calls[Len(calls)]
           t == Br(expr(r))
           u == Br(cond(r))
           one == TerminateOpen(code, insert, t)
<1>1. pc = "codegen" /\ AtToken /\ Body[p].k = "end" /\ Body[r].k = "while"
  BY DEF emit_while_end, AtPart, Token, Caller
<1>2. Level(Body, p) > 0
  BY <1>1, TextNow DEF IsBody
<1>3. r = Construct(Body, p)
  BY <1>1, <1>2, TextNow, ConstructIs
<1>4. r \in DOMAIN Body /\ End(Body, r) = p /\ r \in 0 .. Len(Body)
  <2>1. r \in DOMAIN Body
    BY <1>1, <1>3, TextNow, HopFacts
  <2> QED
    BY <2>1, <1>1, <1>3, TextNow, HopFacts, BodyNow DEF CodeInv
<1>5. Here(Body, p) = r
  BY <1>1, <1>3, TextNow, HereFacts
<1>6. /\ StartsAt(Body, cond(r)) = r /\ StartsAt(Body, expr(r)) = r
      /\ Rank(Body, cond(r)) = 0 /\ Rank(Body, expr(r)) = 1
      /\ Origin(Body, after(r)) = p + 1 /\ after(r)[2] = "while.end" /\ expr(r)[2] = "while.expr"
      /\ BelongsTo(Body, expr(r))
  <2>1. expr(r)[2] = "while.expr"
    BY DEF expr, Block
  <2> QED
    BY <1>1, <1>4, <2>1, TextNow, LoopBlocks
<1>7. {cond(r), expr(r), after(r)} \subseteq BlockNames(Body) /\ expr(r) # after(r)
  BY <1>4, OwnBlocks
<1>8. \A x \in {expr(r), after(r)} : x \in DOMAIN code /\ x # insert /\ IsOpen(code, x)
  <2>1. {expr(r), after(r)} \subseteq Pending(Body, calls, p)
    BY <1>1, Left
  <2>2. Emitted(Body, calls, p, code, insert, loopStack)
    BY <1>1, AtCodegen
  <2> QED
    BY <2>1, <2>2 DEF Emitted
<1>9. code[expr(r)].insts = << >> /\ code[after(r)].insts = << >>
  BY <1>1, <1>8, TextNow DEF BlocksFollow
<1>10. t \in Terminators(Body) /\ t # NoTerminator /\ u \in Terminators(Body) /\ u # NoTerminator
  BY <1>1, <1>7, TextNow, TerminatorTypes
<1>11. IsOpen(code, insert) => FlowsOn(Body, insert, code[insert].insts, t)
  BY <1>1, <1>5, <1>6, BranchesOn
<1>12. FlowsOn(Body, expr(r), << >>, u)
  <2>1. u.op = "br" /\ u.to[1] = cond(r)
    BY DEF Br
  <2>2. EndsAt(Body, expr(r), << >>) = r
    BY <1>6 DEF EndsAt
  <2> QED
    BY <1>6, <2>1, <2>2 DEF FlowsOn
<1>13. LoopsAre(Body, SubSeq(calls, 1, Len(calls) - 1), SubSeq(loopStack, 1, Len(loopStack) - 1))
  BY <1>1, TextNow, LoopsLeft
<1>14. /\ code' = Terminate(one, expr(r), u) /\ insert' = after(r) /\ p' = p + 1
       /\ pc' = pc /\ prog' = prog /\ calls' = SubSeq(calls, 1, Len(calls) - 1)
       /\ loopStack' = SubSeq(loopStack, 1, Len(loopStack) - 1)
  BY DEF emit_while_end, Forward, Running, Leave
<1>15. Leads(t, DOMAIN code)
  <2>1. t.to[1] = expr(r) /\ Len(t.to) = 1
    BY DEF Br
  <2> QED
    BY <1>8, <2>1 DEF Leads
<1> HIDE DEF r, t, u
<1>16. /\ BlocksFollow(Body, one, insert) /\ \A x \in DOMAIN code : one[x].insts = code[x].insts
       /\ Good(Body, one) /\ DOMAIN one = DOMAIN code /\ ~IsOpen(one, insert)
  <2>1. Good(Body, code) /\ insert \in DOMAIN code /\ BlocksFollow(Body, code, insert)
    BY <1>1, TextNow
  <2>2. BlocksFollow(Body, one, insert) /\ \A x \in DOMAIN code : one[x].insts = code[x].insts
    BY <1>10, <1>11, <2>1, FollowTerminateOpen
  <2>3. Good(Body, one) /\ DOMAIN one = DOMAIN code /\ ~IsOpen(one, insert)
    BY <1>10, <1>15, <2>1, GoodTerminateOpen
  <2> QED
    BY <2>2, <2>3
<1> HIDE DEF one
<1>17. insert \in DOMAIN code
  BY <1>1, TextNow
<1>18. /\ BlocksFollow(Body, code', insert) /\ \A x \in DOMAIN one : code'[x].insts = one[x].insts
       /\ \A x \in DOMAIN one : x # expr(r) => code'[x] = one[x]
  <2>1. FlowsOn(Body, expr(r), one[expr(r)].insts, u)
    BY <1>8, <1>9, <1>12, <1>16
  <2>2. expr(r) \in DOMAIN one
    BY <1>8, <1>16
  <2>3. BlocksFollow(Body, code', insert) /\ \A x \in DOMAIN one : code'[x].insts = one[x].insts
    BY <1>10, <1>14, <1>16, <2>1, <2>2, FollowTerminate
  <2>4. \A x \in DOMAIN one : x # expr(r) => code'[x] = one[x]
    <3>1. one \in [DOMAIN one -> Blocks(Body)]
      BY <1>16 DEF Good
    <3> QED
      BY <1>10, <1>14, <2>2, <3>1, TerminateType
  <2> QED
    BY <2>3, <2>4
<1>19. ~IsOpen(code', insert)
  BY <1>8, <1>16, <1>17, <1>18 DEF IsOpen
<1>20. BlocksFollow(Body, code', after(r))
  BY <1>18, <1>19, FollowInsert
<1>21. Points(Body, code', after(r), p + 1)
  <2>1. code'[after(r)].insts = << >> /\ p + 1 \in Nat
    BY <1>1, <1>8, <1>9, <1>16, <1>18, TextNow
  <2> QED
    BY <1>6, <2>1, PointsAtStart
<1> QED
  BY <1>1, <1>13, <1>14, <1>20, <1>21, TextKeeps

LEMMA FunctionFollows ==
  ASSUME CodeInv, TextInv, emit_function
  PROVE  TextInv'
<1>1. /\ pc = "codegen" /\ ~AtToken /\ pc' \in {"verify", "aborted"} /\ insert' = insert /\ prog' = prog
      /\ Body' = Body
      /\ code' = code \/ code' = TerminateOpen(code, insert, Ret(Bottom(Body)))
  BY DEF emit_function, Body
<1>2. /\ IsBody(Body) /\ Len(Body) \in Nat /\ Good(Body, code) /\ insert \in DOMAIN code
      /\ Around(Body, p, calls)
  BY <1>1, BodyNow, AtCodegen DEF CodeInv
<1>3. BlocksFollow(Body, code, insert) /\ JumpsInLoops(Body) /\ Points(Body, code, insert, p)
  BY <1>1 DEF TextInv
<1>4. p = Bottom(Body)
  BY <1>1, <1>2, NoCallsAtBottom DEF CodeInv
<1>5. BlocksFollow(Body, code', insert)
  <2> DEFINE t == Ret(Bottom(Body))
  <2>1. Bottom(Body) \in 0 .. Bottom(Body) /\ Bottom(Body) \in 1 .. Bottom(Body)
    BY <1>2 DEF Bottom
  <2>2. t \in Terminators(Body) /\ t # NoTerminator
    BY <1>2, <2>1, TerminatorTypes
  <2>3. Here(Body, p) = Bottom(Body)
    BY <1>2, <1>4, <2>1, HereFacts
  <2>4. t.op = "ret" /\ t.q = Bottom(Body)
    BY DEF Ret
  <2> HIDE DEF t
  <2>5. IsOpen(code, insert) => FlowsOn(Body, insert, code[insert].insts, t)
    BY <1>3, <2>3, <2>4 DEF Points, FlowsOn
  <2>6. BlocksFollow(Body, TerminateOpen(code, insert, t), insert)
    BY <1>2, <1>3, <2>2, <2>5, FollowTerminateOpen
  <2> QED
    BY <1>1, <1>3, <2>6 DEF t
<1> QED
  BY <1>1, <1>3, <1>5 DEF TextInv

LEMMA VerifyFollows ==
  ASSUME CodeInv, TextInv, verifyModule
  PROVE  TextInv'
<1>1. /\ pc = "verify" /\ pc' \in {"run", "invalid"} /\ code' = code /\ Body' = Body
      /\ insert' \in {insert, entry}
  BY DEF verifyModule, Compiled, Body
<1>2. BlocksFollow(Body, code, insert) /\ JumpsInLoops(Body)
  BY <1>1 DEF TextInv
<1>3. BlocksFollow(Body, code, insert')
  <2>1. \A b \in DOMAIN code : ~IsOpen(code, b)
    BY <1>1 DEF CodeInv, EmitInv
  <2> QED
    BY <1>2, <2>1, FollowInsert
<1> QED
  BY <1>1, <1>2, <1>3 DEF TextInv

LEMMA RunFollows ==
  ASSUME CodeInv, TextInv, Run
  PROVE  TextInv'
<1>1. pc = "run" /\ pc' \in {"run", "returned"} /\ code' = code /\ Body' = Body
  BY DEF Run, execute, branch, conditional_branch, return, AtTerminator, Enters, Compiled, Body
<1>2. BlocksFollow(Body, code, insert) /\ JumpsInLoops(Body)
  BY <1>1 DEF TextInv
<1>3. BlocksFollow(Body, code, insert')
  <2>1. \A b \in DOMAIN code : ~IsOpen(code, b)
    BY <1>1 DEF CodeInv, EmitInv
  <2> QED
    BY <1>2, <2>1 DEF BlocksFollow
<1> QED
  BY <1>1, <1>2, <1>3 DEF TextInv

\* g_in_loop counts the loops around a statement.
LEMMA CountsLoops ==
  ASSUME CodeInv, pc = "check", AtToken, Body[p].k # "end"
  PROVE  p \in DOMAIN Body /\ (g_in_loop > 0 <=> Loop(Body, p) # 0)
<1> DEFINE W == {k \in DOMAIN calls : Body[calls[k]].k \in {"while"}}
<1>1. /\ IsBody(Body) /\ Closed(Body) /\ Len(Body) \in Nat /\ DOMAIN Body = 1 .. Len(Body)
      /\ p \in DOMAIN Body /\ p \in Nat
  BY BodyNow DEF CodeInv, TypeOK, AtToken
<1>2. Around(Body, p, calls) /\ g_in_loop = Cardinality(W) /\ calls \in Seq(1 .. Len(Body))
  BY DEF CodeInv, WalkInv, TypeOK, Count
<1>3. IsFiniteSet(W)
  BY <1>2, CountType
<1>4. Cardinality(W) \in Nat /\ (Cardinality(W) = 0 <=> W = {})
  <2> HIDE DEF W
  <2> QED
    BY <1>3, FS_CardinalityType, FS_EmptySet
<1>5. ASSUME NEW k \in W PROVE Loop(Body, p) # 0
  <2>1. k \in DOMAIN calls /\ Body[calls[k]].k = "while"
    OBVIOUS
  <2>2. calls[k] \in DOMAIN Body /\ Opens(Body, calls[k]) /\ calls[k] < p /\ p <= End(Body, calls[k])
    BY <1>1, <1>2, <2>1 DEF Around
  <2>3. End(Body, calls[k]) \in DOMAIN Body /\ Body[End(Body, calls[k])].k = "end"
    BY <1>1, <2>2, EndCloses
  <2>4. p < End(Body, calls[k]) /\ calls[k] \in 1 .. p - 1
    BY <1>1, <2>2, <2>3
  <2> QED
    BY <1>1, <2>1, <2>2, <2>4, LoopFacts DEF Within
<1>6. ASSUME Loop(Body, p) # 0 PROVE W # {}
  <2> DEFINE o == Loop(Body, p)
  <2>1. o \in DOMAIN Body /\ Body[o].k = "while" /\ Opens(Body, o) /\ o < p /\ p < End(Body, o)
        /\ End(Body, o) \in DOMAIN Body
    BY <1>1, <1>6, HopFacts
  <2> HIDE DEF o
  <2>2. p <= End(Body, o)
    BY <1>1, <2>1
  <2>3. \E k \in DOMAIN calls : calls[k] = o
    <3>1. IsBody(Body) /\ p \in DOMAIN Body /\ Around(Body, p, calls)
      BY <1>1, <1>2
    <3> QED
      BY <2>1, <2>2, <3>1, InAround
  <2> QED
    BY <2>1, <2>3
<1> QED
  BY <1>1, <1>2, <1>4, <1>5, <1>6

\* One token on in the semantic pass; only a jump outside of all loops is an error of its kind.
LEMMA CheckFollows ==
  ASSUME CodeInv, TextInv, pc = "check", AtToken, pc' = pc, prog' = prog, p' = p + 1,
         UNCHANGED <<code, insert, loopStack, i>>,
         "SEM_BREAK_OUTSIDE_LOOP" \in errors' <=>
            "SEM_BREAK_OUTSIDE_LOOP" \in errors
              \/ (Body[p].k \in {"break", "continue"} /\ Loop(Body, p) = 0)
  PROVE  TextInv'
<1>1. /\ Body' = Body /\ p \in DOMAIN Body /\ p \in Nat /\ DOMAIN Body \subseteq Nat
      /\ BlocksFollow(Body, code, insert) /\ code[entry] = NewBlock
      /\ "SEM_BREAK_OUTSIDE_LOOP" \notin errors <=> JumpsSeen(Body, p)
  <2>1. p \in DOMAIN Body /\ p \in Nat /\ DOMAIN Body \subseteq Nat
    BY BodyNow DEF CodeInv, TypeOK, AtToken
  <2> QED
    BY <2>1 DEF TextInv, Body
<1>2. JumpsSeen(Body, p + 1) <=>
        JumpsSeen(Body, p) /\ ~(Body[p].k \in {"break", "continue"} /\ Loop(Body, p) = 0)
  <2>1. \A q \in DOMAIN Body : q < p + 1 <=> q < p \/ q = p
    BY <1>1
  <2> QED
    BY <1>1, <2>1 DEF JumpsSeen
<1> QED
  BY <1>1, <1>2 DEF TextInv

LEMMA SemanticFollows ==
  ASSUME CodeInv, TextInv, SemanticPass, UNCHANGED <<code, insert, loopStack, i>>
  PROVE  TextInv'
<1>1. ASSUME check_if \/ check_while_loop \/ check_end \/ check_statement \/ ret
      PROVE  TextInv'
  <2>1. pc = "check" /\ AtToken /\ Body[p].k \notin {"break", "continue"}
        /\ pc' = pc /\ prog' = prog /\ p' = p + 1
    BY <1>1 DEF check_if, check_while_loop, check_end, check_statement, ret, Check, Forward, Token
  <2>2. errors' \in {errors, errors \cup {"SEM_RETURN_TYPE_MISMATCH"}}
    BY <1>1 DEF check_if, check_while_loop, check_end, check_statement, ret, Error, checkVars
  <2> QED
    BY <2>1, <2>2, CheckFollows
<1>2. CASE check_unconditional_branches
  <2>1. pc = "check" /\ AtToken /\ Body[p].k \in {"break", "continue"}
        /\ pc' = pc /\ prog' = prog /\ p' = p + 1
    BY <1>2 DEF check_unconditional_branches, Check, Forward, Token
  <2>2. g_in_loop <= 0 <=> Loop(Body, p) = 0
    <3>1. g_in_loop \in Nat
      BY DEF CodeInv, TypeOK
    <3> QED
      BY <2>1, <3>1, CountsLoops
  <2>3. errors' = IF Loop(Body, p) = 0 THEN errors \cup {"SEM_BREAK_OUTSIDE_LOOP"} ELSE errors
    BY <1>2, <2>2 DEF check_unconditional_branches, Error
  <2> QED
    BY <2>1, <2>3, CheckFollows
<1>3. CASE handle_fn
  <2>1. /\ pc = "check" /\ ~AtToken /\ p' = 1 /\ Body' = Body /\ calls' = calls
        /\ pc' \in {"crashed", "codegen", "rejected"}
        /\ errors' \in {errors, errors \cup {"SEM_RETURN_TYPE_MISMATCH"}}
        /\ pc' = "codegen" => errors' = {}
    BY <1>3 DEF handle_fn, Body, Error
  <2>2. /\ DOMAIN code = {entry} /\ insert = entry /\ loopStack = << >> /\ code[entry] = NewBlock
        /\ BlocksFollow(Body, code, insert)
        /\ "SEM_BREAK_OUTSIDE_LOOP" \notin errors <=> JumpsSeen(Body, p)
    BY <2>1 DEF CodeInv, EmitInv, TextInv
  <2>3. JumpsSeen(Body, p) <=> JumpsInLoops(Body)
    <3>1. \A q \in DOMAIN Body : q < p
      BY <2>1, BodyNow DEF CodeInv, TypeOK, AtToken
    <3> QED
      BY <3>1, BodyNow DEF CodeInv, JumpsSeen, JumpsInLoops, Positions
  <2>4. calls = << >>
    BY <2>1, NoCallsAtBottom DEF CodeInv, WalkInv
  <2>5. Points(Body, code, entry, 1)
    <3>1. entry[2] = "entry"
      BY DEF entry, Block
    <3>2. Origin(Body, entry) = 1
      BY <3>1 DEF Origin
    <3>3. code[entry].insts = << >>
      BY <2>2 DEF NewBlock
    <3> QED
      BY <3>1, <3>2, <3>3, PointsAtStart
  <2>6. LoopsAre(Body, << >>, << >>)
    BY DEF LoopsAre
  <2>7. "SEM_BREAK_OUTSIDE_LOOP" \in errors' <=> ~JumpsInLoops(Body)
    BY <2>1, <2>2, <2>3
  <2> QED
    BY <2>1, <2>2, <2>4, <2>5, <2>6, <2>7 DEF TextInv
<1> QED
  BY <1>1, <1>2, <1>3 DEF SemanticPass

LEMMA InitFollows == Init => TextInv
<1> SUFFICES ASSUME Init PROVE TextInv
  OBVIOUS
<1>1. /\ code = [b \in {entry} |-> NewBlock] /\ insert = entry /\ pc = "check" /\ p = 1 /\ errors = {}
      /\ prog \in Functions
  BY DEF Init, CheckInit
<1>2. IsBody(Body)
  BY <1>1, BodyFacts DEF Body
<1>3. DOMAIN code = {entry} /\ code[entry] = NewBlock /\ NewBlock.insts = << >> /\ IsOpen(code, entry)
  BY <1>1 DEF NewBlock, IsOpen
<1>4. BlocksFollow(Body, code, insert)
  BY <1>1, <1>3 DEF BlocksFollow, BelongsTo, StraightLine
<1>5. JumpsSeen(Body, 1)
  <2>1. \A q \in DOMAIN Body : ~(q < 1)
    BY <1>2 DEF IsBody, Closed
  <2> QED
    BY <2>1 DEF JumpsSeen
<1> QED
  BY <1>1, <1>3, <1>4, <1>5 DEF TextInv

LEMMA StepFollows ==
  ASSUME CodeInv, TextInv, [Next]_vars
  PROVE  TextInv'
<1>1. CASE UNCHANGED vars \/ Finished
  <2>1. UNCHANGED vars
    BY <1>1 DEF Finished
  <2>2. Body' = Body /\ pc' = pc /\ p' = p /\ calls' = calls /\ errors' = errors /\ code' = code
        /\ insert' = insert /\ loopStack' = loopStack
    BY <2>1 DEF vars, checkVars, Body
  <2> QED
    BY <2>2 DEF TextInv
<1>2. CASE Compile
  BY <1>2, SemanticFollows, SkipFollows, StatementFollows, ReturnFollows, JumpFollows, IfFollows,
     ElseFollows, IfEndFollows, WhileFollows, WhileEndFollows, FunctionFollows, VerifyFollows
     DEF Compile
<1>3. CASE Run
  BY <1>3, RunFollows
<1> QED
  BY <1>1, <1>2, <1>3 DEF Next

-----------------------------------------------------------------------------
(* Where execution is *)

Place ==
  IF pc = "run" /\ i <= Len(code[insert].insts) THEN code[insert].insts[i]
  ELSE EndsAt(Body, insert, code[insert].insts)

\* What a block is like when all are closed.
LEMMA ClosedBlock ==
  ASSUME CodeInv, TextInv, pc \in {"run", "returned"}, NEW b \in DOMAIN code
  PROVE  /\ code[b] \in Blocks(Body) /\ code[b].insts \in Seq(1 .. Len(Body))
         /\ code[b].term \in Terminators(Body) /\ code[b].term.op \in {"br", "condbr", "ret"}
         /\ BelongsTo(Body, b) /\ StraightLine(Body, b, code[b].insts)
         /\ FlowsOn(Body, b, code[b].insts, code[b].term)
         /\ code[b].term.op \in {"br", "condbr"} =>
              code[b].term.to[1] \in DOMAIN code
         /\ code[b].term.op = "condbr" => code[b].term.to[2] \in DOMAIN code
<1>1. ~IsOpen(code, b) /\ Good(Body, code) /\ BlocksFollow(Body, code, insert)
  BY DEF CodeInv, EmitInv, CodeTypes, TextInv
<1>2. code[b] \in Blocks(Body)
  BY <1>1 DEF Good
<1>3. code[b].insts \in Seq(1 .. Len(Body)) /\ code[b].term \in Terminators(Body)
  BY <1>2 DEF Blocks
<1> DEFINE t == code[b].term
<1>4. /\ t.op \in {"none", "br", "condbr", "ret"}
      /\ t.op = "br" => Len(t.to) = 1
      /\ t.op = "condbr" => Len(t.to) = 2
  BY <1>3 DEF Terminators
<1>5. BelongsTo(Body, b) /\ StraightLine(Body, b, code[b].insts) /\ FlowsOn(Body, b, code[b].insts, t)
  BY <1>1 DEF BlocksFollow
<1>7. t.op # "none"
  BY <1>5 DEF FlowsOn
<1>6. \A k \in 1 .. Len(t.to) : t.to[k] \in DOMAIN code
  BY <1>1 DEF Good, Linked
<1> QED
  BY <1>2, <1>3, <1>4, <1>5, <1>6, <1>7

\* Position goes through blocks that do nothing.
LEMMA PositionIsPlace ==
  ASSUME CodeInv, TextInv, pc \in {"run", "returned"}
  PROVE  Position = Place
<1> DEFINE D == DOMAIN code
           Rule(f, b) ==
             IF code[b].term.op = "br" /\ code[b].insts = << >> THEN f[code[b].term.to[1]]
             ELSE IF code[b].insts # << >> THEN code[b].insts[1] ELSE code[b].term.q
           reach == CHOOSE f : f = [b \in D |-> Rule(f, b)]
           S == [b \in D |-> StartsAt(Body, b)]
<1>1. ASSUME NEW b \in D
      PROVE  /\ code[b].insts # << >> => Rule(S, b) = S[b] /\ \A f : Rule(f, b) = code[b].insts[1]
             /\ code[b].insts = << >> /\ code[b].term.op = "br" =>
                  /\ Rule(S, b) = S[b] /\ \A f : Rule(f, b) = f[code[b].term.to[1]]
                  /\ code[b].term.to[1] \in D /\ Rank(Body, code[b].term.to[1]) < Rank(Body, b)
             /\ code[b].insts = << >> /\ code[b].term.op # "br" =>
                  Rule(S, b) = S[b] /\ \A f : Rule(f, b) = code[b].term.q
             /\ Rank(Body, b) \in Nat
  <2>1. /\ code[b].term.op \in {"br", "condbr", "ret"} /\ BelongsTo(Body, b)
        /\ StraightLine(Body, b, code[b].insts) /\ FlowsOn(Body, b, code[b].insts, code[b].term)
        /\ code[b].term.op \in {"br", "condbr"} => code[b].term.to[1] \in D
    BY ClosedBlock
  <2>2. S[b] = StartsAt(Body, b)
    OBVIOUS
  <2>3. CASE code[b].insts # << >>
    <3>1. code[b].insts[1] = StartsAt(Body, b)
      BY <2>1, <2>3 DEF StraightLine
    <3>2. Rule(S, b) = code[b].insts[1] /\ \A f : Rule(f, b) = code[b].insts[1]
      BY <2>3
    <3>3. Rank(Body, b) \in Nat
      BY <2>1, BodyNow, OriginFacts DEF CodeInv
    <3> QED
      BY <2>2, <2>3, <3>1, <3>2, <3>3
  <2>4. CASE code[b].insts = << >> /\ code[b].term.op = "br"
    <3>1. /\ StartsAt(Body, code[b].term.to[1]) = StartsAt(Body, b)
          /\ Rank(Body, code[b].term.to[1]) < Rank(Body, b)
      BY <2>1, <2>4 DEF FlowsOn, EndsAt
    <3>2. Rule(S, b) = S[code[b].term.to[1]] /\ \A f : Rule(f, b) = f[code[b].term.to[1]]
      BY <2>4
    <3>3. Rank(Body, b) \in Nat
      BY <2>1, BodyNow, OriginFacts DEF CodeInv
    <3> QED
      BY <2>1, <2>2, <2>4, <3>1, <3>2, <3>3
  <2>5. CASE code[b].insts = << >> /\ code[b].term.op # "br"
    <3>1. code[b].term.q = StartsAt(Body, b)
      BY <2>1, <2>5 DEF FlowsOn, EndsAt
    <3>2. Rule(S, b) = code[b].term.q /\ \A f : Rule(f, b) = code[b].term.q
      BY <2>5
    <3>3. Rank(Body, b) \in Nat
      BY <2>1, BodyNow, OriginFacts DEF CodeInv
    <3> QED
      BY <2>2, <2>5, <3>1, <3>2, <3>3
  <2> QED
    BY <2>3, <2>4, <2>5
<1>2. Position = IF ~AtTerminator /\ pc = "run" THEN code[insert].insts[i]
                 ELSE IF term.op = "br" THEN reach[term.to[1]] ELSE term.q
  BY Zenon DEF Position
<1> HIDE DEF Rule
<1>3. S = [b \in D |-> Rule(S, b)]
  <2>1. \A b \in D : Rule(S, b) = S[b]
    BY <1>1
  <2> QED
    BY <2>1
<1>4. reach = [b \in D |-> Rule(reach, b)]
  <2> HIDE DEF S
  <2> QED
    BY <1>3
<1> HIDE DEF reach
<1>5. \A b \in D : reach[b] = S[b]
  <2> DEFINE W == {b \in D : reach[b] # S[b]}
             R == [b \in D |-> Rank(Body, b)]
  <2>1. SUFFICES ASSUME W # {} PROVE FALSE
    OBVIOUS
  <2>2. R \in [D -> Nat] /\ W \subseteq D /\ \A b \in D : R[b] = Rank(Body, b)
    BY <1>1
  <2>3. \A b \in D : b \notin W <=> reach[b] = S[b]
    OBVIOUS
  <2> HIDE DEF W, R
  <2>4. \E b \in W : \A x \in W : R[b] <= R[x]
    BY <2>1, <2>2, LowestRank
  <2>5. PICK b \in W : \A x \in W : R[b] <= R[x]
    BY <2>4
  <2>6. b \in D /\ reach[b] = Rule(reach, b) /\ reach[b] # S[b] /\ S[b] = Rule(S, b)
    <3>1. b \in D /\ reach[b] # S[b]
      BY <2>2, <2>3, <2>5
    <3>2. reach[b] = Rule(reach, b)
      BY <1>4, <3>1
    <3>3. S[b] = Rule(S, b)
      BY <1>1, <3>1
    <3> QED
      BY <3>1, <3>2, <3>3
  <2> HIDE DEF S
  <2>7. code[b].insts = << >> /\ code[b].term.op = "br"
    BY <1>1, <2>6
  <2> DEFINE x == code[b].term.to[1]
  <2>8. x \in D /\ Rule(reach, b) = reach[x] /\ Rule(S, b) = S[x] /\ Rank(Body, x) < Rank(Body, b)
    BY <1>1, <2>6, <2>7
  <2> HIDE DEF x, D
  <2>9. x \in W /\ R[x] = Rank(Body, x) /\ R[b] = Rank(Body, b)
    BY <2>2, <2>3, <2>6, <2>8
  <2>10. R[b] \in Nat /\ R[x] \in Nat
    BY <2>2, <2>6, <2>8
  <2> QED
    BY <2>5, <2>8, <2>9, <2>10
<1>6. insert \in D /\ i \in 1 .. Len(code[insert].insts) + 1
  BY DEF CodeInv, TypeOK
<1>7. /\ code[insert].term.op \in {"br", "condbr", "ret"}
      /\ FlowsOn(Body, insert, code[insert].insts, code[insert].term)
      /\ code[insert].insts \in Seq(1 .. Len(Body))
      /\ code[insert].term.op \in {"br", "condbr"} => code[insert].term.to[1] \in D
  BY <1>6, ClosedBlock
<1>8. IF term.op = "br" THEN reach[term.to[1]] = EndsAt(Body, insert, code[insert].insts)
      ELSE term.q = EndsAt(Body, insert, code[insert].insts)
  <2>1. CASE term.op = "br"
    BY <1>5, <1>7, <2>1 DEF FlowsOn, term
  <2>2. CASE term.op # "br"
    BY <1>7, <2>2 DEF FlowsOn, term
  <2> QED
    BY <2>1, <2>2
<1>9. (~AtTerminator /\ pc = "run") <=> (pc = "run" /\ i <= Len(code[insert].insts))
  BY <1>6, <1>7 DEF AtTerminator
<1> QED
  BY <1>2, <1>8, <1>9 DEF Place

-----------------------------------------------------------------------------
(* The program runs as its text says *)

LEMMA RunsOn ==
  ASSUME CodeInv, TextInv, Run
  PROVE  /\ pc = "run" /\ Place \in 1 .. Bottom(Body) /\ prog' = prog
         /\ \/ pc' = "run" /\ Place' = Place
            \/ /\ pc' = "run" /\ Place \in DOMAIN Body /\ Body[Place].k = "do"
               /\ Place' = Here(Body, Place + 1)
            \/ /\ pc' = "run" /\ Place \in DOMAIN Body /\ Body[Place].k \in {"if", "while"}
               /\ Place' \in Branches(Body, Place)
            \/ /\ pc' = "returned" /\ Place' = Place
               /\ Place = Bottom(Body) \/ (Place \in DOMAIN Body /\ Body[Place].k = "ret")
<1> DEFINE s == code[insert].insts
<1>1. /\ pc = "run" /\ code' = code /\ prog' = prog /\ Body' = Body /\ pc' \in {"run", "returned"}
      /\ insert \in DOMAIN code /\ i \in 1 .. Len(s) + 1
      /\ IsBody(Body) /\ DOMAIN Body = 1 .. Len(Body) /\ Len(Body) \in Nat /\ Bottom(Body) = Len(Body) + 1
  <2>1. pc = "run" /\ code' = code /\ prog' = prog /\ pc' \in {"run", "returned"}
    BY DEF Run, execute, branch, conditional_branch, return, AtTerminator, Enters, Compiled
  <2>2. IsBody(Body) /\ DOMAIN Body = 1 .. Len(Body) /\ Len(Body) \in Nat /\ Bottom(Body) = Len(Body) + 1
    BY BodyNow DEF CodeInv, Bottom
  <2> QED
    BY <2>1, <2>2 DEF CodeInv, TypeOK, Body
<1>2. /\ s \in Seq(1 .. Len(Body)) /\ BelongsTo(Body, insert) /\ StraightLine(Body, insert, s)
      /\ FlowsOn(Body, insert, s, term)
      /\ term.op \in {"br", "condbr", "ret"}
      /\ term.op \in {"br", "condbr"} => term.to[1] \in DOMAIN code
      /\ term.op = "condbr" => term.to[2] \in DOMAIN code
  BY <1>1, ClosedBlock DEF term
<1>3. Len(s) \in Nat /\ DOMAIN s = 1 .. Len(s)
  BY <1>2
<1>4. EndsAt(Body, insert, s) \in 1 .. Bottom(Body)
  <2>1. CASE s = << >>
    BY <1>1, <1>2, <2>1, OriginFacts DEF EndsAt
  <2>2. CASE s # << >>
    <3>1. s[Len(s)] \in 1 .. Len(Body)
      BY <1>2, <1>3, <2>2
    <3>2. s[Len(s)] + 1 \in 1 .. Bottom(Body)
      BY <1>1, <3>1
    <3> QED
      BY <1>1, <2>2, <3>2, HereFacts DEF EndsAt
  <2> QED
    BY <2>1, <2>2
<1>5. \A q \in 1 .. Bottom(Body) : q = Bottom(Body) \/ q \in DOMAIN Body
  BY <1>1
\* Control at the beginning of a block.
<1>6. ASSUME NEW b \in DOMAIN code, insert' = b, i' = 1, pc' = "run"
      PROVE  Place' = StartsAt(Body, b)
  <2> DEFINE r == code[b].insts
  <2>1. r \in Seq(1 .. Len(Body)) /\ StraightLine(Body, b, r)
    BY <1>1, ClosedBlock
  <2>2. Place' = IF 1 <= Len(r) THEN r[1] ELSE EndsAt(Body, b, r)
    BY <1>1, <1>6 DEF Place
  <2>3. CASE r = << >>
    <3>1. ~(1 <= Len(r))
      BY <2>3
    <3> QED
      BY <2>2, <2>3, <3>1 DEF EndsAt
  <2>4. CASE r # << >>
    <3>1. 1 <= Len(r)
      BY <2>1, <2>4
    <3> QED
      BY <2>1, <2>2, <2>4, <3>1 DEF StraightLine
  <2> QED
    BY <2>3, <2>4
<1>7. CASE execute
  <2>1. i \in DOMAIN s /\ i' = i + 1 /\ insert' = insert /\ pc' = "run" /\ i <= Len(s)
    <3>1. i <= Len(s) /\ i' = i + 1 /\ insert' = insert /\ pc' = pc
      BY <1>7 DEF execute
    <3> QED
      BY <1>1, <1>3, <3>1
  <2>2. Place = s[i] /\ s[i] \in DOMAIN Body /\ Body[s[i]].k = "do"
    BY <1>1, <1>2, <2>1 DEF Place, StraightLine
  <2>3. Place' = IF i + 1 <= Len(s) THEN s[i + 1] ELSE EndsAt(Body, insert, s)
    BY <1>1, <2>1 DEF Place
  <2>4. CASE i + 1 <= Len(s)
    <3>1. i + 1 \in DOMAIN s
      BY <1>1, <1>3, <2>4
    <3>2. s[i + 1] = Here(Body, s[i] + 1)
      BY <1>2, <2>1, <3>1 DEF StraightLine
    <3>3. s[i] \in 1 .. Bottom(Body)
      BY <1>1, <2>2
    <3> QED
      BY <1>1, <2>1, <2>2, <2>3, <2>4, <3>2, <3>3
  <2>5. CASE ~(i + 1 <= Len(s))
    <3>1. i = Len(s) /\ s # << >>
      BY <1>1, <1>3, <2>1, <2>5
    <3>2. EndsAt(Body, insert, s) = Here(Body, s[i] + 1)
      BY <3>1 DEF EndsAt
    <3>3. s[i] \in 1 .. Bottom(Body)
      BY <1>1, <2>2
    <3> QED
      BY <1>1, <2>1, <2>2, <2>3, <2>5, <3>2, <3>3
  <2> QED
    BY <2>4, <2>5
<1>8. ASSUME AtTerminator
      PROVE  Place = EndsAt(Body, insert, s)
  <2>1. ~(i <= Len(s))
    BY <1>1, <1>3, <1>8 DEF AtTerminator
  <2> QED
    BY <2>1 DEF Place
<1>9. CASE branch
  <2>1. AtTerminator /\ term.op = "br" /\ insert' = term.to[1] /\ i' = 1 /\ pc' = "run"
    BY <1>1, <1>9 DEF branch, Enters
  <2>2. Place' = StartsAt(Body, term.to[1])
    BY <1>2, <1>6, <2>1
  <2> QED
    BY <1>1, <1>2, <1>4, <1>8, <2>1, <2>2 DEF FlowsOn
<1>10. CASE conditional_branch
  <2>1. AtTerminator /\ term.op = "condbr" /\ i' = 1 /\ pc' = "run"
        /\ \/ Body[term.q].cond # "false" /\ insert' = term.to[1]
           \/ Body[term.q].cond # "true" /\ insert' = term.to[2]
    BY <1>1, <1>10 DEF conditional_branch, Enters
  <2>2. /\ Place = term.q /\ term.q \in DOMAIN Body /\ Body[term.q].k \in {"if", "while"}
        /\ StartsAt(Body, term.to[1]) = IfTrue(Body, term.q)
        /\ StartsAt(Body, term.to[2]) = IfFalse(Body, term.q)
    BY <1>2, <1>8, <2>1 DEF FlowsOn
  <2>3. \/ Body[term.q].cond # "false" /\ Place' = IfTrue(Body, term.q)
        \/ Body[term.q].cond # "true" /\ Place' = IfFalse(Body, term.q)
    BY <1>2, <1>6, <2>1, <2>2
  <2>4. Place' \in Branches(Body, term.q)
    BY <2>3 DEF Branches
  <2> QED
    BY <1>1, <1>4, <1>8, <2>1, <2>2, <2>4
<1>11. CASE return
  <2>1. AtTerminator /\ term.op = "ret" /\ insert' = insert /\ i' = i /\ pc' = "returned"
    BY <1>11 DEF return
  <2>2. Place' = EndsAt(Body, insert, s)
    BY <1>1, <2>1 DEF Place
  <2>3. Place = Bottom(Body) \/ (Place \in DOMAIN Body /\ Body[Place].k = "ret")
    BY <1>2, <1>8, <2>1 DEF FlowsOn
  <2> QED
    BY <1>1, <1>4, <1>8, <2>1, <2>2, <2>3
<1> QED
  BY <1>7, <1>9, <1>10, <1>11 DEF Run

-----------------------------------------------------------------------------
(* Lists of statements *)

\* What holds of a position if it holds of all behind it, holds of all.
LEMMA Downward ==
  ASSUME NEW n \in Nat, NEW S, \A q \in 1 .. n : (\A x \in 1 .. n : x > q => x \in S) => q \in S
  PROVE  1 .. n \subseteq S
<1> DEFINE W == (1 .. n) \ S
<1>1. SUFFICES ASSUME W # {} PROVE FALSE
  OBVIOUS
<1>2. PICK m \in W : \A k \in W : k <= m
  <2>1. W \subseteq 1 .. n
    OBVIOUS
  <2> HIDE DEF W
  <2> QED
    BY <1>1, <2>1, MaxExists
<1>3. \A x \in 1 .. n : x > m => x \in S
  BY <1>2
<1> QED
  BY <1>2, <1>3

\* The construct at c is around q.
Inside(P, q, c) == c \in DOMAIN P /\ Opens(P, c) /\ c < q /\ q <= End(P, c)

\* The constructs around the next token, and around the next statement of a list.
LEMMA InsideNext ==
  ASSUME NEW P, IsBody(P), NEW q \in DOMAIN P
  PROVE  /\ P[q].k # "end" /\ ~Opens(P, q) => \A c : Inside(P, q + 1, c) <=> Inside(P, q, c)
         /\ Opens(P, q) => \A c : Inside(P, q + 1, c) <=> Inside(P, q, c) \/ c = q
         /\ P[q].k # "end" => \A c : Inside(P, Behind(P, q), c) <=> Inside(P, q, c)
<1>1. Closed(P) /\ Len(P) \in Nat /\ DOMAIN P = 1 .. Len(P) /\ q \in Nat
  BY DEF IsBody, Closed
<1>2. ASSUME NEW c \in DOMAIN P, Opens(P, c)
      PROVE  c \in Nat /\ End(P, c) \in Nat /\ P[End(P, c)].k = "end" /\ c < End(P, c)
  BY <1>1, <1>2, EndCloses
<1>3. ASSUME P[q].k # "end", ~Opens(P, q), NEW c
      PROVE  Inside(P, q + 1, c) <=> Inside(P, q, c)
  <2>1. ASSUME c \in DOMAIN P, Opens(P, c)
        PROVE  (c < q + 1 /\ q + 1 <= End(P, c)) <=> (c < q /\ q <= End(P, c))
    <3>1. c \in Nat /\ End(P, c) \in Nat /\ c # q /\ End(P, c) # q
      BY <1>2, <1>3, <2>1
    <3> QED
      BY <1>1, <3>1
  <2> QED
    BY <2>1 DEF Inside
<1>4. ASSUME Opens(P, q), NEW c
      PROVE  Inside(P, q + 1, c) <=> Inside(P, q, c) \/ c = q
  <2>0. P[q].k # "end"
    BY <1>4 DEF Opens, Openers
  <2>1. ASSUME c \in DOMAIN P, Opens(P, c)
        PROVE  (c < q + 1 /\ q + 1 <= End(P, c)) <=> ((c < q /\ q <= End(P, c)) \/ c = q)
    <3>1. c \in Nat /\ End(P, c) \in Nat /\ End(P, c) # q /\ c < End(P, c)
      BY <1>2, <2>0, <2>1
    <3> QED
      BY <1>1, <3>1
  <2> QED
    BY <1>4, <2>1 DEF Inside
<1>5. ASSUME P[q].k # "end", Opens(P, q), NEW c
      PROVE  Inside(P, End(P, q) + 1, c) <=> Inside(P, q, c)
  <2>1. End(P, q) \in Nat /\ q < End(P, q) /\ P[End(P, q)].k = "end" /\ End(P, q) \in DOMAIN P
    BY <1>1, <1>5, EndCloses
  <2>2. ASSUME c \in DOMAIN P, Opens(P, c)
        PROVE  (c < End(P, q) + 1 /\ End(P, q) + 1 <= End(P, c)) <=> (c < q /\ q <= End(P, c))
    <3>1. c \in Nat /\ End(P, c) \in Nat /\ End(P, c) # q /\ c < End(P, c) /\ c # End(P, q)
      <4>1. P[c].k # "end"
        BY <2>2 DEF Opens, Openers
      <4> QED
        BY <1>2, <1>5, <2>1, <2>2, <4>1
    <3>2. q < c /\ c <= End(P, q) => End(P, c) < End(P, q)
      BY <1>1, <1>5, <2>2, EndsInside
    <3>3. c < q /\ q <= End(P, c) => End(P, q) < End(P, c)
      BY <1>1, <1>5, <2>2, EndsInside
    <3>4. c = q => End(P, c) = End(P, q)
      OBVIOUS
    <3> QED
      BY <1>1, <2>1, <3>1, <3>2, <3>3, <3>4
  <2> QED
    BY <2>2 DEF Inside
<1>6. ASSUME P[q].k # "end", NEW c
      PROVE  Inside(P, Behind(P, q), c) <=> Inside(P, q, c)
  BY <1>3, <1>5, <1>6 DEF Behind
<1> QED
  BY <1>3, <1>4, <1>6

\* Around an else or an end is what is around the construct, and the construct.
LEMMA InsidePart ==
  ASSUME NEW P, IsBody(P), NEW q \in DOMAIN P, Opens(P, q), NEW e \in DOMAIN P,
         P[e].k \in {"else", "end"}, q < e, e <= End(P, q), Level(P, e) = Level(P, q) + 1
  PROVE  \A c : Inside(P, e, c) <=> Inside(P, q, c) \/ c = q
<1>1. Closed(P) /\ Len(P) \in Nat /\ DOMAIN P = 1 .. Len(P) /\ q \in Nat /\ e \in Nat
  BY DEF IsBody, Closed
<1>2. End(P, q) \in Nat /\ q < End(P, q) /\ P[q].k # "end"
  BY <1>1, EndCloses DEF Opens, Openers
<1>3. ASSUME NEW c \in DOMAIN P, Opens(P, c)
      PROVE  (c < e /\ e <= End(P, c)) <=> ((c < q /\ q <= End(P, c)) \/ c = q)
  <2>1. /\ c \in Nat /\ End(P, c) \in Nat /\ End(P, c) # q /\ c < End(P, c)
        /\ Level(P, End(P, c)) = Level(P, c) + 1
        /\ \A r \in c + 1 .. End(P, c) - 1 : Level(P, r) > Level(P, c)
    BY <1>1, <1>2, <1>3, EndCloses
  <2>2. Level(P, c) \in Int /\ Level(P, q) \in Int
    BY <1>1, <1>3, LevelOfNext
  <2>3. c < q /\ q <= End(P, c) => End(P, q) < End(P, c)
    BY <1>1, <1>3, EndsInside
  <2>4. ASSUME q < c, c < e, e <= End(P, c)
        PROVE  FALSE
    <3>1. Level(P, c) > Level(P, q)
      <4>1. c \in q + 1 .. End(P, q) - 1
        BY <1>1, <1>2, <2>1, <2>4
      <4> QED
        BY <1>1, <4>1, EndCloses
    <3>2. Level(P, e) > Level(P, c)
      <4>1. CASE e = End(P, c)
        BY <2>1, <2>2, <4>1
      <4>2. CASE e # End(P, c)
        <5>1. e \in c + 1 .. End(P, c) - 1
          BY <1>1, <2>1, <2>4, <4>2
        <5> QED
          BY <2>1, <5>1
      <4> QED
        BY <4>1, <4>2
    <3> QED
      BY <2>2, <3>1, <3>2
  <2> QED
    BY <1>1, <1>2, <2>1, <2>3, <2>4
<1> QED
  BY <1>3 DEF Inside

\* No loop is around.
Free(P, q) == \A c : Inside(P, q, c) => P[c].k # "while"

\* Free is the same as having no loop around.
LEMMA FreeIs ==
  ASSUME NEW P, IsBody(P), NEW q \in DOMAIN P, P[q].k # "end"
  PROVE  Free(P, q) <=> Loop(P, q) = 0
<1>1. Closed(P) /\ Len(P) \in Nat /\ DOMAIN P = 1 .. Len(P) /\ q \in Nat
  BY DEF IsBody, Closed
<1>2. ASSUME NEW c, Inside(P, q, c), P[c].k = "while"
      PROVE  c \in 1 .. q - 1 /\ Within(P, q, c)
  <2>1. c \in DOMAIN P /\ Opens(P, c) /\ c < q /\ q <= End(P, c)
    BY <1>2 DEF Inside
  <2>2. End(P, c) \in Nat /\ End(P, c) # q
    BY <1>1, <2>1, EndCloses
  <2> QED
    BY <1>1, <2>1, <2>2 DEF Within
<1>3. ASSUME NEW c \in 1 .. q - 1, Within(P, q, c)
      PROVE  Inside(P, q, c)
  <2>1. c \in DOMAIN P /\ Opens(P, c) /\ c < q /\ q < End(P, c)
    BY <1>1, <1>3 DEF Within
  <2>2. End(P, c) \in Nat
    BY <1>1, <2>1, EndCloses
  <2> QED
    BY <1>1, <2>1, <2>2 DEF Inside
<1> QED
  BY <1>2, <1>3, LoopFacts DEF Free

\* The end of the list that begins at q.
AtEnd(P, q) == q = Bottom(P) \/ P[q].k \in {"else", "end"}
IsTail(P, q, t) ==
  /\ t \in 1 .. Bottom(P) /\ q <= t /\ AtEnd(P, t)
  /\ \A r \in q .. t : Level(P, r) >= Level(P, q)
  /\ \A r \in q .. t - 1 : Level(P, r) = Level(P, q) => ~AtEnd(P, r)
  /\ Level(P, t) = Level(P, q)

\* A list ends where its rest does.
LEMMA TailBehind ==
  ASSUME NEW P, IsBody(P), NEW q \in DOMAIN P, ~AtEnd(P, q), NEW t, IsTail(P, q, t)
  PROVE  /\ Behind(P, q) \in 1 .. Bottom(P) /\ q < Behind(P, q) /\ Behind(P, q) <= t
         /\ IsTail(P, Behind(P, q), t)
<1>1. Closed(P) /\ Len(P) \in Nat /\ DOMAIN P = 1 .. Len(P) /\ q \in Nat \ {0} /\ Bottom(P) = Len(P) + 1
  BY DEF IsBody, Closed, Bottom
<1>2. Behind(P, q) \in 1 .. Bottom(P) /\ q < Behind(P, q) /\ Level(P, Behind(P, q)) = Level(P, q)
      /\ P[q].k # "end"
  BY <1>1, LevelBehind DEF AtEnd
<1>3. t \in 1 .. Bottom(P) /\ q <= t /\ AtEnd(P, t) /\ Level(P, t) = Level(P, q) /\ t # q
  BY DEF IsTail
<1>4. Behind(P, q) <= t
  <2>1. CASE Opens(P, q)
    <3>1. /\ End(P, q) \in DOMAIN P /\ Level(P, End(P, q)) = Level(P, q) + 1
          /\ \A r \in q + 1 .. End(P, q) - 1 : Level(P, r) > Level(P, q)
      BY <1>1, <2>1, EndCloses
    <3>2. Level(P, q) \in Int
      BY <1>1, LevelOfNext
    <3>3. t # End(P, q) /\ t \notin q + 1 .. End(P, q) - 1
      BY <1>3, <3>1, <3>2
    <3> QED
      BY <1>1, <1>3, <2>1, <3>1, <3>3 DEF Behind
  <2>2. CASE ~Opens(P, q)
    BY <1>1, <1>3, <2>2 DEF Behind
  <2> QED
    BY <2>1, <2>2
<1>5. (\A r \in Behind(P, q) .. t : r \in q .. t) /\ (\A r \in Behind(P, q) .. t - 1 : r \in q .. t - 1)
  BY <1>1, <1>2, <1>3
<1> QED
  BY <1>2, <1>3, <1>4, <1>5 DEF IsTail

\* The body is a list,
LEMMA TailOfAll ==
  ASSUME NEW P, IsBody(P)
  PROVE  IsTail(P, 1, Bottom(P))
<1>1. Closed(P) /\ Len(P) \in Nat /\ DOMAIN P = 1 .. Len(P) /\ Bottom(P) = Len(P) + 1
  BY DEF IsBody, Closed, Bottom
<1>2. Level(P, 1) = 0 /\ Level(P, Bottom(P)) = 0
  BY <1>1, LevelOfFirst DEF Closed
<1>3. ASSUME NEW r \in 1 .. Bottom(P)
      PROVE  Level(P, r) >= 0
  <2>1. PICK c : Around(P, r, c)
    BY <1>1, AroundExists
  <2>2. Level(P, r) \in Nat
    BY <2>1 DEF Around
  <2> QED
    BY <2>2
<1>4. ASSUME NEW r \in 1 .. Bottom(P) - 1, Level(P, r) = 0
      PROVE  ~AtEnd(P, r)
  BY <1>1, <1>4 DEF AtEnd, IsBody
<1> QED
  BY <1>1, <1>2, <1>3, <1>4 DEF IsTail, AtEnd

\* Between the parts of an if no other list ends on their level.
LEMMA OnlyParts ==
  ASSUME NEW P, IsBody(P), NEW q \in DOMAIN P, P[q].k = "if", NEW r \in DOMAIN P,
         q < r, r <= End(P, q), Level(P, r) = Level(P, q) + 1, P[r].k \in {"else", "end"}
  PROVE  r = End(P, q) \/ (r = Else(P, q) /\ r # 0)
<1>1. Closed(P) /\ Len(P) \in Nat /\ DOMAIN P = 1 .. Len(P) /\ q \in Nat /\ r \in Nat /\ Opens(P, q)
  BY DEF IsBody, Closed, Opens, Openers
<1>2. CASE P[r].k = "end"
  BY <1>1, <1>2, OneEnd
<1>3. CASE P[r].k = "else"
  <2> DEFINE c == Construct(P, r)
  <2>1. c \in DOMAIN P /\ Opens(P, c) /\ c < r /\ Level(P, r) = Level(P, c) + 1 /\ Else(P, c) = r
        /\ r < End(P, c) /\ End(P, c) \in DOMAIN P
    BY <1>3, HopFacts
  <2> HIDE DEF c
  <2>2. Level(P, c) \in Int /\ Level(P, q) \in Int
    BY <1>1, <2>1, LevelOfNext
  <2>3. Level(P, c) = Level(P, q) /\ r <= End(P, c)
    BY <1>1, <2>1, <2>2
  <2>4. c = q
    BY <1>1, <2>1, <2>3, OneConstruct
  <2> QED
    BY <1>1, <2>1, <2>4
<1> QED
  BY <1>2, <1>3

\* and so are the two branches of an if.
LEMMA TailOfThen ==
  ASSUME NEW P, IsBody(P), NEW q \in DOMAIN P, P[q].k = "if", Else(P, q) # 0
  PROVE  IsTail(P, q + 1, Else(P, q)) /\ IsTail(P, Else(P, q) + 1, End(P, q))
<1> DEFINE e == Else(P, q)
           n == End(P, q)
<1>1. Closed(P) /\ Len(P) \in Nat /\ DOMAIN P = 1 .. Len(P) /\ q \in Nat \ {0} /\ Opens(P, q)
      /\ Bottom(P) = Len(P) + 1
  BY DEF IsBody, Closed, Opens, Openers, Bottom
<1>2. /\ e \in DOMAIN P /\ q < e /\ e < n /\ P[e].k = "else" /\ Level(P, e) = Level(P, q) + 1
      /\ n \in DOMAIN P /\ P[n].k = "end" /\ Level(P, n) = Level(P, q) + 1
      /\ \A r \in q + 1 .. n - 1 : Level(P, r) > Level(P, q)
  BY <1>1, ElseInside, EndCloses
<1>3. e \in Nat \ {0} /\ n \in Nat \ {0} /\ q + 1 \in Nat \ {0}
  BY <1>1, <1>2
<1>4. Level(P, q + 1) = Level(P, q) + 1 /\ Level(P, e + 1) = Level(P, q) + 1 /\ Level(P, q) \in Int
  <2>1. ~Opens(P, e)
    BY <1>2 DEF Opens, Openers
  <2> QED
    BY <1>1, <1>2, <1>3, <2>1, LevelOfNext
<1>5. ASSUME NEW r \in q + 1 .. n
      PROVE  Level(P, r) >= Level(P, q) + 1
  <2>1. r \in Nat \ {0} /\ (r = n \/ r \in q + 1 .. n - 1)
    BY <1>1, <1>3
  <2>2. Level(P, r) \in Int
    BY <2>1, LevelOfNext
  <2>3. r = n \/ Level(P, r) > Level(P, q)
    BY <1>2, <2>1
  <2> QED
    BY <1>2, <1>4, <2>2, <2>3
<1>6. ASSUME NEW r \in q + 1 .. n, Level(P, r) = Level(P, q) + 1, AtEnd(P, r)
      PROVE  r = e \/ r = n
  <2>1. r \in DOMAIN P /\ r # Bottom(P) /\ q < r /\ r <= n
    BY <1>1, <1>2
  <2> QED
    BY <1>6, <2>1, OnlyParts DEF AtEnd
<1>7. AtEnd(P, e) /\ AtEnd(P, n)
  BY <1>2 DEF AtEnd
<1> HIDE DEF e, n
<1>8. IsTail(P, q + 1, e)
  <2>1. \A r \in q + 1 .. e : r \in q + 1 .. n
    BY <1>1, <1>2, <1>3
  <2>2. \A r \in q + 1 .. e - 1 : r \in q + 1 .. n /\ r # e /\ r # n
    BY <1>1, <1>2, <1>3
  <2>3. e \in 1 .. Bottom(P) /\ q + 1 <= e
    BY <1>1, <1>2
  <2> QED
    BY <1>2, <1>4, <1>5, <1>6, <1>7, <2>1, <2>2, <2>3 DEF IsTail
<1>9. IsTail(P, e + 1, n)
  <2>1. \A r \in e + 1 .. n : r \in q + 1 .. n
    BY <1>1, <1>2, <1>3
  <2>2. \A r \in e + 1 .. n - 1 : r \in q + 1 .. n /\ r # e /\ r # n
    BY <1>1, <1>2, <1>3
  <2>3. n \in 1 .. Bottom(P) /\ e + 1 <= n
    BY <1>1, <1>2
  <2> QED
    BY <1>2, <1>4, <1>5, <1>6, <1>7, <2>1, <2>2, <2>3 DEF IsTail
<1> QED
  BY <1>8, <1>9 DEF e, n

-----------------------------------------------------------------------------
(* What analyze_returns says of each list *)

Infos == [always_return : BOOLEAN, always_fallthrough : BOOLEAN, crash : BOOLEAN]

\* Of the statement at q, and of the list that begins there, if L is known behind q.
OneRule(P, L, q) ==
  CASE P[q].k = "ret" -> Info(TRUE, FALSE)
    [] P[q].k \in {"break", "continue"} -> Info(FALSE, FALSE)
    [] P[q].k = "if" /\ Else(P, q) # 0 -> AnalyzeIf(P[q].cond, L[q + 1], L[Else(P, q) + 1])
    [] P[q].k = "if" /\ Else(P, q) = 0 -> AnalyzeIfThen(P[q].cond, L[q + 1])
    [] OTHER -> Fallthrough
ListRule(P, L, q) ==
  IF AtEnd(P, q) THEN Fallthrough
  ELSE IF AtEnd(P, Behind(P, q)) THEN OneRule(P, L, q)
  ELSE AnalyzeSeq(OneRule(P, L, q), L[Behind(P, q)])

Analysis(P, L) ==
  L \in [1 .. Bottom(P) -> Infos] /\ \A q \in 1 .. Bottom(P) : L[q] = ListRule(P, L, q)

\* Information is made of information.
LEMMA InfoTypes ==
  ASSUME NEW a \in Infos, NEW b \in Infos, NEW c
  PROVE  /\ Fallthrough \in Infos /\ Info(TRUE, FALSE) \in Infos /\ Info(FALSE, FALSE) \in Infos
         /\ AnalyzeSeq(a, b) \in Infos /\ AnalyzeIf(c, a, b) \in Infos /\ AnalyzeIfThen(c, a) \in Infos
<1>1. Fallthrough \in Infos /\ Info(TRUE, FALSE) \in Infos /\ Info(FALSE, FALSE) \in Infos /\ Info(TRUE, TRUE) \in Infos
  BY DEF Fallthrough, Info, Infos
<1>2. /\ [a EXCEPT !.always_fallthrough = FALSE] \in Infos /\ [a EXCEPT !.always_fallthrough = TRUE] \in Infos
      /\ [a EXCEPT !.crash = TRUE] \in Infos
  BY DEF Infos
<1>3. AnalyzeSeq(a, b) \in Infos
  <2>1. [always_return |-> a.always_fallthrough /\ b.always_return,
         always_fallthrough |-> a.always_fallthrough /\ b.always_fallthrough, crash |-> b.crash] \in Infos
    BY DEF Infos
  <2> QED
    BY <1>2, <2>1 DEF AnalyzeSeq
<1>4. ASSUME NEW x \in Infos, NEW y \in Infos
      PROVE  AnalyzeIf(c, x, y) \in Infos
  <2>1. [always_return |-> y.always_return /\ (Letter(c) = "f" \/ x.always_return),
         always_fallthrough |-> x.always_fallthrough /\ y.always_fallthrough, crash |-> y.crash] \in Infos
    BY <1>4 DEF Infos
  <2>2. [x EXCEPT !.crash = TRUE] \in Infos
    BY <1>4 DEF Infos
  <2>3. CASE x.crash
    BY <1>4, <2>3 DEF AnalyzeIf
  <2>4. CASE ~x.crash /\ c = "operation"
    <3>1. AnalyzeIf(c, x, y) = [x EXCEPT !.crash = TRUE]
      <4>1. Letter(c) # "t"
        BY <2>4 DEF Letter
      <4> QED
        BY <2>4, <4>1, Zenon DEF AnalyzeIf
    <3> QED
      BY <2>2, <3>1
  <2>5. CASE ~x.crash /\ c # "operation" /\ Letter(c) = "t"
    BY <1>1, <2>5 DEF AnalyzeIf
  <2>6. CASE ~x.crash /\ c # "operation" /\ Letter(c) # "t"
    BY <2>1, <2>6 DEF AnalyzeIf
  <2> QED
    BY <2>3, <2>4, <2>5, <2>6
<1> QED
  BY <1>1, <1>2, <1>3, <1>4 DEF AnalyzeIfThen

\* What the rules look at is behind q.
LEMMA LooksBehind ==
  ASSUME NEW P, IsBody(P), NEW q \in 1 .. Bottom(P), ~AtEnd(P, q)
  PROVE  /\ q \in DOMAIN P /\ Behind(P, q) \in 1 .. Bottom(P) /\ q < Behind(P, q)
         /\ Level(P, Behind(P, q)) = Level(P, q)
         /\ P[q].k = "if" => q + 1 \in 1 .. Bottom(P) /\ q < q + 1
         /\ P[q].k = "if" /\ Else(P, q) # 0 => Else(P, q) + 1 \in 1 .. Bottom(P) /\ q < Else(P, q) + 1
<1>1. Closed(P) /\ Len(P) \in Nat /\ DOMAIN P = 1 .. Len(P) /\ Bottom(P) = Len(P) + 1 /\ q \in DOMAIN P
      /\ P[q].k # "end"
  BY DEF IsBody, Closed, Bottom, AtEnd
<1>2. P[q].k = "if" => Opens(P, q)
  BY DEF Opens, Openers
<1>3. P[q].k = "if" /\ Else(P, q) # 0 => Else(P, q) \in DOMAIN P /\ q < Else(P, q)
  BY <1>1, <1>2, ElseInside
<1> QED
  BY <1>1, <1>3, LevelBehind

\* analyze_returns is what an analysis says of the whole body.
LEMMA AnalysisExists ==
  ASSUME IsBody(Body)
  PROVE  \E L : Analysis(Body, L) /\ analyze_returns = L[1]
<1> DEFINE P == Body
           S == 1 .. Bottom(P)
           rank == [q \in S |-> Bottom(P) - q]
           rule == [q \in S |-> [f \in [S -> Infos] |-> ListRule(P, f, q)]]
           L == CHOOSE f : f = [x \in 1 .. Bottom(P) |-> ListRule(P, f, x)]
<1>1. Len(P) \in Nat /\ DOMAIN P = 1 .. Len(P) /\ Bottom(P) \in Nat /\ Bottom(P) = Len(P) + 1
  BY DEF IsBody, Closed, Bottom
<1>2. ASSUME NEW q \in S, NEW f, \A x \in S : q < x => f[x] \in Infos
      PROVE  ListRule(P, f, q) \in Infos
  <2> HIDE DEF P
  <2>0. Fallthrough \in Infos /\ Info(TRUE, FALSE) \in Infos /\ Info(FALSE, FALSE) \in Infos
    BY DEF Fallthrough, Info, Infos
  <2>1. CASE AtEnd(P, q)
    BY <2>0, <2>1 DEF ListRule
  <2>2. CASE ~AtEnd(P, q)
    <3>0. IsBody(P)
      BY DEF P
    <3>1. /\ f[Behind(P, q)] \in Infos
          /\ P[q].k = "if" => f[q + 1] \in Infos
          /\ P[q].k = "if" /\ Else(P, q) # 0 => f[Else(P, q) + 1] \in Infos
      BY <1>2, <2>2, <3>0, LooksBehind
    <3>2. OneRule(P, f, q) \in Infos
      <4>1. P[q].k = "if" => AnalyzeIfThen(P[q].cond, f[q + 1]) \in Infos
        BY <3>1, InfoTypes
      <4>2. P[q].k = "if" /\ Else(P, q) # 0 => AnalyzeIf(P[q].cond, f[q + 1], f[Else(P, q) + 1]) \in Infos
        BY <3>1, InfoTypes
      <4> QED
        BY <2>0, <4>1, <4>2 DEF OneRule
    <3>3. AnalyzeSeq(OneRule(P, f, q), f[Behind(P, q)]) \in Infos
      BY <3>1, <3>2, InfoTypes
    <3> QED
      BY <2>2, <3>2, <3>3 DEF ListRule
  <2> QED
    BY <2>1, <2>2
<1>3. ASSUME NEW q \in S, NEW f \in [S -> Infos], NEW g \in [S -> Infos],
             \A x \in S : rank[x] < rank[q] => f[x] = g[x]
      PROVE  ListRule(P, f, q) = ListRule(P, g, q)
  <2>1. CASE AtEnd(P, q)
    BY <2>1 DEF ListRule
  <2>2. CASE ~AtEnd(P, q)
    <3>0. \A x \in S : q < x => f[x] = g[x]
      BY <1>1, <1>3
    <3> HIDE DEF P, rank
    <3>1. /\ f[Behind(P, q)] = g[Behind(P, q)]
          /\ P[q].k = "if" => f[q + 1] = g[q + 1]
          /\ P[q].k = "if" /\ Else(P, q) # 0 => f[Else(P, q) + 1] = g[Else(P, q) + 1]
      <4>1. IsBody(P)
        BY DEF P
      <4> QED
        BY <2>2, <3>0, <4>1, LooksBehind
    <3>2. OneRule(P, f, q) = OneRule(P, g, q)
      BY <3>1 DEF OneRule
    <3> QED
      BY <2>2, <3>1, <3>2 DEF ListRule
  <2> QED
    BY <2>1, <2>2
<1>4. Recursive(S, Infos, rank, rule)
  <2>1. \A q \in S : Bottom(P) - q \in Nat
    BY <1>1
  <2>2. rank \in [S -> Nat]
    BY <2>1
  <2>3. rule \in [S -> [[S -> Infos] -> Infos]]
    <3>1. \A q \in S : \A f \in [S -> Infos] : ListRule(P, f, q) \in Infos
      BY <1>2
    <3> QED
      BY <3>1
  <2> HIDE DEF S, rank
  <2>4. \A q \in S : \A f, g \in [S -> Infos] :
          (\A x \in S : rank[x] < rank[q] => f[x] = g[x]) => rule[q][f] = rule[q][g]
    BY <1>3
  <2> HIDE DEF rule
  <2> QED
    BY <2>2, <2>3, <2>4 DEF Recursive
<1>5. PICK f \in [S -> Infos] : \A q \in S : f[q] = rule[q][f]
  <2>1. Fallthrough \in Infos
    BY DEF Fallthrough, Info, Infos
  <2> HIDE DEF S, rule, rank
  <2> QED
    BY <1>4, <2>1, RecursionExists
<1>6. L = [x \in S |-> ListRule(P, L, x)]
  <2>1. f = [x \in S |-> ListRule(P, f, x)]
    BY <1>5
  <2> QED
    BY <2>1
<1>7. analyze_returns = L[1]
  BY Zenon DEF analyze_returns, ListRule, OneRule, AtEnd
<1> HIDE DEF L, P
<1>8. \A x \in S : L[x] \in Infos
  <2> DEFINE Bad == {x \in S : L[x] \notin Infos}
  <2>1. SUFFICES ASSUME Bad # {} PROVE FALSE
    OBVIOUS
  <2>2. PICK x \in Bad : \A y \in Bad : y <= x
    <3>1. Bad \subseteq S
      OBVIOUS
    <3> HIDE DEF Bad
    <3> QED
      BY <1>1, <2>1, <3>1, MaxExists
  <2>3. x \in S /\ L[x] \notin Infos
    BY <2>2
  <2>4. \A y \in S : x < y => L[y] \in Infos
    BY <1>1, <2>2, <2>3
  <2>5. ListRule(P, L, x) \in Infos
    BY <1>2, <2>3, <2>4
  <2> QED
    BY <1>6, <2>3, <2>5
<1>9. Analysis(P, L)
  BY <1>6, <1>8 DEF Analysis
<1> QED
  BY <1>7, <1>9 DEF P

\* What the information on a statement is,
LEMMA OneIs ==
  ASSUME NEW P, IsBody(P), NEW L, Analysis(P, L), NEW q \in 1 .. Bottom(P), ~AtEnd(P, q)
  PROVE  LET a == OneRule(P, L, q)
             t == L[q + 1]
             e == L[Else(P, q) + 1]
             x == Letter(P[q].cond) IN
         /\ a \in Infos
         /\ P[q].k = "ret" => a.always_return /\ ~a.always_fallthrough /\ ~a.crash
         /\ P[q].k \in {"break", "continue"} =>
              ~a.always_return /\ ~a.always_fallthrough /\ ~a.crash
         /\ P[q].k \in {"do", "while"} => ~a.always_return /\ a.always_fallthrough /\ ~a.crash
         /\ P[q].k = "if" => t \in Infos /\ (a.crash => t.crash \/ P[q].cond = "operation" \/ (x # "t" /\ Else(P, q) # 0 /\ e.crash))
         /\ P[q].k = "if" /\ Else(P, q) # 0 => e \in Infos
         /\ P[q].k = "if" /\ Else(P, q) = 0 /\ ~a.crash =>
              /\ ~t.crash /\ P[q].cond # "operation"
              /\ a.always_return <=> x = "t"
              /\ a.always_fallthrough
         /\ P[q].k = "if" /\ Else(P, q) # 0 /\ ~a.crash =>
              /\ ~t.crash /\ P[q].cond # "operation" /\ (x # "t" => ~e.crash)
              /\ a.always_return <=> x = "t" \/ (e.always_return /\ (x = "f" \/ t.always_return))
              /\ a.always_fallthrough <=>
                   x = "t" \/ (t.always_fallthrough /\ e.always_fallthrough)
<1> DEFINE a == OneRule(P, L, q)
           t == L[q + 1]
           e == L[Else(P, q) + 1]
           c == P[q].cond
           x == Letter(c)
<1>0. \A S : L \in [1 .. Bottom(P) -> S] => \A r \in 1 .. Bottom(P) : L[r] \in S
  OBVIOUS
<1>1. \A r \in 1 .. Bottom(P) : L[r] \in Infos
  BY <1>0 DEF Analysis
<1>2. /\ P[q].k = "if" => t \in Infos
      /\ P[q].k = "if" /\ Else(P, q) # 0 => e \in Infos
  BY <1>1, LooksBehind
<1>3. q \in DOMAIN P /\ P[q].k \in BodyKinds /\ P[q].k \notin {"else", "end"}
  BY LooksBehind DEF IsBody, AtEnd
<1>4. Fallthrough \in Infos /\ Info(TRUE, FALSE) \in Infos /\ Info(FALSE, FALSE) \in Infos
  BY DEF Fallthrough, Info, Infos
<1>5. c = "operation" => x # "t"
  BY DEF Letter
<1> HIDE DEF x, c, t, e
<1>6. ASSUME NEW u \in Infos, NEW v \in Infos
      PROVE  LET w == AnalyzeIf(c, u, v) IN
             /\ w \in Infos
             /\ w.crash <=> u.crash \/ c = "operation" \/ (x # "t" /\ v.crash)
             /\ ~w.crash => /\ w.always_return <=> x = "t" \/ (v.always_return /\ (x = "f" \/ u.always_return))
                            /\ w.always_fallthrough <=>
                                 x = "t" \/ (u.always_fallthrough /\ v.always_fallthrough)
  <2> DEFINE w == AnalyzeIf(c, u, v)
  <2>0. w \in Infos
    BY InfoTypes
  <2>1. CASE u.crash
    <3>1. w = u
      BY <2>1 DEF AnalyzeIf
    <3> QED
      BY <2>0, <2>1, <3>1
  <2>2. CASE ~u.crash /\ c = "operation"
    <3>1. w = [u EXCEPT !.crash = TRUE]
      BY <1>5, <2>2, Zenon DEF AnalyzeIf, x
    <3>2. w.crash
      BY <1>6, <3>1 DEF Infos
    <3> QED
      BY <2>0, <2>2, <3>2
  <2>3. CASE ~u.crash /\ c # "operation" /\ x = "t"
    <3>1. w = Info(TRUE, TRUE)
      BY <2>3 DEF AnalyzeIf, x
    <3> QED
      BY <2>0, <2>3, <3>1 DEF Info
  <2>4. CASE ~u.crash /\ c # "operation" /\ x # "t"
    <3>1. w = [always_return |-> v.always_return /\ (x = "f" \/ u.always_return),
               always_fallthrough |-> u.always_fallthrough /\ v.always_fallthrough, crash |-> v.crash]
      BY <2>4 DEF AnalyzeIf, x
    <3> HIDE DEF w
    <3>2. /\ w.crash <=> v.crash
          /\ w.always_return <=> v.always_return /\ (x = "f" \/ u.always_return)
          /\ w.always_fallthrough <=> u.always_fallthrough /\ v.always_fallthrough
      BY <1>6, <3>1 DEF Infos
    <3>3. /\ w.crash <=> u.crash \/ c = "operation" \/ (x # "t" /\ v.crash)
          /\ ~w.crash => /\ w.always_return <=> x = "t" \/ (v.always_return /\ (x = "f" \/ u.always_return))
                         /\ w.always_fallthrough <=>
                              x = "t" \/ (u.always_fallthrough /\ v.always_fallthrough)
      BY <2>4, <3>2
    <3> QED
      BY <2>0, <3>3 DEF w
  <2> QED
    BY <2>1, <2>2, <2>3, <2>4
<1>7. CASE P[q].k = "ret"
  BY <1>4, <1>7 DEF OneRule, Info
<1>8. CASE P[q].k \in {"break", "continue"}
  BY <1>4, <1>8 DEF OneRule, Info
<1>9. CASE P[q].k \in {"do", "while"}
  BY <1>4, <1>9 DEF OneRule, Info, Fallthrough
<1>10. CASE P[q].k = "if" /\ Else(P, q) # 0
  <2>1. a = AnalyzeIf(c, t, e)
    BY <1>10 DEF OneRule, t, e, c
  <2> HIDE DEF a
  <2>2. /\ a \in Infos
        /\ a.crash <=> t.crash \/ c = "operation" \/ (x # "t" /\ e.crash)
        /\ ~a.crash => /\ a.always_return <=> x = "t" \/ (e.always_return /\ (x = "f" \/ t.always_return))
                       /\ a.always_fallthrough <=> x = "t" \/ (t.always_fallthrough /\ e.always_fallthrough)
    BY <1>2, <1>6, <1>10, <2>1
  <2> QED
    BY <1>2, <1>10, <2>2 DEF a, t, e, c, x
<1>11. CASE P[q].k = "if" /\ Else(P, q) = 0
  <2> DEFINE u == [t EXCEPT !.always_fallthrough = TRUE]
  <2>1. a = AnalyzeIf(c, u, Fallthrough)
    BY <1>11 DEF OneRule, t, c, AnalyzeIfThen
  <2>2. u \in Infos /\ u.always_fallthrough /\ u.crash = t.crash /\ t \in Infos
    BY <1>2, <1>11 DEF Infos
  <2>3. ~Fallthrough.crash /\ ~Fallthrough.always_return /\ Fallthrough.always_fallthrough
    BY DEF Fallthrough, Info
  <2> HIDE DEF a, u
  <2>4. /\ a \in Infos
        /\ a.crash <=> u.crash \/ c = "operation" \/ (x # "t" /\ Fallthrough.crash)
        /\ ~a.crash => /\ a.always_return <=> x = "t" \/ (Fallthrough.always_return /\ (x = "f" \/ u.always_return))
                       /\ a.always_fallthrough <=> x = "t" \/ (u.always_fallthrough /\ Fallthrough.always_fallthrough)
    BY <1>4, <1>6, <2>1, <2>2
  <2>5. /\ a \in Infos
        /\ a.crash <=> t.crash \/ c = "operation"
        /\ ~a.crash => (a.always_return <=> x = "t") /\ a.always_fallthrough
    BY <2>2, <2>3, <2>4
  <2> QED
    BY <1>11, <2>2, <2>5 DEF a, t, e, c, x
<1> QED
  BY <1>3, <1>7, <1>8, <1>9, <1>10, <1>11 DEF BodyKinds

\* and on a list.
LEMMA ListIs ==
  ASSUME NEW P, IsBody(P), NEW L, Analysis(P, L), NEW q \in 1 .. Bottom(P)
  PROVE  /\ L[q] \in Infos
         /\ AtEnd(P, q) => ~L[q].always_return /\ L[q].always_fallthrough /\ ~L[q].crash
         /\ ~AtEnd(P, q) =>
              LET a == OneRule(P, L, q)
                  b == L[Behind(P, q)] IN
              /\ b \in Infos
              /\ ~L[q].crash => ~a.crash /\ (a.always_return \/ ~b.crash)
              /\ L[q].crash => a.crash \/ (~a.always_return /\ b.crash)
              /\ ~L[q].crash => (L[q].always_return <=> a.always_return \/ (a.always_fallthrough /\ b.always_return))
              /\ ~L[q].crash /\ ~a.always_return =>
                   (L[q].always_fallthrough <=> a.always_fallthrough /\ b.always_fallthrough)
<1>1. \A S : L \in [1 .. Bottom(P) -> S] => \A r \in 1 .. Bottom(P) : L[r] \in S
  OBVIOUS
<1>2. (\A r \in 1 .. Bottom(P) : L[r] \in Infos) /\ L[q] = ListRule(P, L, q)
  BY <1>1 DEF Analysis
<1>3. ~Fallthrough.crash /\ ~Fallthrough.always_return /\ Fallthrough.always_fallthrough
  BY DEF Fallthrough, Info
<1>4. CASE AtEnd(P, q)
  BY <1>2, <1>3, <1>4 DEF ListRule
<1>5. CASE ~AtEnd(P, q)
  <2> DEFINE a == OneRule(P, L, q)
             r == Behind(P, q)
             b == L[r]
  <2>1. r \in 1 .. Bottom(P) /\ a \in Infos /\ b \in Infos
    BY <1>2, <1>5, LooksBehind, OneIs
  <2>2. L[r] = ListRule(P, L, r)
    BY <2>1 DEF Analysis
  <2>3. CASE AtEnd(P, r)
    <3>1. L[q] = a
      BY <1>2, <1>5, <2>3 DEF ListRule
    <3>2. b = Fallthrough
      BY <2>2, <2>3 DEF ListRule
    <3> HIDE DEF a, b, r
    <3>3. /\ ~L[q].crash => ~a.crash /\ (a.always_return \/ ~b.crash)
          /\ L[q].crash => a.crash \/ (~a.always_return /\ b.crash)
          /\ ~L[q].crash => (L[q].always_return <=> a.always_return \/ (a.always_fallthrough /\ b.always_return))
          /\ ~L[q].crash /\ ~a.always_return =>
               (L[q].always_fallthrough <=> a.always_fallthrough /\ b.always_fallthrough)
      BY <1>3, <3>1, <3>2
    <3> QED
      BY <1>2, <1>5, <2>1, <3>3 DEF a, b, r
  <2>4. CASE ~AtEnd(P, r)
    <3>1. L[q] = AnalyzeSeq(a, b)
      BY <1>2, <1>5, <2>4 DEF ListRule
    <3> HIDE DEF a, b, r
    <3>2. CASE a.crash \/ a.always_return
      <4>1. L[q] = [a EXCEPT !.always_fallthrough = FALSE]
        BY <3>1, <3>2 DEF AnalyzeSeq
      <4>2. L[q].crash = a.crash /\ L[q].always_return = a.always_return
        BY <2>1, <4>1 DEF Infos
      <4>3. /\ ~L[q].crash => ~a.crash /\ (a.always_return \/ ~b.crash)
            /\ L[q].crash => a.crash \/ (~a.always_return /\ b.crash)
            /\ ~L[q].crash => (L[q].always_return <=> a.always_return \/ (a.always_fallthrough /\ b.always_return))
            /\ ~L[q].crash /\ ~a.always_return =>
                 (L[q].always_fallthrough <=> a.always_fallthrough /\ b.always_fallthrough)
        BY <3>2, <4>2
      <4> QED
        BY <1>2, <1>5, <2>1, <4>3 DEF a, b, r
    <3>3. CASE ~(a.crash \/ a.always_return)
      <4>1. L[q] = [always_return |-> a.always_fallthrough /\ b.always_return,
                    always_fallthrough |-> a.always_fallthrough /\ b.always_fallthrough,
                    crash |-> b.crash]
        BY <3>1, <3>3 DEF AnalyzeSeq
      <4>3. /\ ~L[q].crash => ~a.crash /\ (a.always_return \/ ~b.crash)
            /\ L[q].crash => a.crash \/ (~a.always_return /\ b.crash)
            /\ ~L[q].crash => (L[q].always_return <=> a.always_return \/ (a.always_fallthrough /\ b.always_return))
            /\ ~L[q].crash /\ ~a.always_return =>
                 (L[q].always_fallthrough <=> a.always_fallthrough /\ b.always_fallthrough)
        BY <2>1, <3>3, <4>1 DEF Infos
      <4> QED
        BY <1>2, <1>5, <2>1, <4>3 DEF a, b, r
    <3> QED
      BY <3>2, <3>3
  <2> QED
    BY <2>3, <2>4
<1> QED
  BY <1>4, <1>5

-----------------------------------------------------------------------------
(* What is taken to return does *)

\* Outside of loops a return is ahead, at x or behind a construct around x.
Ahead(P, L, x, r) ==
  /\ r = x \/ \E c : Inside(P, x, c) /\ r = Behind(P, c)
  /\ r \in 1 .. Bottom(P) /\ Free(P, r) /\ L[r].always_return /\ ~L[r].crash
Alive(P, L, x) == \E r : Ahead(P, L, x, r)

\* No letter is trusted.
Distrusts(P) ==
  \A q \in DOMAIN P : P[q].k = "if" /\ Loop(P, q) = 0 => P[q].cond \notin {"true", "t...", "f..."}
Judged(P, L) == IsBody(P) /\ Analysis(P, L) /\ JumpsInLoops(P) /\ Distrusts(P)

\* The return that is ahead is not the end of a list.
LEMMA NotAtEnd ==
  ASSUME NEW P, NEW L, Judged(P, L), NEW x, NEW r, Ahead(P, L, x, r)
  PROVE  /\ r \in DOMAIN P /\ ~AtEnd(P, r) /\ Loop(P, r) = 0
         /\ x \in 1 .. Bottom(P) /\ AtEnd(P, x) => r # x
<1>1. IsBody(P) /\ Analysis(P, L) /\ r \in 1 .. Bottom(P) /\ L[r].always_return /\ Free(P, r)
  BY DEF Judged, Ahead
<1>2. ~AtEnd(P, r)
  BY <1>1, ListIs
<1>3. r \in DOMAIN P /\ P[r].k # "end"
  BY <1>1, <1>2, LooksBehind DEF AtEnd
<1> QED
  BY <1>1, <1>2, <1>3, FreeIs

\* Out of a construct around x a return is ahead of every place in it.
LEMMA AheadOutside ==
  ASSUME NEW P, NEW L, NEW x, NEW r, Ahead(P, L, x, r), NEW y,
         r # x, \A c : Inside(P, x, c) => Inside(P, y, c)
  PROVE  Ahead(P, L, y, r)
BY DEF Ahead

\* A statement that lets control through may have the return behind it.
LEMMA AheadBehind ==
  ASSUME NEW P, NEW L, Judged(P, L), NEW x \in DOMAIN P, ~AtEnd(P, x), Alive(P, L, Behind(P, x)),
         P[x].k \in {"do", "while"}
  PROVE  Alive(P, L, x)
<1> DEFINE b == Behind(P, x)
           a == OneRule(P, L, x)
<1>0. IsBody(P) /\ Analysis(P, L) /\ x \in 1 .. Bottom(P) /\ P[x].k # "end"
  BY DEF Judged, IsBody, Closed, Bottom, AtEnd
<1>1. \A c : Inside(P, b, c) <=> Inside(P, x, c)
  BY <1>0, InsideNext
<1>2. PICK r : Ahead(P, L, b, r)
  <2>1. \E r : Ahead(P, L, b, r)
    BY DEF Alive
  <2> QED
    BY <2>1
<1>3. CASE r # b
  <2> HIDE DEF b
  <2>1. Ahead(P, L, x, r)
    BY <1>1, <1>2, <1>3, AheadOutside
  <2> QED
    BY <2>1 DEF Alive
<1>4. CASE r = b
  <2>1. Free(P, b) /\ L[b].always_return /\ ~L[b].crash
    BY <1>2, <1>4 DEF Ahead
  <2>2. Free(P, x)
    BY <1>1, <2>1 DEF Free
  <2>3. ~a.always_return /\ a.always_fallthrough /\ ~a.crash
    BY <1>0, OneIs
  <2> HIDE DEF a
  <2>4. /\ L[x].crash => a.crash \/ (~a.always_return /\ L[b].crash)
        /\ ~L[x].crash => (L[x].always_return <=> a.always_return \/ (a.always_fallthrough /\ L[b].always_return))
    BY <1>0, ListIs DEF a
  <2>5. Ahead(P, L, x, x)
    BY <1>0, <2>1, <2>2, <2>3, <2>4 DEF Ahead
  <2> QED
    BY <2>5 DEF Alive
<1> QED
  BY <1>3, <1>4

\* What is ahead of the last part of a construct, or of a jump out of a loop, is ahead
\* behind it.
LEMMA AliveBehind ==
  ASSUME NEW P, NEW L, Judged(P, L), NEW x \in DOMAIN P, NEW c \in DOMAIN P, Opens(P, c),
         NEW r, Ahead(P, L, x, r), r # x,
         \A d : Inside(P, x, d) /\ r = Behind(P, d) => d = c \/ Inside(P, c, d)
  PROVE  Alive(P, L, Behind(P, c))
<1>1. PICK d : Inside(P, x, d) /\ r = Behind(P, d)
  BY DEF Ahead
<1>2. d = c \/ Inside(P, c, d)
  BY <1>1
<1>3. IsBody(P) /\ P[c].k # "end"
  BY DEF Judged, Opens, Openers
<1>4. CASE d = c
  <2>1. Ahead(P, L, Behind(P, c), r)
    BY <1>1, <1>4 DEF Ahead
  <2> QED
    BY <2>1 DEF Alive
<1>5. CASE Inside(P, c, d)
  <2>1. Inside(P, Behind(P, c), d)
    BY <1>3, <1>5, InsideNext
  <2>2. Ahead(P, L, Behind(P, c), r)
    BY <1>1, <2>1 DEF Ahead
  <2> QED
    BY <2>2 DEF Alive
<1> QED
  BY <1>2, <1>4, <1>5

\* Where a return is ahead, it still is where control goes on from there,
LEMMA AliveHere ==
  ASSUME NEW P, NEW L, Judged(P, L)
  PROVE  \A x \in 1 .. Bottom(P) : Alive(P, L, x) => Alive(P, L, Here(P, x))
<1> DEFINE n == Bottom(P)
           S == {x \in 1 .. n : Alive(P, L, x) => Alive(P, L, Here(P, x))}
<1>1. /\ IsBody(P) /\ JumpsInLoops(P) /\ Analysis(P, L) /\ Closed(P)
      /\ Len(P) \in Nat /\ DOMAIN P = 1 .. Len(P) /\ n = Len(P) + 1 /\ n \in Nat
  BY DEF Judged, IsBody, Closed, Bottom
<1>2. ASSUME NEW x \in 1 .. n, \A y \in 1 .. n : y > x => y \in S, Alive(P, L, x)
      PROVE  Alive(P, L, Here(P, x))
  <2>1. PICK r : Ahead(P, L, x, r)
    <3>1. \E r : Ahead(P, L, x, r)
      BY <1>2 DEF Alive
    <3> QED
      BY <3>1
  <2>2. CASE x = n
    BY <1>1, <1>2, <2>2, HereFacts
  <2>3. CASE x # n
    <3>1. x \in DOMAIN P /\ P[x].k \in BodyKinds /\ x \in Nat
      BY <1>1, <2>3 DEF IsBody
    <3>2. ASSUME NEW c \in DOMAIN P, Opens(P, c), x <= End(P, c), Alive(P, L, Behind(P, c))
          PROVE  /\ Here(P, x) = Here(P, End(P, c) + 1) => Alive(P, L, Here(P, x))
                 /\ Here(P, x) = c /\ P[c].k = "while" => Alive(P, L, Here(P, x))
      <4>1. End(P, c) \in DOMAIN P /\ Behind(P, c) = End(P, c) + 1
        BY <1>1, <3>2, EndCloses DEF Behind
      <4>2. End(P, c) + 1 \in 1 .. n /\ End(P, c) + 1 > x
        BY <1>1, <3>1, <3>2, <4>1
      <4>3. Alive(P, L, Here(P, End(P, c) + 1))
        BY <1>2, <3>2, <4>1, <4>2
      <4>4. P[c].k = "while" => ~AtEnd(P, c)
        BY <1>1 DEF AtEnd
      <4> QED
        BY <3>2, <4>3, <4>4, AheadBehind
    <3>3. CASE P[x].k \in {"else", "end"}
      <4> DEFINE c == Construct(P, x)
      <4>1. /\ c \in DOMAIN P /\ Opens(P, c) /\ c < x /\ Level(P, x) = Level(P, c) + 1 /\ x <= End(P, c)
        <5>1. /\ c \in DOMAIN P /\ Opens(P, c) /\ c < x /\ Level(P, x) = Level(P, c) + 1
              /\ x < End(P, c) \/ End(P, c) = x
          BY <1>1, <3>1, <3>3, HopFacts
        <5>2. End(P, c) \in Nat
          BY <1>1, <5>1, EndCloses
        <5> QED
          BY <3>1, <5>1, <5>2
      <4>2. r # x
        BY <2>1, <3>3, NotAtEnd DEF AtEnd
      <4>3. /\ P[x].k = "else" => Here(P, x) = Here(P, End(P, c) + 1)
            /\ P[x].k = "end" => End(P, c) = x /\ Here(P, x) = IF P[c].k = "while" THEN c ELSE Here(P, x + 1)
        BY <1>1, <3>1, HereFacts, HopFacts
      <4> HIDE DEF c
      <4>4. \A d : Inside(P, x, d) <=> Inside(P, c, d) \/ d = c
        BY <1>1, <3>1, <3>3, <4>1, InsidePart
      <4>5. Alive(P, L, Behind(P, c))
        BY <2>1, <3>1, <4>1, <4>2, <4>4, AliveBehind
      <4> QED
        BY <3>2, <3>3, <4>1, <4>3, <4>5
    <3>4. CASE P[x].k \in {"break", "continue"}
      <4> DEFINE l == Loop(P, x)
      <4>1. l # 0
        BY <1>1, <3>1, <3>4 DEF JumpsInLoops, Positions
      <4>2. /\ l \in DOMAIN P /\ P[l].k = "while" /\ Opens(P, l) /\ l < x /\ x < End(P, l)
            /\ End(P, l) \in DOMAIN P
        BY <1>1, <3>1, <4>1, HopFacts
      <4>3. r # x
        BY <2>1, <4>1, NotAtEnd
      <4>4. ASSUME NEW d, Inside(P, x, d), r = Behind(P, d)
            PROVE  d = l \/ Inside(P, l, d)
        <5>1. d \in DOMAIN P /\ Opens(P, d) /\ d < x /\ x <= End(P, d) /\ End(P, d) \in Nat
          BY <1>1, <4>4, EndCloses DEF Inside
        <5>2. CASE d < l
          BY <1>1, <4>2, <5>1, <5>2 DEF Inside
        <5>3. CASE l < d
          <6>1. Inside(P, d, l)
            BY <1>1, <4>2, <5>1, <5>3 DEF Inside
          <6>2. P[d].k # "end"
            BY <5>1 DEF Opens, Openers
          <6>3. Inside(P, Behind(P, d), l)
            BY <1>1, <5>1, <6>1, <6>2, InsideNext
          <6>4. Free(P, r)
            BY <2>1 DEF Ahead
          <6> QED
            BY <4>2, <4>4, <6>3, <6>4 DEF Free
        <5> QED
          BY <1>1, <4>2, <5>1, <5>2, <5>3
      <4>5. /\ P[x].k = "break" => Here(P, x) = Here(P, End(P, l) + 1)
            /\ P[x].k = "continue" => Here(P, x) = l
        BY <1>1, <3>1, <4>1, HereFacts
      <4> HIDE DEF l
      <4>6. Alive(P, L, Behind(P, l))
        BY <2>1, <3>1, <4>2, <4>3, <4>4, AliveBehind
      <4>7. x <= End(P, l)
        BY <1>1, <3>1, <4>2
      <4> QED
        BY <3>2, <3>4, <4>2, <4>5, <4>6, <4>7
    <3>5. CASE P[x].k \in {"do", "ret", "if", "while"}
      <4>1. Here(P, x) = x
        BY <1>1, <3>1, <3>5, HereFacts
      <4> QED
        BY <1>2, <4>1
    <3> QED
      BY <3>1, <3>3, <3>4, <3>5 DEF BodyKinds
  <2> QED
    BY <2>2, <2>3
<1>3. 1 .. n \subseteq S
  <2>1. \A x \in 1 .. n : (\A y \in 1 .. n : y > x => y \in S) => x \in S
    BY <1>2
  <2> HIDE DEF S, n
  <2> QED
    BY <1>1, <2>1, Downward
<1> QED
  BY <1>3

\* but none is ahead of the bottom.
LEMMA NotAliveAtBottom ==
  ASSUME NEW P, NEW L, Judged(P, L)
  PROVE  ~Alive(P, L, Bottom(P))
<1>1. SUFFICES ASSUME NEW r, Ahead(P, L, Bottom(P), r) PROVE FALSE
  BY DEF Alive
<1>2. IsBody(P) /\ Closed(P) /\ Len(P) \in Nat /\ DOMAIN P = 1 .. Len(P) /\ Bottom(P) = Len(P) + 1
  BY DEF Judged, IsBody, Closed, Bottom
<1>3. r # Bottom(P)
  BY <1>1, <1>2, NotAtEnd DEF AtEnd
<1>4. PICK c : Inside(P, Bottom(P), c)
  BY <1>1, <1>3 DEF Ahead
<1>5. c \in DOMAIN P /\ Opens(P, c) /\ Bottom(P) <= End(P, c)
  BY <1>4 DEF Inside
<1>6. End(P, c) \in DOMAIN P
  BY <1>2, <1>5, EndCloses
<1> QED
  BY <1>2, <1>5, <1>6

\* What is around the parts of an if.
LEMMA InsideElse ==
  ASSUME NEW P, IsBody(P), NEW x \in DOMAIN P, P[x].k = "if", Else(P, x) # 0
  PROVE  /\ Else(P, x) + 1 \in 1 .. Bottom(P)
         /\ \A c : Inside(P, Else(P, x) + 1, c) <=> Inside(P, x, c) \/ c = x
<1> DEFINE e == Else(P, x)
<1>1. Closed(P) /\ Opens(P, x) /\ Len(P) \in Nat /\ DOMAIN P = 1 .. Len(P) /\ Bottom(P) = Len(P) + 1
  BY DEF IsBody, Closed, Opens, Openers, Bottom
<1>2. e \in DOMAIN P /\ x < e /\ e < End(P, x) /\ P[e].k = "else" /\ Level(P, e) = Level(P, x) + 1
      /\ End(P, x) \in DOMAIN P
  BY <1>1, ElseInside, EndCloses
<1>3. e <= End(P, x) /\ ~Opens(P, e) /\ e + 1 \in 1 .. Bottom(P)
  BY <1>1, <1>2 DEF Opens, Openers
<1> HIDE DEF e
<1>4. \A c : Inside(P, e, c) <=> Inside(P, x, c) \/ c = x
  BY <1>1, <1>2, <1>3, InsidePart
<1>5. \A c : Inside(P, e + 1, c) <=> Inside(P, e, c)
  BY <1>2, <1>3, InsideNext
<1> QED
  BY <1>3, <1>4, <1>5 DEF e

\* In the first statement of a part, what is ahead of the if, is ahead behind it.
LEMMA AliveInside ==
  ASSUME NEW P, NEW L, NEW x, NEW y, NEW r, Free(P, x), P[x].k # "while",
         \A c : Inside(P, y, c) <=> Inside(P, x, c) \/ c = x,
         y \in 1 .. Bottom(P), L[y].always_return, ~L[y].crash
  PROVE  Alive(P, L, y)
<1>1. Free(P, y)
  BY DEF Free
<1>2. Ahead(P, L, y, y)
  BY <1>1 DEF Ahead
<1> QED
  BY <1>2 DEF Alive

\* A statement leads to places with a return ahead if there was one.
LEMMA AliveNext ==
  ASSUME NEW P, NEW L, Judged(P, L), NEW x \in DOMAIN P,
         P[x].k \in {"do", "if", "while"}, Alive(P, L, x)
  PROVE  /\ P[x].k \in {"do", "while"} => Alive(P, L, x + 1)
         /\ P[x].k = "while" => Alive(P, L, End(P, x) + 1)
         /\ P[x].k = "if" /\ P[x].cond # "false" => Alive(P, L, x + 1)
         /\ P[x].k = "if" =>
              Alive(P, L, IF Else(P, x) # 0 THEN Else(P, x) + 1 ELSE End(P, x) + 1)
<1> DEFINE b == Behind(P, x)
           a == OneRule(P, L, x)
           e == Else(P, x)
           u == Letter(P[x].cond)
<1>1. /\ IsBody(P) /\ Analysis(P, L) /\ Closed(P) /\ x \in 1 .. Bottom(P) /\ ~AtEnd(P, x)
      /\ P[x].k \notin {"end", "else"} /\ Len(P) \in Nat /\ DOMAIN P = 1 .. Len(P) /\ x + 1 \in 1 .. Bottom(P)
  BY DEF Judged, IsBody, Closed, AtEnd, Bottom
<1>2. PICK r : Ahead(P, L, x, r)
  <2>1. \E r : Ahead(P, L, x, r)
    BY DEF Alive
  <2> QED
    BY <2>1
<1>3. Opens(P, x) <=> P[x].k \in {"if", "while"}
  BY DEF Opens, Openers
<1>4. b = IF Opens(P, x) THEN End(P, x) + 1 ELSE x + 1
  BY DEF Behind
<1>5. b \in 1 .. Bottom(P) /\ x < b
  BY <1>1, LooksBehind
<1>6. /\ \A c : Inside(P, b, c) <=> Inside(P, x, c)
      /\ Opens(P, x) => \A c : Inside(P, x + 1, c) <=> Inside(P, x, c) \/ c = x
      /\ P[x].k = "if" /\ e # 0 => /\ e + 1 \in 1 .. Bottom(P)
                                   /\ \A c : Inside(P, e + 1, c) <=> Inside(P, x, c) \/ c = x
  BY <1>1, InsideNext, InsideElse
<1> HIDE DEF b, e
<1>7. CASE r # x
  <2>1. Ahead(P, L, b, r)
    BY <1>2, <1>6, <1>7, AheadOutside
  <2>2. Opens(P, x) => Ahead(P, L, x + 1, r)
    <3>1. Opens(P, x) => \A c : Inside(P, x, c) => Inside(P, x + 1, c)
      BY <1>6
    <3> QED
      BY <1>2, <1>7, <3>1, AheadOutside
  <2>3. P[x].k = "if" /\ e # 0 => Ahead(P, L, e + 1, r)
    <3>1. P[x].k = "if" /\ e # 0 => \A c : Inside(P, x, c) => Inside(P, e + 1, c)
      BY <1>6
    <3> QED
      BY <1>2, <1>7, <3>1, AheadOutside
  <2>4. Alive(P, L, b) /\ (Opens(P, x) => Alive(P, L, x + 1)) /\ (P[x].k = "if" /\ e # 0 => Alive(P, L, e + 1))
    BY <2>1, <2>2, <2>3 DEF Alive
  <2> QED
    BY <1>3, <1>4, <2>4 DEF e
<1>8. CASE r = x
  <2>1. Free(P, x) /\ L[x].always_return /\ ~L[x].crash /\ Loop(P, x) = 0
    BY <1>2, <1>8, NotAtEnd DEF Ahead
  <2>2. /\ ~a.crash /\ (a.always_return \/ ~L[b].crash)
        /\ a.always_return \/ (a.always_fallthrough /\ L[b].always_return)
    BY <1>1, <2>1, ListIs DEF b
  <2>3. ASSUME ~a.always_return
        PROVE  /\ Ahead(P, L, b, b)
               /\ Opens(P, x) => Ahead(P, L, x + 1, b)
               /\ P[x].k = "if" /\ e # 0 => Ahead(P, L, e + 1, b)
    <3>1. b \in 1 .. Bottom(P) /\ Free(P, b) /\ L[b].always_return /\ ~L[b].crash
      BY <1>5, <1>6, <2>1, <2>2, <2>3 DEF Free
    <3>2. Opens(P, x) => Inside(P, x + 1, x)
      BY <1>6
    <3>3. P[x].k = "if" /\ e # 0 => Inside(P, e + 1, x)
      BY <1>6
    <3> QED
      BY <3>1, <3>2, <3>3 DEF Ahead, b
  <2>4. ASSUME ~a.always_return
        PROVE  Alive(P, L, b) /\ (Opens(P, x) => Alive(P, L, x + 1)) /\ (P[x].k = "if" /\ e # 0 => Alive(P, L, e + 1))
    BY <2>3, <2>4 DEF Alive
  <2>5. CASE P[x].k \in {"do", "while"}
    <3>1. ~a.always_return
      BY <1>1, <2>5, OneIs
    <3> QED
      BY <1>3, <1>4, <2>4, <2>5, <3>1
  <2>6. CASE P[x].k = "if" /\ e = 0
    <3>1. ~a.always_return
      <4>1. u # "t"
        BY <2>1, <2>6 DEF Judged, Distrusts, Letter
      <4>2. a.always_return <=> u = "t"
        BY <1>1, <2>2, <2>6, OneIs DEF e
      <4> QED
        BY <4>1, <4>2
    <3> QED
      BY <1>3, <1>4, <2>4, <2>6, <3>1 DEF e
  <2>7. CASE P[x].k = "if" /\ e # 0
    <3>1. u # "t" /\ (u = "f" => P[x].cond = "false")
      BY <2>1, <2>7 DEF Judged, Distrusts, Letter
    <3>2. /\ ~L[x + 1].crash /\ ~L[e + 1].crash
          /\ a.always_return <=> u = "t" \/ (L[e + 1].always_return /\ (u = "f" \/ L[x + 1].always_return))
      <4>1. LET t == L[x + 1]
                f == L[Else(P, x) + 1] IN
              /\ ~t.crash /\ P[x].cond # "operation" /\ (u # "t" => ~f.crash)
              /\ a.always_return <=> u = "t" \/ (f.always_return /\ (u = "f" \/ t.always_return))
        BY <1>1, <2>2, <2>7, OneIs DEF e
      <4> QED
        BY <3>1, <4>1 DEF e
    <3> HIDE DEF u, a
    <3>3. CASE ~a.always_return
      BY <1>3, <1>4, <2>4, <2>7, <3>3 DEF e
    <3>4. CASE a.always_return
      <4>1. Alive(P, L, e + 1)
        BY <1>6, <2>1, <2>7, <3>1, <3>2, <3>4, AliveInside
      <4>2. P[x].cond # "false" => Alive(P, L, x + 1)
        <5>1. P[x].cond # "false" => L[x + 1].always_return
          BY <3>1, <3>2, <3>4
        <5> QED
          BY <1>1, <1>3, <1>6, <2>1, <2>7, <3>2, <5>1, AliveInside
      <4> QED
        BY <2>7, <4>1, <4>2 DEF e
    <3> QED
      BY <3>3, <3>4
  <2> QED
    BY <2>5, <2>6, <2>7
<1> QED
  BY <1>7, <1>8

-----------------------------------------------------------------------------
(* What is reached *)

\* One step on from R.
Further(P, R) == R \cup UNION {Successors(P, x) : x \in R}

\* Successors are positions,
LEMMA SuccessorFacts ==
  ASSUME NEW P, IsBody(P), NEW x \in 1 .. Bottom(P)
  PROVE  Successors(P, x) \subseteq 1 .. Bottom(P)
<1>1. Closed(P) /\ Len(P) \in Nat /\ DOMAIN P = 1 .. Len(P) /\ Bottom(P) = Len(P) + 1
  BY DEF IsBody, Closed, Bottom
<1>2. CASE x = Bottom(P) \/ P[x].k = "ret"
  BY <1>2 DEF Successors
<1>3. CASE x # Bottom(P) /\ P[x].k # "ret"
  <2>1. x \in DOMAIN P /\ x + 1 \in 1 .. Bottom(P) /\ Here(P, x + 1) \in 1 .. Bottom(P)
    BY <1>1, <1>3, HereFacts
  <2>2. ASSUME P[x].k \in {"if", "while"}
        PROVE  IfFalse(P, x) \in 1 .. Bottom(P)
    <3>1. End(P, x) \in DOMAIN P
      BY <1>1, <2>1, <2>2, EndCloses DEF Opens, Openers
    <3>2. P[x].k = "if" /\ Else(P, x) # 0 => Else(P, x) + 1 \in 1 .. Bottom(P)
      BY <2>1, InsideElse
    <3>3. End(P, x) + 1 \in 1 .. Bottom(P)
      BY <1>1, <3>1
    <3> QED
      BY <3>2, <3>3, HereFacts DEF IfFalse
  <2>3. Branches(P, x) \subseteq {IfTrue(P, x), IfFalse(P, x)}
    BY Zenon DEF Branches
  <2>4. IfTrue(P, x) \in 1 .. Bottom(P)
    BY <2>1 DEF IfTrue
  <2>5. CASE P[x].k = "if"
    <3>1. Successors(P, x) = Branches(P, x)
      BY <1>3, <2>5 DEF Successors
    <3> QED
      BY <2>2, <2>3, <2>4, <2>5, <3>1
  <2>6. CASE P[x].k = "while"
    <3>1. Successors(P, x) = {IfTrue(P, x), IfFalse(P, x)}
      BY <1>3, <2>6 DEF Successors
    <3> QED
      BY <2>2, <2>4, <2>6, <3>1
  <2>7. CASE P[x].k \notin {"if", "while"}
    <3>1. Successors(P, x) = {Here(P, x + 1)}
      BY <1>3, <2>7 DEF Successors
    <3> QED
      BY <2>1, <3>1
  <2> QED
    BY <2>5, <2>6, <2>7
<1> QED
  BY <1>2, <1>3

\* and so is what is one step further.
LEMMA FurtherFacts ==
  ASSUME NEW P, IsBody(P), NEW R, R \subseteq 1 .. Bottom(P)
  PROVE  Further(P, R) \subseteq 1 .. Bottom(P) /\ R \subseteq Further(P, R)
<1>1. \A x \in R : Successors(P, x) \subseteq 1 .. Bottom(P)
  BY SuccessorFacts
<1> QED
  BY <1>1 DEF Further

\* Reached is what so many steps come to.
LEMMA ReachedSteps ==
  ASSUME NEW P, IsBody(P)
  PROVE  \E w \in [0 .. Len(P) + 1 -> SUBSET (1 .. Bottom(P))] :
           /\ Reached(P) = w[Len(P) + 1] /\ w[0] = {Here(P, 1)}
           /\ \A n \in 1 .. Len(P) + 1 : w[n] = Further(P, w[n - 1])
<1> DEFINE S == 0 .. Len(P) + 1
           T == SUBSET (1 .. Bottom(P))
           step(f, n) == IF n = 0 THEN {Here(P, 1)}
                         ELSE f[n - 1] \cup UNION {Successors(P, x) : x \in f[n - 1]}
           rank == [n \in S |-> n]
           rule == [n \in S |-> [f \in [S -> T] |-> step(f, n)]]
           w == CHOOSE f : f = [n \in 0 .. Len(P) + 1 |-> step(f, n)]
<1>1. Len(P) \in Nat /\ Bottom(P) = Len(P) + 1 /\ 1 \in 1 .. Bottom(P)
  BY DEF IsBody, Closed, Bottom
<1>2. {Here(P, 1)} \in T
  BY <1>1, HereFacts
<1>3. ASSUME NEW n \in S, NEW f, n # 0 => f[n - 1] \in T
      PROVE  step(f, n) \in T
  <2>1. CASE n = 0
    BY <1>2, <2>1
  <2>2. CASE n # 0
    <3>1. step(f, n) = Further(P, f[n - 1])
      BY <2>2 DEF Further
    <3> QED
      BY <1>3, <2>2, <3>1, FurtherFacts
  <2> QED
    BY <2>1, <2>2
<1>4. Recursive(S, T, rank, rule)
  <2>0. \A n \in S : n # 0 => n - 1 \in S /\ n - 1 < n
    BY <1>1
  <2>1. rank \in [S -> Nat] /\ \A n \in S : rank[n] = n
    BY <1>1
  <2>2. \A n \in S : \A f \in [S -> T] : step(f, n) \in T
    <3> HIDE DEF step, T
    <3>1. \A f \in [S -> T] : \A n \in S : f[n] \in T
      OBVIOUS
    <3> QED
      BY <1>3, <2>0, <3>1
  <2>3. rule \in [S -> [[S -> T] -> T]]
    <3> HIDE DEF step, T
    <3> QED
      BY <2>2
  <2>4. ASSUME NEW n \in S, NEW f \in [S -> T], NEW g \in [S -> T],
               \A m \in S : rank[m] < rank[n] => f[m] = g[m]
        PROVE  step(f, n) = step(g, n)
    <3>1. n # 0 => f[n - 1] = g[n - 1]
      <4> HIDE DEF rank
      <4> QED
        BY <2>0, <2>1, <2>4
    <3> QED
      BY <3>1
  <2> HIDE DEF S, T, rank, step
  <2>5. \A n \in S : \A f, g \in [S -> T] :
          (\A m \in S : rank[m] < rank[n] => f[m] = g[m]) => rule[n][f] = rule[n][g]
    BY <2>4
  <2> HIDE DEF rule
  <2> QED
    BY <2>1, <2>3, <2>5 DEF Recursive
<1>5. PICK f \in [S -> T] : \A n \in S : f[n] = rule[n][f]
  <2> HIDE DEF S, T, rule, rank
  <2> QED
    BY <1>2, <1>4, RecursionExists
<1>6. w = [n \in S |-> step(w, n)]
  <2>1. f = [n \in S |-> step(f, n)]
    BY <1>5
  <2> QED
    BY <2>1
<1>7. Reached(P) = w[Len(P) + 1]
  BY Zenon DEF Reached
<1> HIDE DEF w
<1>8. \A n \in S : w[n] \in T
  <2> DEFINE Bad == {n \in S : w[n] \notin T}
  <2>1. SUFFICES ASSUME Bad # {} PROVE FALSE
    OBVIOUS
  <2>2. PICK n \in Bad : \A m \in Bad : n <= m
    <3>1. Bad \subseteq Nat
      BY <1>1
    <3> HIDE DEF Bad
    <3> QED
      BY <2>1, <3>1, Least
  <2>3. n \in S /\ w[n] \notin T
    BY <2>2
  <2>4. n # 0 => n - 1 \in S /\ w[n - 1] \in T
    BY <1>1, <2>2, <2>3
  <2>5. step(w, n) \in T
    <3> HIDE DEF step, S, T
    <3> QED
      BY <1>3, <2>3, <2>4
  <2>6. w[n] = step(w, n)
    BY <1>6, <2>3
  <2> QED
    BY <2>3, <2>5, <2>6
<1>9. w[0] = {Here(P, 1)} /\ \A n \in 1 .. Len(P) + 1 : w[n] = Further(P, w[n - 1])
  <2>1. 0 \in S /\ \A n \in 1 .. Len(P) + 1 : n \in S /\ n # 0
    BY <1>1
  <2> QED
    BY <1>6, <2>1 DEF Further
<1>10. w \in [S -> T]
  BY <1>6, <1>8
<1> QED
  BY <1>7, <1>9, <1>10

\* What is reached is the least that the successors do not leave.
LEMMA ReachedLeast ==
  ASSUME NEW P, IsBody(P), NEW S, Here(P, 1) \in S, \A x \in S : Successors(P, x) \subseteq S
  PROVE  Reached(P) \subseteq S
<1>1. PICK w \in [0 .. Len(P) + 1 -> SUBSET (1 .. Bottom(P))] :
           /\ Reached(P) = w[Len(P) + 1] /\ w[0] = {Here(P, 1)}
           /\ \A n \in 1 .. Len(P) + 1 : w[n] = Further(P, w[n - 1])
  <2> HIDE DEF Further
  <2> QED
    BY ReachedSteps
<1> DEFINE Bad == {n \in 0 .. Len(P) + 1 : ~(w[n] \subseteq S)}
<1>2. Len(P) \in Nat
  BY DEF IsBody, Closed
<1>3. SUFFICES ASSUME Bad # {} PROVE FALSE
  BY <1>1, <1>2
<1>4. PICK n \in Bad : \A m \in Bad : n <= m
  <2>1. Bad \subseteq Nat
    BY <1>2
  <2> HIDE DEF Bad
  <2> QED
    BY <1>3, <2>1, Least
<1>5. n \in 0 .. Len(P) + 1 /\ ~(w[n] \subseteq S) /\ n # 0
  BY <1>1, <1>4
<1>6. n - 1 \in 0 .. Len(P) + 1 /\ w[n - 1] \subseteq S /\ n \in 1 .. Len(P) + 1
  BY <1>2, <1>4, <1>5
<1>7. w[n] = Further(P, w[n - 1])
  BY <1>1, <1>6
<1> QED
  BY <1>5, <1>6, <1>7 DEF Further

\* What is reached leads nowhere else: that many steps are enough.
LEMMA ReachedClosed ==
  ASSUME NEW P, IsBody(P)
  PROVE  /\ Here(P, 1) \in Reached(P) /\ Reached(P) \subseteq 1 .. Bottom(P)
         /\ \A x \in Reached(P) : Successors(P, x) \subseteq Reached(P)
<1> DEFINE N == Len(P) + 1
<1>1. PICK w \in [0 .. N -> SUBSET (1 .. Bottom(P))] :
           /\ Reached(P) = w[N] /\ w[0] = {Here(P, 1)}
           /\ \A n \in 1 .. N : w[n] = Further(P, w[n - 1])
  BY ReachedSteps
<1>2. Len(P) \in Nat /\ N \in Nat /\ Bottom(P) = N /\ 0 \in 0 .. N /\ N \in 0 .. N
  BY DEF IsBody, Closed, Bottom
<1>3. \A n \in 0 .. N : w[n] \subseteq 1 .. Bottom(P)
  BY <1>1
<1> HIDE DEF N
\* It only grows,
<1>4. \A n \in 0 .. N : Here(P, 1) \in w[n]
  <2> DEFINE Bad == {n \in 0 .. N : Here(P, 1) \notin w[n]}
  <2>1. SUFFICES ASSUME Bad # {} PROVE FALSE
    OBVIOUS
  <2>2. PICK n \in Bad : \A m \in Bad : n <= m
    <3>1. Bad \subseteq Nat
      BY <1>2
    <3> HIDE DEF Bad
    <3> QED
      BY <2>1, <3>1, Least
  <2>3. n \in 0 .. N /\ n # 0 /\ Here(P, 1) \notin w[n]
    BY <1>1, <2>2
  <2>4. n \in 1 .. N /\ n - 1 \in 0 .. N /\ Here(P, 1) \in w[n - 1]
    BY <1>2, <2>2, <2>3
  <2>5. w[n] = Further(P, w[n - 1])
    BY <1>1, <2>4
  <2> QED
    BY <2>3, <2>4, <2>5 DEF Further
\* and what does not grow any more stays.
<1>5. ASSUME NEW m \in 0 .. N, Further(P, w[m]) = w[m]
      PROVE  w[N] = w[m]
  <2> DEFINE Bad == {n \in m .. N : w[n] # w[m]}
  <2>1. SUFFICES ASSUME Bad # {} PROVE FALSE
    BY <1>2
  <2>2. PICK n \in Bad : \A l \in Bad : n <= l
    <3>1. Bad \subseteq Nat
      BY <1>2
    <3> HIDE DEF Bad
    <3> QED
      BY <2>1, <3>1, Least
  <2>3. n \in m .. N /\ n # m /\ w[n] # w[m]
    BY <2>2
  <2>4. n \in 1 .. N /\ n - 1 \in m .. N /\ w[n - 1] = w[m]
    BY <1>2, <2>2, <2>3
  <2>5. w[n] = Further(P, w[n - 1])
    BY <1>1, <2>4
  <2> QED
    BY <1>5, <2>3, <2>4, <2>5
<1>6. Further(P, w[N]) = w[N]
  <2>1. SUFFICES ASSUME \A m \in 0 .. N : Further(P, w[m]) # w[m] PROVE FALSE
    BY <1>5
  <2> DEFINE Bad == {n \in 0 .. N : ~(IsFiniteSet(w[n]) /\ Cardinality(w[n]) \in Nat /\ Cardinality(w[n]) > n)}
  <2>2. \A n \in 0 .. N : IsFiniteSet(w[n]) /\ Cardinality(w[n]) \in Nat /\ Cardinality(w[n]) <= N
    <3>1. IsFiniteSet(1 .. N) /\ Cardinality(1 .. N) = N
      BY <1>2, FS_Interval
    <3>2. \A n \in 0 .. N : w[n] \in SUBSET (1 .. N)
      BY <1>2, <1>3
    <3> QED
      BY <3>1, <3>2, FS_Subset, FS_CardinalityType
  <2>3. Bad = {}
    <3>1. SUFFICES ASSUME Bad # {} PROVE FALSE
      OBVIOUS
    <3>2. PICK n \in Bad : \A l \in Bad : n <= l
      <4>1. Bad \subseteq Nat
        BY <1>2
      <4> HIDE DEF Bad
      <4> QED
        BY <3>1, <4>1, Least
    <3>3. n \in 0 .. N /\ ~(Cardinality(w[n]) > n)
      BY <2>2, <3>2
    <3>4. n # 0
      <4>1. Cardinality(w[0]) = 1
        BY <1>1, FS_Singleton
      <4> QED
        BY <3>3, <4>1
    <3>5. n \in 1 .. N /\ n - 1 \in 0 .. N /\ Cardinality(w[n - 1]) > n - 1
      <4>1. n \in 1 .. N /\ n - 1 \in 0 .. N /\ n - 1 \notin Bad
        BY <1>2, <3>2, <3>3, <3>4
      <4> QED
        BY <4>1
    <3>6. w[n] = Further(P, w[n - 1]) /\ w[n] # w[n - 1]
      BY <1>1, <2>1, <3>5
    <3>7. w[n - 1] \subseteq w[n]
      BY <3>6 DEF Further
    <3>8. Cardinality(w[n - 1]) <= Cardinality(w[n]) /\ Cardinality(w[n - 1]) # Cardinality(w[n])
      BY <2>2, <3>3, <3>6, <3>7, FS_Subset
    <3>9. Cardinality(w[n - 1]) \in Nat /\ Cardinality(w[n]) \in Nat /\ n \in Nat
      BY <1>2, <2>2, <3>3, <3>5
    <3> QED
      BY <3>3, <3>5, <3>8, <3>9
  <2>4. Cardinality(w[N]) > N
    BY <1>2, <2>3
  <2> QED
    BY <1>2, <2>2, <2>4
<1> QED
  BY <1>1, <1>2, <1>3, <1>4, <1>6 DEF Further

\* Where control is then, it is on the way to a return.
LEMMA AliveSuccessors ==
  ASSUME NEW P, NEW L, Judged(P, L), NEW x \in Stops(P), Alive(P, L, x)
  PROVE  \A y \in Successors(P, x) : y \in Stops(P) /\ Alive(P, L, y)
<1>1. /\ IsBody(P) /\ JumpsInLoops(P) /\ Closed(P)
      /\ Len(P) \in Nat /\ DOMAIN P = 1 .. Len(P) /\ Bottom(P) = Len(P) + 1
  BY DEF Judged, IsBody, Closed, Bottom
<1>2. ASSUME NEW y \in 1 .. Bottom(P), Alive(P, L, y)
      PROVE  Here(P, y) \in Stops(P) /\ Alive(P, L, Here(P, y))
  BY <1>1, <1>2, HereStops, AliveHere
<1>3. x # Bottom(P)
  BY NotAliveAtBottom
<1>4. x \in DOMAIN P /\ P[x].k \in {"do", "ret", "if", "while"} /\ x + 1 \in 1 .. Bottom(P)
  BY <1>1, <1>3 DEF Stops
<1>5. CASE P[x].k = "ret"
  BY <1>5 DEF Successors
<1>6. CASE P[x].k = "do"
  <2>1. Successors(P, x) = {Here(P, x + 1)}
    BY <1>3, <1>6 DEF Successors
  <2>2. Alive(P, L, x + 1)
    BY <1>4, <1>6, AliveNext
  <2> QED
    BY <1>2, <1>4, <2>1, <2>2
<1>7. CASE P[x].k \in {"if", "while"}
  <2> DEFINE f == IF P[x].k = "if" /\ Else(P, x) # 0 THEN Else(P, x) + 1 ELSE End(P, x) + 1
  <2>1. f \in 1 .. Bottom(P)
    <3>1. End(P, x) \in DOMAIN P
      BY <1>1, <1>4, <1>7, EndCloses DEF Opens, Openers
    <3>2. P[x].k = "if" /\ Else(P, x) # 0 => Else(P, x) + 1 \in 1 .. Bottom(P)
      BY <1>1, <1>4, InsideElse
    <3>3. End(P, x) + 1 \in 1 .. Bottom(P)
      BY <1>1, <3>1
    <3> QED
      BY <3>2, <3>3
  <2>2. /\ P[x].k = "while" => Alive(P, L, x + 1)
        /\ P[x].k = "while" => Alive(P, L, End(P, x) + 1)
        /\ P[x].k = "if" /\ P[x].cond # "false" => Alive(P, L, x + 1)
        /\ P[x].k = "if" => Alive(P, L, IF Else(P, x) # 0 THEN Else(P, x) + 1 ELSE End(P, x) + 1)
    BY <1>4, <1>7, AliveNext
  <2>3. Alive(P, L, f)
    <3>1. CASE P[x].k = "if" /\ Else(P, x) # 0
      BY <2>2, <3>1
    <3>2. CASE P[x].k = "if" /\ Else(P, x) = 0
      BY <2>2, <3>2
    <3>3. CASE P[x].k = "while"
      BY <2>2, <3>3
    <3> QED
      BY <1>7, <3>1, <3>2, <3>3
  <2>4. IfTrue(P, x) = Here(P, x + 1) /\ IfFalse(P, x) = Here(P, f)
    BY DEF IfTrue, IfFalse
  <2> HIDE DEF f
  <2>5. IfFalse(P, x) \in Stops(P) /\ Alive(P, L, IfFalse(P, x))
    BY <1>2, <2>1, <2>3, <2>4
  <2>6. P[x].k = "while" \/ P[x].cond # "false" => IfTrue(P, x) \in Stops(P) /\ Alive(P, L, IfTrue(P, x))
    BY <1>2, <1>4, <1>7, <2>2, <2>4
  <2>7. CASE P[x].k = "while"
    <3>1. Successors(P, x) = {IfTrue(P, x), IfFalse(P, x)}
      BY <1>3, <2>7 DEF Successors
    <3> QED
      BY <2>5, <2>6, <2>7, <3>1
  <2>8. CASE P[x].k = "if"
    <3>1. Successors(P, x) = Branches(P, x)
      BY <1>3, <2>8 DEF Successors
    <3>2. CASE P[x].cond = "false"
      <4>1. Branches(P, x) = {IfFalse(P, x)}
        BY <3>2 DEF Branches
      <4> QED
        BY <2>5, <3>1, <4>1
    <3>3. CASE P[x].cond # "false"
      <4>1. Branches(P, x) \subseteq {IfTrue(P, x), IfFalse(P, x)}
        BY Zenon DEF Branches
      <4> QED
        BY <2>5, <2>6, <3>1, <3>3, <4>1
    <3> QED
      BY <3>2, <3>3
  <2> QED
    BY <1>7, <2>7, <2>8
<1> QED
  BY <1>4, <1>5, <1>6, <1>7

\* There is no loop around the first statement,
LEMMA FreeAtTop ==
  ASSUME NEW P, IsBody(P)
  PROVE  Free(P, 1)
BY DEF IsBody, Closed, Free, Inside

\* A function that is taken to return, where no letter is trusted, does.
LEMMA JudgedReturns ==
  ASSUME NEW P, NEW L, Judged(P, L), L[1].always_return, ~L[1].crash
  PROVE  Alive(P, L, Here(P, 1)) /\ ~FallsOff(P)
<1>1. IsBody(P) /\ JumpsInLoops(P) /\ 1 \in 1 .. Bottom(P)
  BY DEF Judged, IsBody, Closed, Bottom
<1>2. Alive(P, L, 1)
  <2>1. Ahead(P, L, 1, 1)
    BY <1>1, FreeAtTop DEF Ahead
  <2> QED
    BY <2>1 DEF Alive
<1>3. Here(P, 1) \in Stops(P) /\ Alive(P, L, Here(P, 1))
  BY <1>1, <1>2, HereStops, AliveHere
<1> DEFINE S == {x \in Stops(P) : Alive(P, L, x)}
<1>4. \A x \in S : Successors(P, x) \subseteq S
  BY AliveSuccessors
<1>5. Here(P, 1) \in S
  BY <1>3
<1>6. Bottom(P) \notin S
  BY NotAliveAtBottom
<1> HIDE DEF S
<1>7. Reached(P) \subseteq S
  BY <1>1, <1>4, <1>5, ReachedLeast
<1> QED
  BY <1>3, <1>6, <1>7 DEF FallsOff

-----------------------------------------------------------------------------
(* What is taken not to return, may not *)

\* nor around the parts of a statement without one.
LEMMA FreeParts ==
  ASSUME NEW P, IsBody(P), NEW q \in 1 .. Bottom(P), ~AtEnd(P, q), Free(P, q)
  PROVE  /\ Free(P, Behind(P, q)) /\ Behind(P, q) \in 1 .. Bottom(P) /\ q < Behind(P, q)
         /\ P[q].k = "if" => Free(P, q + 1) /\ q + 1 \in 1 .. Bottom(P)
         /\ P[q].k = "if" /\ Else(P, q) # 0 =>
              Free(P, Else(P, q) + 1) /\ Else(P, q) + 1 \in 1 .. Bottom(P) /\ q < Else(P, q) + 1
<1>1. q \in DOMAIN P /\ P[q].k # "end"
  BY LooksBehind DEF AtEnd
<1>2. \A c : Inside(P, Behind(P, q), c) <=> Inside(P, q, c)
  BY <1>1, InsideNext
<1>3. P[q].k = "if" => \A c : Inside(P, q + 1, c) <=> Inside(P, q, c) \/ c = q
  BY <1>1, InsideNext DEF Opens, Openers
<1>4. P[q].k = "if" /\ Else(P, q) # 0 => \A c : Inside(P, Else(P, q) + 1, c) <=> Inside(P, q, c) \/ c = q
  BY <1>1, InsideElse
<1>5. Free(P, Behind(P, q))
  BY <1>2 DEF Free
<1>6. P[q].k = "if" => Free(P, q + 1)
  BY <1>3 DEF Free
<1>7. P[q].k = "if" /\ Else(P, q) # 0 => Free(P, Else(P, q) + 1)
  BY <1>4 DEF Free
<1> QED
  BY <1>5, <1>6, <1>7, LooksBehind

\* analyze_returns crashes at an operation only.
LEMMA CrashesAtOperation ==
  ASSUME NEW P, IsBody(P), NEW L, Analysis(P, L), L[1].crash
  PROVE  \E x \in DOMAIN P : P[x].k = "if" /\ Loop(P, x) = 0 /\ P[x].cond = "operation"
<1> DEFINE n == Bottom(P)
           Has == \E x \in DOMAIN P : P[x].k = "if" /\ Loop(P, x) = 0 /\ P[x].cond = "operation"
           S == {q \in 1 .. n : Free(P, q) /\ L[q].crash => Has}
<1>1. n \in Nat /\ 1 \in 1 .. n
  BY DEF IsBody, Closed, Bottom
<1>2. ASSUME NEW q \in 1 .. n, \A y \in 1 .. n : y > q => y \in S, Free(P, q), L[q].crash
      PROVE  Has
  <2> DEFINE a == OneRule(P, L, q)
  <2>1. ~AtEnd(P, q)
    BY <1>2, ListIs
  <2>2. q \in DOMAIN P /\ P[q].k \in BodyKinds /\ P[q].k \notin {"else", "end"}
    BY <2>1, LooksBehind DEF IsBody, AtEnd
  <2>3. \A y \in 1 .. n : y > q /\ Free(P, y) /\ L[y].crash => Has
    BY <1>2
  <2>4. a.crash \/ L[Behind(P, q)].crash
    BY <1>2, <2>1, ListIs
  <2>5. a.crash => P[q].k = "if"
    BY <2>1, <2>2, OneIs DEF BodyKinds
  <2>6. a.crash =>
          L[q + 1].crash \/ P[q].cond = "operation" \/ (Else(P, q) # 0 /\ L[Else(P, q) + 1].crash)
    BY <2>1, <2>5, OneIs
  <2> HIDE DEF a, Has
  <2>7. CASE P[q].k = "if" /\ P[q].cond = "operation"
    BY <1>2, <2>2, <2>7, FreeIs DEF Has
  <2>8. CASE P[q].k = "if" /\ L[q + 1].crash
    BY <1>2, <2>1, <2>3, <2>8, FreeParts
  <2>9. CASE P[q].k = "if" /\ Else(P, q) # 0 /\ L[Else(P, q) + 1].crash
    BY <1>2, <2>1, <2>3, <2>9, FreeParts
  <2>10. CASE L[Behind(P, q)].crash
    BY <1>2, <2>1, <2>3, <2>10, FreeParts
  <2> QED
    BY <2>4, <2>5, <2>6, <2>7, <2>8, <2>9, <2>10
<1>3. 1 .. n \subseteq S
  <2>1. \A x \in 1 .. n : (\A y \in 1 .. n : y > x => y \in S) => x \in S
    BY <1>2
  <2> HIDE DEF S, n
  <2> QED
    BY <1>1, <2>1, Downward
<1> QED
  BY <1>1, <1>3, FreeAtTop

\* What counts as a return.
Counts(P, r) == P[r].k = "ret" \/ (P[r].k = "if" /\ Loop(P, r) = 0 /\ P[r].cond \in {"true", "t..."})

\* Where a list ends.
LEMMA TailOfList ==
  ASSUME NEW P, IsBody(P), NEW q \in 1 .. Bottom(P), NEW t, IsTail(P, q, t)
  PROVE  /\ AtEnd(P, q) => t = q
         /\ ~AtEnd(P, q) => /\ q < t /\ Behind(P, q) <= t /\ IsTail(P, Behind(P, q), t)
                            /\ P[q].k = "if" => End(P, q) < t
<1>1. Closed(P) /\ Len(P) \in Nat /\ DOMAIN P = 1 .. Len(P) /\ Bottom(P) = Len(P) + 1
  BY DEF IsBody, Closed, Bottom
<1>2. t \in 1 .. Bottom(P) /\ q <= t /\ AtEnd(P, t)
  BY DEF IsTail
<1>3. AtEnd(P, q) => t = q
  <2>1. q < t => q \in q .. t - 1
    BY <1>2
  <2> QED
    BY <1>2, <2>1 DEF IsTail
<1>4. ASSUME ~AtEnd(P, q)
      PROVE  q < t /\ Behind(P, q) <= t /\ IsTail(P, Behind(P, q), t) /\ (P[q].k = "if" => End(P, q) < t)
  <2>1. q \in DOMAIN P
    BY <1>4, LooksBehind
  <2>2. Behind(P, q) \in 1 .. Bottom(P) /\ q < Behind(P, q) /\ Behind(P, q) <= t /\ IsTail(P, Behind(P, q), t)
    BY <1>4, <2>1, TailBehind
  <2>3. P[q].k = "if" => Behind(P, q) = End(P, q) + 1 /\ End(P, q) \in DOMAIN P
    BY <1>1, <2>1, EndCloses DEF Behind, Opens, Openers
  <2> QED
    BY <1>1, <1>2, <2>2, <2>3
<1> QED
  BY <1>3, <1>4

\* A list that does not let control through always, or returns, counts so for a reason.
LEMMA ShowsReturn ==
  ASSUME NEW P, IsBody(P), JumpsInLoops(P), NEW L, Analysis(P, L)
  PROVE  \A q \in 1 .. Bottom(P) : \A t :
           Free(P, q) /\ IsTail(P, q, t) /\ ~L[q].crash /\ (L[q].always_return \/ ~L[q].always_fallthrough)
             => \E r \in DOMAIN P : q <= r /\ r < t /\ Counts(P, r)
<1> DEFINE n == Bottom(P)
           Has(q, t) == \E r \in DOMAIN P : q <= r /\ r < t /\ Counts(P, r)
           Shows(i1) == ~i1.crash /\ (i1.always_return \/ ~i1.always_fallthrough)
           S == {q \in 1 .. n : \A t : Free(P, q) /\ IsTail(P, q, t) /\ Shows(L[q]) => Has(q, t)}
<1>1. n \in Nat /\ n = Len(P) + 1 /\ Len(P) \in Nat /\ DOMAIN P = 1 .. Len(P) /\ Closed(P)
  BY DEF IsBody, Closed, Bottom
<1>2. ASSUME NEW q \in 1 .. n, \A y \in 1 .. n : y > q => y \in S,
             NEW t, Free(P, q), IsTail(P, q, t), Shows(L[q])
      PROVE  Has(q, t)
  <2> DEFINE a == OneRule(P, L, q)
             b == Behind(P, q)
             u == Letter(P[q].cond)
             e == Else(P, q) + 1
  <2>1. ~AtEnd(P, q)
    BY <1>2, ListIs
  <2>2. q \in DOMAIN P /\ P[q].k \in BodyKinds /\ P[q].k \notin {"else", "end"} /\ q \in Nat
    BY <1>1, <2>1, LooksBehind DEF IsBody, AtEnd
  <2>3. ASSUME NEW y \in 1 .. n, NEW s, y > q, s <= t, s \in Nat, Free(P, y), IsTail(P, y, s), Shows(L[y])
        PROVE  Has(q, t)
    <3>1. Has(y, s)
      BY <1>2, <2>3
    <3>2. PICK r \in DOMAIN P : y <= r /\ r < s /\ Counts(P, r)
      BY <3>1
    <3>3. t \in Nat
      BY <1>2 DEF IsTail
    <3>4. q <= r /\ r < t
      BY <1>1, <2>2, <2>3, <3>2, <3>3
    <3> QED
      BY <3>2, <3>4
  <2>4. q < t /\ b <= t /\ IsTail(P, b, t) /\ (P[q].k = "if" => End(P, q) < t) /\ t \in Nat
    <3>1. t \in Nat
      BY <1>2 DEF IsTail
    <3> QED
      BY <1>2, <2>1, <3>1, TailOfList
  <2>5. b \in 1 .. n /\ q < b /\ Free(P, b)
    BY <1>2, <2>1, FreeParts
  <2>6. Counts(P, q) => Has(q, t)
    BY <2>2, <2>4
  <2>7. /\ ~a.crash /\ (a.always_return \/ ~L[b].crash)
        /\ L[q].always_return <=> a.always_return \/ (a.always_fallthrough /\ L[b].always_return)
        /\ ~a.always_return => (L[q].always_fallthrough <=> a.always_fallthrough /\ L[b].always_fallthrough)
    BY <1>2, <2>1, ListIs
  <2> HIDE DEF Has
  <2>8. ASSUME ~a.always_return, a.always_fallthrough
        PROVE  Has(q, t)
    <3>1. Shows(L[b])
      BY <1>2, <2>7, <2>8
    <3> HIDE DEF Shows, b
    <3> QED
      BY <2>3, <2>4, <2>5, <3>1
  <2>9. CASE P[q].k = "ret"
    BY <2>6, <2>9 DEF Counts
  <2>10. CASE P[q].k \in {"break", "continue"}
    <3>1. Loop(P, q) # 0
      BY <1>1, <2>2, <2>10 DEF JumpsInLoops, Positions
    <3> QED
      BY <1>2, <2>2, <3>1, FreeIs
  <2>11. CASE P[q].k \in {"do", "while"}
    <3>1. ~a.always_return /\ a.always_fallthrough
      BY <2>1, <2>11, OneIs
    <3> QED
      BY <2>8, <3>1
  <2>12. CASE P[q].k = "if" /\ u = "t"
    <3>1. P[q].cond \in {"true", "t..."}
      BY <2>12 DEF Letter
    <3>2. Loop(P, q) = 0
      BY <1>2, <2>2, FreeIs
    <3> QED
      BY <2>6, <2>12, <3>1, <3>2 DEF Counts
  <2>13. CASE P[q].k = "if" /\ u # "t" /\ Else(P, q) = 0
    <3>1. (a.always_return <=> u = "t") /\ a.always_fallthrough
      BY <2>1, <2>7, <2>13, OneIs
    <3> QED
      BY <2>8, <2>13, <3>1
  <2>14. CASE P[q].k = "if" /\ u # "t" /\ Else(P, q) # 0
    <3>1. /\ ~L[q + 1].crash /\ ~L[e].crash
          /\ a.always_return => L[e].always_return
          /\ ~a.always_fallthrough => ~L[q + 1].always_fallthrough \/ ~L[e].always_fallthrough
      BY <2>1, <2>7, <2>14, OneIs
    <3>2. IsTail(P, q + 1, Else(P, q)) /\ IsTail(P, e, End(P, q))
      BY <2>2, <2>14, TailOfThen
    <3>3. Free(P, q + 1) /\ q + 1 \in 1 .. n /\ Free(P, e) /\ e \in 1 .. n /\ q < e
      BY <1>2, <2>1, <2>14, FreeParts
    <3>4. Else(P, q) \in Nat /\ End(P, q) \in Nat /\ Else(P, q) <= t /\ End(P, q) <= t
      <4>1. Else(P, q) \in DOMAIN P /\ Else(P, q) < End(P, q) /\ End(P, q) \in DOMAIN P
        BY <1>1, <2>2, <2>14, ElseInside, EndCloses DEF Opens, Openers
      <4> QED
        BY <1>1, <2>4, <2>14, <4>1
    <3>5. q < q + 1
      BY <2>2
    <3> HIDE DEF e
    <3>6. CASE Shows(L[e])
      BY <2>3, <3>2, <3>3, <3>4, <3>6
    <3>7. CASE Shows(L[q + 1])
      BY <2>3, <3>2, <3>3, <3>4, <3>5, <3>7
    <3>8. CASE ~Shows(L[e]) /\ ~Shows(L[q + 1])
      BY <2>8, <3>1, <3>8
    <3> QED
      BY <3>6, <3>7, <3>8
  <2> QED
    BY <2>2, <2>9, <2>10, <2>11, <2>12, <2>13, <2>14 DEF BodyKinds
<1>3. 1 .. n \subseteq S
  <2>1. \A x \in 1 .. n : (\A y \in 1 .. n : y > x => y \in S) => x \in S
    BY <1>2
  <2> HIDE DEF S, n
  <2> QED
    BY <1>1, <2>1, Downward
<1> QED
  BY <1>3

\* Control comes to x, from a position behind lo if lo is one.
Comes(P, lo, x) ==
  /\ Here(P, x) \in Reached(P)
  /\ lo > 0 => \E y \in Reached(P) : lo <= y /\ y < x /\ Here(P, x) \in Successors(P, y)

\* An if with an else where something counts as a return, and control may come behind it.
Armed(P, x) ==
  /\ P[x].k = "if" /\ Loop(P, x) = 0 /\ Else(P, x) # 0
  /\ \E r \in DOMAIN P : Counts(P, r) /\ Within(P, r, x)
  /\ \E y \in Reached(P) : (y = x \/ Within(P, y, x)) /\ Here(P, End(P, x)) \in Successors(P, y)

\* What control may come to behind a statement.
LEMMA ComesBehind ==
  ASSUME NEW P, IsBody(P), NEW q \in DOMAIN P, NEW lo \in Nat, Comes(P, lo, q), Here(P, q) = q,
         NEW x \in Nat, q < x, Here(P, x) \in Successors(P, q)
  PROVE  Comes(P, lo, x) /\ Comes(P, q, x)
<1>1. q \in Reached(P) /\ q \in Nat
  BY DEF Comes, IsBody, Closed
<1>2. Here(P, x) \in Reached(P)
  BY <1>1, ReachedClosed
<1>3. lo <= q
  <2>1. CASE lo > 0
    <3>1. PICK y \in Reached(P) : lo <= y /\ y < q
      BY <2>1 DEF Comes
    <3>2. y \in Nat
      BY <3>1, ReachedClosed
    <3> QED
      BY <1>1, <3>1, <3>2
  <2> QED
    BY <1>1, <2>1
<1>4. q <= q
  BY <1>1
<1> QED
  BY <1>1, <1>2, <1>3, <1>4 DEF Comes

\* Through a list that is not taken to return, control may come to its end: by induction
\* from the bottom of the text to its top.
LEMMA ComesThrough ==
  ASSUME NEW P, IsBody(P), JumpsInLoops(P), NEW L, Analysis(P, L), \A x \in DOMAIN P : ~Armed(P, x)
  PROVE  \A q \in 1 .. Bottom(P) : \A t, lo \in Nat :
           Free(P, q) /\ IsTail(P, q, t) /\ ~L[q].crash /\ ~L[q].always_return /\ Comes(P, lo, q)
             => Comes(P, lo, t)
<1> DEFINE n == Bottom(P)
           S == {q \in 1 .. n : \A t, lo \in Nat :
                   Free(P, q) /\ IsTail(P, q, t) /\ ~L[q].crash /\ ~L[q].always_return /\ Comes(P, lo, q)
                     => Comes(P, lo, t)}
<1>1. n \in Nat /\ n = Len(P) + 1 /\ Len(P) \in Nat /\ DOMAIN P = 1 .. Len(P) /\ Closed(P)
  BY DEF IsBody, Closed, Bottom
<1>2. ASSUME NEW q \in 1 .. n, \A y \in 1 .. n : y > q => y \in S,
             NEW t \in Nat, NEW lo \in Nat, Free(P, q), IsTail(P, q, t), ~L[q].crash,
             ~L[q].always_return, Comes(P, lo, q)
      PROVE  Comes(P, lo, t)
  <2> DEFINE a == OneRule(P, L, q)
             b == Behind(P, q)
             u == Letter(P[q].cond)
             e == Else(P, q) + 1
             z == End(P, q)
  <2>1. CASE AtEnd(P, q)
    <3>1. t = q
      BY <1>2, <2>1, TailOfList
    <3> QED
      BY <1>2, <3>1
  <2>2. CASE ~AtEnd(P, q)
    <3>1. q \in DOMAIN P /\ P[q].k \in BodyKinds /\ P[q].k \notin {"else", "end"} /\ q \in Nat
      BY <1>1, <2>2, LooksBehind DEF IsBody, AtEnd
    <3>2. b \in 1 .. n /\ b > q /\ Free(P, b) /\ IsTail(P, b, t)
      BY <1>2, <2>2, FreeParts, TailOfList
    <3>3. /\ ~a.crash /\ ~a.always_return /\ ~L[b].crash
          /\ ~(a.always_fallthrough /\ L[b].always_return)
      BY <1>2, <2>2, ListIs
    <3>4. ASSUME a.always_fallthrough, Comes(P, lo, b)
          PROVE  Comes(P, lo, t)
      <4>1. ~L[b].always_return /\ b \in S
        BY <1>2, <3>2, <3>3, <3>4
      <4> HIDE DEF b
      <4> QED
        BY <1>2, <3>2, <3>3, <3>4, <4>1
    <3>5. q # Bottom(P) /\ ~(P[q].k = "ret")
      <4>1. P[q].k = "ret" => a.always_return
        BY <2>2, OneIs
      <4> QED
        BY <1>1, <3>1, <3>3, <4>1
    <3>6. Here(P, q) = q \/ P[q].k \in {"break", "continue"}
      BY <3>1, HereFacts DEF BodyKinds
    <3>7. CASE P[q].k \in {"break", "continue"}
      <4>1. Loop(P, q) # 0
        BY <1>1, <3>1, <3>7 DEF JumpsInLoops, Positions
      <4> QED
        BY <1>2, <3>1, <4>1, FreeIs
    <3>8. CASE P[q].k \in {"do", "while"}
      <4>1. a.always_fallthrough
        BY <2>2, <3>8, OneIs
      <4>2. Here(P, b) \in Successors(P, q)
        <5>1. CASE P[q].k = "do"
          <6>1. b = q + 1
            BY <5>1 DEF Behind, Opens, Openers
          <6> QED
            BY <3>5, <5>1, <6>1 DEF Successors
        <5>2. CASE P[q].k = "while"
          <6>1. b = End(P, q) + 1
            BY <5>2 DEF Behind, Opens, Openers
          <6>2. IfFalse(P, q) = Here(P, b)
            BY <5>2, <6>1 DEF IfFalse
          <6> QED
            BY <3>5, <5>2, <6>2 DEF Successors
        <5> QED
          BY <3>8, <5>1, <5>2
      <4>3. b \in Nat /\ q < b
        BY <1>1, <3>1, <3>2
      <4> HIDE DEF b
      <4>4. Comes(P, lo, b)
        BY <1>2, <3>1, <3>6, <3>8, <4>2, <4>3, ComesBehind
      <4> QED
        BY <3>4, <4>1, <4>4
    <3>9. CASE P[q].k = "if"
      <4>1. u # "t"
        <5>1. a.always_return <=> u = "t" \/ (Else(P, q) # 0 /\ L[e].always_return /\ (u = "f" \/ L[q + 1].always_return))
          BY <2>2, <3>3, <3>9, OneIs
        <5> QED
          BY <3>3, <5>1
      <4>2. P[q].cond # "true" /\ (P[q].cond = "false" => u = "f")
        BY <4>1 DEF Letter
      <4>3. /\ Successors(P, q) = Branches(P, q)
            /\ IfFalse(P, q) \in Branches(P, q)
            /\ P[q].cond # "false" => IfTrue(P, q) \in Branches(P, q)
        <5>1. Successors(P, q) = Branches(P, q)
          BY <3>5, <3>9 DEF Successors
        <5>2. CASE P[q].cond = "false"
          BY <5>1, <5>2 DEF Branches
        <5>3. CASE P[q].cond # "false"
          BY <4>2, <5>1, <5>3 DEF Branches
        <5> QED
          BY <5>1, <5>2, <5>3
      <4>4. b = z + 1 /\ z \in DOMAIN P /\ q < z
        BY <1>1, <3>1, <3>9, EndCloses DEF Behind, Opens, Openers
      <4>5. CASE Else(P, q) = 0
        <5>1. a.always_fallthrough
          BY <2>2, <3>3, <3>9, <4>5, OneIs
        <5>2. IfFalse(P, q) = Here(P, b)
          BY <4>4, <4>5 DEF IfFalse
        <5>3. b \in Nat /\ q < b
          BY <1>1, <3>1, <3>2
        <5> HIDE DEF b
        <5>4. Comes(P, lo, b)
          BY <1>2, <3>1, <3>6, <3>9, <4>3, <5>2, <5>3, ComesBehind
        <5> QED
          BY <3>4, <5>1, <5>4
      <4>6. CASE Else(P, q) # 0
        <5>1. /\ ~L[q + 1].crash /\ ~L[e].crash
              /\ ~(L[e].always_return /\ (u = "f" \/ L[q + 1].always_return))
              /\ ~a.always_fallthrough => ~L[q + 1].always_fallthrough \/ ~L[e].always_fallthrough
          BY <2>2, <3>3, <3>9, <4>1, <4>6, OneIs
        <5>2. IsTail(P, q + 1, Else(P, q)) /\ IsTail(P, e, z)
          BY <3>1, <3>9, <4>6, TailOfThen
        <5>3. Free(P, q + 1) /\ q + 1 \in 1 .. n /\ Free(P, e) /\ e \in 1 .. n /\ q < e
          BY <1>2, <2>2, <3>9, <4>6, FreeParts
        <5>4. /\ Else(P, q) \in DOMAIN P /\ q < Else(P, q) /\ Else(P, q) < z /\ P[Else(P, q)].k = "else"
              /\ Construct(P, Else(P, q)) = q /\ P[z].k = "end" /\ Construct(P, z) = q
          <6>1. /\ Opens(P, q) /\ Else(P, q) \in DOMAIN P /\ q < Else(P, q) /\ Else(P, q) < z
                /\ P[Else(P, q)].k = "else" /\ P[z].k = "end"
                /\ Level(P, z) = Level(P, q) + 1 /\ Level(P, Else(P, q)) = Level(P, q) + 1
            BY <1>1, <3>1, <3>9, <4>6, ElseInside, EndCloses DEF Opens, Openers
          <6>2. ASSUME NEW x \in DOMAIN P, P[x].k \in {"else", "end"}, q < x, x <= z,
                       Level(P, x) = Level(P, q) + 1
                PROVE  Construct(P, x) = q
            <7>1. /\ Construct(P, x) \in DOMAIN P /\ Opens(P, Construct(P, x))
                  /\ Construct(P, x) < x /\ Level(P, x) = Level(P, Construct(P, x)) + 1
                  /\ x < End(P, Construct(P, x)) \/ x = End(P, Construct(P, x))
              BY <6>2, HopFacts
            <7>2. End(P, Construct(P, x)) \in Nat /\ x \in Nat /\ Construct(P, x) \in Nat \ {0} /\ q \in Nat \ {0}
              BY <1>1, <3>1, <7>1, EndCloses
            <7>3. Level(P, q) \in Int /\ Level(P, Construct(P, x)) \in Int
              BY <7>2, LevelOfNext
            <7>4. x <= End(P, Construct(P, x)) /\ Level(P, Construct(P, x)) = Level(P, q)
              BY <6>2, <7>1, <7>2, <7>3
            <7> QED
              BY <1>1, <3>1, <6>1, <6>2, <7>1, <7>2, <7>4, OneConstruct
          <6>3. q < z /\ z <= z /\ Else(P, q) <= z
            BY <1>1, <4>4, <6>1
          <6> QED
            BY <4>4, <6>1, <6>2, <6>3
        <5>5. Here(P, Else(P, q)) = Here(P, b) /\ Here(P, z) = Here(P, b)
          <6>1. Else(P, q) \in 1 .. n /\ z \in 1 .. n
            BY <1>1, <4>4, <5>4
          <6>2. P[Construct(P, z)].k # "while"
            BY <3>9, <5>4
          <6> QED
            BY <4>4, <5>4, <6>1, <6>2, HereFacts
        <5>6. IfTrue(P, q) = Here(P, q + 1) /\ IfFalse(P, q) = Here(P, e)
          BY <3>9, <4>6 DEF IfTrue, IfFalse
        <5>7. \E y \in Reached(P) : q <= y /\ y < z /\ Here(P, b) \in Successors(P, y)
          <6>0. q > 0
            BY <1>1, <3>1
          <6>1. CASE ~L[e].always_return
            <7>0. e \in Nat /\ e > q
              BY <1>1, <3>1, <5>3
            <7> HIDE DEF e, z, b
            <7>1. Comes(P, q, e)
              BY <1>2, <3>1, <3>6, <3>9, <4>3, <5>6, <7>0, <5>3, ComesBehind
            <7>2. e \in S
              BY <1>2, <5>3, <7>0
            <7>3. z \in Nat
              BY <1>1, <4>4
            <7>4. Comes(P, q, z)
              BY <3>1, <5>1, <5>2, <5>3, <6>1, <7>1, <7>2, <7>3
            <7> QED
              BY <5>5, <6>0, <7>4 DEF Comes
          <6>2. CASE L[e].always_return
            <7>1. ~L[q + 1].always_return /\ P[q].cond # "false"
              BY <4>2, <5>1, <6>2
            <7>2. q + 1 \in Nat /\ q < q + 1 /\ q + 1 > q
              BY <3>1
            <7> HIDE DEF e, z, b
            <7>3. Comes(P, q, q + 1)
              BY <1>2, <3>1, <3>6, <3>9, <4>3, <5>6, <7>1, <7>2, ComesBehind
            <7>4. q + 1 \in S
              BY <1>2, <5>3, <7>2
            <7>5. Else(P, q) \in Nat
              BY <1>1, <5>4
            <7>6. Comes(P, q, Else(P, q))
              BY <3>1, <5>1, <5>2, <5>3, <7>1, <7>3, <7>4, <7>5
            <7>7. PICK y \in Reached(P) : q <= y /\ y < Else(P, q) /\ Here(P, b) \in Successors(P, y)
              BY <5>5, <6>0, <7>6 DEF Comes
            <7>8. y \in Nat /\ y < z
              <8>1. y \in Nat
                BY <7>7, ReachedClosed
              <8> QED
                BY <1>1, <4>4, <5>4, <7>5, <7>7, <8>1
            <7> QED
              BY <7>7, <7>8
          <6> QED
            BY <6>1, <6>2
        <5>8. PICK y \in Reached(P) : q <= y /\ y < z /\ Here(P, b) \in Successors(P, y)
          BY <5>7
        <5>9. y \in Nat /\ z \in Nat
          BY <1>1, <4>4, <5>8, ReachedClosed
        <5>10. a.always_fallthrough
          <6>1. SUFFICES ASSUME ~a.always_fallthrough PROVE FALSE
            OBVIOUS
          <6>2. \E r \in DOMAIN P : q < r /\ r < z /\ Counts(P, r)
            <7>1. CASE ~L[q + 1].always_fallthrough
              <8>1. PICK r \in DOMAIN P : q + 1 <= r /\ r < Else(P, q) /\ Counts(P, r)
                BY <5>1, <5>2, <5>3, <7>1, ShowsReturn
              <8>2. q < r /\ r < z
                BY <1>1, <3>1, <5>4, <5>9, <8>1
              <8> QED
                BY <8>1, <8>2
            <7>2. CASE ~L[e].always_fallthrough
              <8>1. PICK r \in DOMAIN P : e <= r /\ r < z /\ Counts(P, r)
                BY <5>1, <5>2, <5>3, <7>2, ShowsReturn
              <8>2. q < r
                BY <1>1, <3>1, <5>3, <8>1
              <8> QED
                BY <8>1, <8>2
            <7> QED
              BY <5>1, <6>1, <7>1, <7>2
          <6>3. Opens(P, q)
            BY <3>9 DEF Opens, Openers
          <6>4. \E r \in DOMAIN P : Counts(P, r) /\ Within(P, r, q)
            BY <6>2, <6>3 DEF Within
          <6>5. y = q \/ Within(P, y, q)
            BY <3>1, <5>8, <5>9, <6>3 DEF Within
          <6>6. Loop(P, q) = 0
            BY <1>2, <3>1, FreeIs
          <6>7. Armed(P, q)
            <7>1. Here(P, End(P, q)) \in Successors(P, y)
              BY <5>5, <5>8
            <7> QED
              BY <3>9, <4>6, <5>8, <6>4, <6>5, <6>6, <7>1 DEF Armed
          <6> QED
            BY <3>1, <6>7
        <5>11. Comes(P, lo, b)
          <6>1. Here(P, b) \in Reached(P)
            BY <5>8, ReachedClosed
          <6>2. y < b
            BY <4>4, <5>8, <5>9
          <6>3. lo > 0 => lo <= y
            <7>1. SUFFICES ASSUME lo > 0 PROVE lo <= y
              OBVIOUS
            <7>2. PICK x \in Reached(P) : lo <= x /\ x < q
              BY <1>2, <7>1 DEF Comes
            <7>3. x \in Nat
              BY <7>2, ReachedClosed
            <7> QED
              BY <3>1, <5>8, <5>9, <7>2, <7>3
          <6> QED
            BY <5>8, <6>1, <6>2, <6>3 DEF Comes
        <5> QED
          BY <3>4, <5>10, <5>11
      <4> QED
        BY <4>5, <4>6
    <3> QED
      BY <3>1, <3>5, <3>7, <3>8, <3>9 DEF BodyKinds
  <2> QED
    BY <2>1, <2>2
<1>3. 1 .. n \subseteq S
  <2>1. \A x \in 1 .. n : (\A y \in 1 .. n : y > x => y \in S) => x \in S
    BY <1>2
  <2> HIDE DEF S, n
  <2> QED
    BY <1>1, <2>1, Downward
<1> QED
  BY <1>3

\* So the bottom is reached.
LEMMA FallsOffIf ==
  ASSUME NEW P, IsBody(P), JumpsInLoops(P), NEW L, Analysis(P, L), \A x \in DOMAIN P : ~Armed(P, x),
         ~L[1].crash, ~L[1].always_return
  PROVE  FallsOff(P)
<1>1. 1 \in 1 .. Bottom(P) /\ Bottom(P) \in 1 .. Bottom(P) /\ Bottom(P) \in Nat
  BY DEF IsBody, Closed, Bottom
<1>2. Comes(P, 0, 1)
  BY ReachedClosed DEF Comes
<1>3. Comes(P, 0, Bottom(P))
  BY <1>1, <1>2, ComesThrough, FreeAtTop, TailOfAll
<1> QED
  BY <1>1, <1>3, HereFacts DEF Comes, FallsOff

-----------------------------------------------------------------------------
(* What is returned *)

\* What the semantic pass takes for a right return.
RetOK(F, q) ==
  LET v == F.body[q].value IN
  IF F.ret.base = "VOID" THEN v = NoValue
  ELSE v # NoValue /\ (F.ret # NoType => types_are_equal(Typed(v, F.ret), F.ret))
AllOK(F, at) == \A q \in Returns(F.body) : q < at => RetOK(F, q)

\* The type of a function when it has been checked.
TypeFound(F) ==
  IF F.ret # NoType THEN F.ret
  ELSE IF Returns(F.body) = {} THEN NoType
  ELSE Typed(F.body[FirstReturn(F)].value, NoType)

Mixed(F) == Undeclared(F) /\ \A q \in Returns(F.body) : F.body[q].value # NoValue

\* What functions and their values are.
LEMMA ValueFacts ==
  ASSUME NEW F \in Functions
  PROVE  /\ F.ret.base # "UNKNOWN" /\ (F.ret = NoType => F.ret.base = "null") /\ NoType.base # "VOID"
         /\ DOMAIN F.body = 1 .. Len(F.body) /\ Len(F.body) \in Nat /\ Positions(F.body) = DOMAIN F.body
         /\ \A q \in DOMAIN F.body : F.body[q].value # NoValue => F.body[q].value.type # NoType
<1> DEFINE P == F.body
<1>1. F.ret.base # "UNKNOWN"
  BY FunctionConstants, Zenon
<1>3. ASSUME NEW q \in Positions(P), P[q].value # NoValue
      PROVE  P[q].value.type # NoType
  <2>1. P[q].value # NoValue => P[q].k = "ret" /\ P[q].value.type # NoType
    BY FunctionConstants
  <2> QED
    BY <1>3, <2>1
<1>2. DOMAIN P = 1 .. Len(P) /\ Len(P) \in Nat
  BY BodyFacts DEF IsBody, Closed
<1> QED
  BY <1>1, <1>2, <1>3 DEF Positions, NoType, Scalar

\* A value that has a type keeps one.
LEMMA TypedIsSome ==
  ASSUME NEW v, v.type # NoType
  PROVE  Typed(v, NoType) # NoType
<1>1. ~is_numeric(NoType) /\ NoType.base \notin {"LIST", "PTR"}
  BY DEF is_numeric, NoType, Scalar, Numeric, Signed, Floats
<1>2. force_numeric_type(v, v.type, NoType) = v.type
  BY <1>1 DEF force_numeric_type
<1>3. Scalar("F32") # NoType /\ Scalar("I32") # NoType
  BY DEF NoType, Scalar
<1>4. CASE v.literal = "none" \/ v.type.base # "UNKNOWN"
  BY <1>2, <1>4 DEF Typed, check_expr, handle_num
<1>5. CASE ~(v.literal = "none" \/ v.type.base # "UNKNOWN")
  <2>1. Typed(v, NoType) = Scalar(IF v.literal = "float" THEN "F32" ELSE "I32")
    BY <1>1, <1>2, <1>5 DEF Typed, check_expr, handle_num
  <2> QED
    BY <1>3, <2>1
<1> QED
  BY <1>4, <1>5

\* The first return is one, before all others.
LEMMA FirstReturnFacts ==
  ASSUME NEW F \in Functions, Returns(F.body) # {}
  PROVE  /\ FirstReturn(F) \in Returns(F.body) /\ FirstReturn(F) \in DOMAIN F.body
         /\ \A q \in Returns(F.body) : FirstReturn(F) <= q
<1>1. Returns(F.body) \subseteq Nat /\ Returns(F.body) \subseteq DOMAIN F.body
  BY ValueFacts DEF Returns, Positions
<1>2. \E m \in Returns(F.body) : \A k \in Returns(F.body) : m <= k
  BY <1>1, Least
<1> QED
  BY <1>1, <1>2 DEF FirstReturn

\* The type of the result is what was found, if all returns are right.
LEMMA ResultFound ==
  ASSUME NEW F \in Functions, \A q \in Returns(F.body) : RetOK(F, q)
  PROVE  /\ ResultType(F) = IF TypeFound(F) = NoType THEN Scalar("VOID") ELSE TypeFound(F)
         /\ HasResult(F) <=> TypeFound(F) # NoType /\ TypeFound(F).base # "VOID"
         /\ RightReturns(F) \/ Mixed(F)
<1>1. ResultType(F) = IF TypeFound(F) = NoType THEN Scalar("VOID") ELSE TypeFound(F)
  <2>1. CASE F.ret # NoType
    BY <2>1 DEF ResultType, TypeFound, Undeclared
  <2>2. CASE F.ret = NoType /\ Returns(F.body) = {}
    BY <2>2 DEF ResultType, TypeFound, Undeclared
  <2>3. CASE F.ret = NoType /\ Returns(F.body) # {}
    <3> DEFINE v == F.body[FirstReturn(F)].value
    <3>1. RetOK(F, FirstReturn(F)) /\ FirstReturn(F) \in DOMAIN F.body
      BY <2>3, FirstReturnFacts
    <3>2. v # NoValue
      BY <2>3, <3>1, ValueFacts DEF RetOK
    <3>3. v.type # NoType
      BY <3>1, <3>2, ValueFacts
    <3>4. Typed(v, NoType) # NoType
      BY <3>3, TypedIsSome
    <3>5. TypeFound(F) = Typed(v, NoType)
      BY <2>3 DEF TypeFound
    <3>6. ResultType(F) = Typed(v, NoType)
      BY <2>3 DEF ResultType, Undeclared
    <3> QED
      BY <3>4, <3>5, <3>6
  <2> QED
    BY <2>1, <2>2, <2>3
<1>2. HasResult(F) <=> TypeFound(F) # NoType /\ TypeFound(F).base # "VOID"
  <2>1. Scalar("VOID").base = "VOID"
    BY DEF Scalar
  <2> QED
    BY <1>1, <2>1 DEF HasResult
<1>3. RightReturns(F) \/ Mixed(F)
  <2>1. CASE F.ret = NoType
    <3>1. F.ret.base # "VOID"
      BY <2>1, ValueFacts
    <3> QED
      BY <2>1, <3>1 DEF Mixed, Undeclared, RetOK
  <2>2. CASE F.ret # NoType
    <3>1. ResultType(F) = F.ret /\ (HasResult(F) <=> F.ret.base # "VOID")
      BY <2>2 DEF ResultType, Undeclared, HasResult
    <3> QED
      BY <2>2, <3>1 DEF RightReturns, RightReturn, RetOK
  <2> QED
    BY <2>1, <2>2
<1> QED
  BY <1>1, <1>2, <1>3

\* A wrong return is one.
LEMMA WrongReturn ==
  ASSUME NEW F \in Functions, NEW q \in Returns(F.body), ~RetOK(F, q)
  PROVE  ~RightReturns(F)
<1>1. SUFFICES ASSUME RightReturns(F) PROVE FALSE
  OBVIOUS
<1> DEFINE v == F.body[q].value
<1>2. RightReturn(F, q)
  BY <1>1 DEF RightReturns
<1>3. CASE F.ret # NoType
  <2>1. ResultType(F) = F.ret /\ (HasResult(F) <=> F.ret.base # "VOID")
    BY <1>3 DEF ResultType, Undeclared, HasResult
  <2> QED
    BY <1>2, <1>3, <2>1 DEF RightReturn, RetOK
<1>4. CASE F.ret = NoType
  <2>1. v = NoValue
    BY <1>4, ValueFacts DEF RetOK
  <2>2. ~HasResult(F)
    BY <1>2, <2>1 DEF RightReturn
  <2>3. FirstReturn(F) \in Returns(F.body) /\ RightReturn(F, FirstReturn(F))
    BY <1>1, FirstReturnFacts DEF RightReturns
  <2>4. F.body[FirstReturn(F)].value = NoValue
    BY <2>2, <2>3 DEF RightReturn
  <2>5. ResultType(F) = Typed(NoValue, NoType)
    BY <1>4, <2>3, <2>4 DEF ResultType, Undeclared
  <2>6. Typed(NoValue, NoType) = NoType
    <3>1. ~is_numeric(NoType)
      BY DEF is_numeric, NoType, Scalar, Numeric, Signed, Floats
    <3> QED
      BY <3>1 DEF Typed, check_expr, handle_num, force_numeric_type, NoValue
  <2> QED
    BY <2>2, <2>5, <2>6, ValueFacts DEF HasResult
<1> QED
  BY <1>3, <1>4

-----------------------------------------------------------------------------
(* What is known when the body has been walked over *)

\* Of a function that is accepted,
Accepted(F) ==
  /\ \A q \in Returns(F.body) : RetOK(F, q)
  /\ AlwaysReturns(F) \/ ~Distrusts(F.body)

\* and on the way.
SoFar(F, at, errs, ty, named) ==
  /\ "SEM_RETURN_TYPE_MISMATCH" \in errs <=> ~AllOK(F, at)
  /\ F.ret # NoType => ty = F.ret
  /\ F.ret = NoType /\ AllOK(F, at) =>
       IF \E q \in Returns(F.body) : q < at
       THEN ~named /\ ty = Typed(F.body[FirstReturn(F)].value, NoType)
       ELSE named /\ ty = NoType

VerdictInv ==
  /\ pc = "check" => SoFar(prog, p, errors, type, fn_name)
  /\ pc \notin {"check", "rejected", "crashed"} => Accepted(prog) /\ type = TypeFound(prog)
  /\ pc = "codegen" /\ p > 1 /\ Body[p - 1].k = "ret" => ~IsOpen(code, insert)
  /\ pc = "run" => Place \in Reached(Body)

LEMMA InitVerdict == Init => VerdictInv
<1>1. SUFFICES ASSUME Init PROVE VerdictInv
  OBVIOUS
<1>2. prog \in Functions /\ pc = "check" /\ p = 1 /\ errors = {} /\ type = prog.ret /\ fn_name = TRUE
  BY <1>1 DEF Init, CheckInit
<1>3. \A q \in Returns(prog.body) : ~(q < 1)
  BY <1>2 DEF Returns, Positions
<1>4. SoFar(prog, p, errors, type, fn_name)
  BY <1>2, <1>3 DEF SoFar, AllOK
<1> QED
  BY <1>2, <1>4 DEF VerdictInv

\* A statement that returns nothing tells nothing.
LEMMA SoFarOn ==
  ASSUME NEW F \in Functions, NEW at \in DOMAIN F.body, F.body[at].k # "ret",
         NEW errs, NEW ty, NEW named, SoFar(F, at, errs, ty, named),
         NEW errs2, "SEM_RETURN_TYPE_MISMATCH" \in errs2 <=> "SEM_RETURN_TYPE_MISMATCH" \in errs
  PROVE  SoFar(F, at + 1, errs2, ty, named)
<1>1. at \in Nat /\ \A q \in Returns(F.body) : q \in Nat /\ q # at
  BY ValueFacts DEF Returns, Positions
<1>2. \A q \in Returns(F.body) : q < at + 1 <=> q < at
  BY <1>1
<1>3. AllOK(F, at + 1) <=> AllOK(F, at)
  BY <1>2 DEF AllOK
<1> QED
  BY <1>2, <1>3 DEF SoFar

\* A return statement.
LEMMA SoFarReturn ==
  ASSUME CodeInv, VerdictInv, ret
  PROVE  SoFar(prog, p + 1, errors', type', fn_name')
<1> DEFINE F == prog
           v == F.body[p].value
           rt == Typed(v, F.ret)
           Code == "SEM_RETURN_TYPE_MISMATCH"
<1>1. F \in Functions /\ p \in DOMAIN F.body /\ p \in Nat /\ F.body[p].k = "ret" /\ pc = "check"
  <2>1. F \in Functions /\ AtToken /\ pc = "check" /\ Body[p].k = "ret"
    BY DEF CodeInv, TypeOK, ret, Check, Token
  <2> QED
    BY <2>1, BodyNow DEF CodeInv, TypeOK, AtToken, Body
<1>2. p \in Returns(F.body) /\ \A q \in Returns(F.body) : q \in Nat
  BY <1>1, ValueFacts DEF Returns
<1>3. \A q \in Returns(F.body) : q < p + 1 <=> q < p \/ q = p
  BY <1>1, <1>2
<1>4. SoFar(F, p, errors, type, fn_name)
  BY <1>1 DEF VerdictInv
<1>5. AllOK(F, p + 1) <=> AllOK(F, p) /\ RetOK(F, p)
  BY <1>2, <1>3 DEF AllOK
<1>6. F.ret.base # "UNKNOWN" /\ (F.ret = NoType => F.ret.base = "null") /\ NoType.base # "VOID"
  BY <1>1, ValueFacts
<1>7. g_fn_ret = "UNKNOWN" <=> F.ret = NoType
  BY <1>6 DEF g_fn_ret
<1>8. p < p + 1 /\ \E q \in Returns(F.body) : q < p + 1
  BY <1>1, <1>2
<1>9. CASE F.ret.base = "VOID" \/ v = NoValue
  <2>1. /\ errors' = IF F.ret.base = "VOID" /\ v = NoValue THEN errors ELSE errors \cup {Code}
        /\ type' = type /\ fn_name' = fn_name
    BY <1>9 DEF ret, Error, g_current_fn_ret_type, Token, Body
  <2>2. RetOK(F, p) <=> F.ret.base = "VOID" /\ v = NoValue
    BY <1>9 DEF RetOK
  <2>3. RetOK(F, p) => F.ret # NoType
    BY <1>6, <2>2
  <2> HIDE DEF F
  <2>4. Code \in errors' <=> ~AllOK(F, p + 1)
    BY <1>4, <1>5, <2>1, <2>2 DEF SoFar
  <2> QED
    BY <1>4, <1>5, <2>1, <2>3, <2>4 DEF SoFar, F
<1>10. CASE ~(F.ret.base = "VOID" \/ v = NoValue)
  <2> DEFINE Wrong == F.ret # NoType /\ ~types_are_equal(rt, F.ret)
  <2>1. /\ type' = IF g_fn_ret = "UNKNOWN" /\ fn_name THEN rt ELSE type
        /\ Wrong => errors' = errors \cup {Code} /\ fn_name' = fn_name
        /\ ~Wrong => errors' = errors /\ fn_name' = FALSE
    BY <1>10 DEF ret, Error, g_current_fn_ret_type, Token, Body
  <2>2. RetOK(F, p) <=> ~Wrong
    BY <1>10 DEF RetOK
  <2>3. type' = IF F.ret = NoType /\ fn_name THEN rt ELSE type
    BY <1>7, <2>1
  <2> HIDE DEF Wrong
  <2>4. Code \in errors' <=> ~AllOK(F, p + 1)
    BY <1>4, <1>5, <2>1, <2>2 DEF SoFar
  <2>5. F.ret # NoType => type' = F.ret
    BY <1>4, <2>3 DEF SoFar
  <2>6. ASSUME F.ret = NoType, AllOK(F, p + 1)
        PROVE  ~fn_name' /\ type' = Typed(F.body[FirstReturn(F)].value, NoType)
    <3>1. ~fn_name' /\ AllOK(F, p)
      BY <1>5, <2>1, <2>2, <2>6
    <3>2. CASE \E q \in Returns(F.body) : q < p
      <4>1. ~fn_name /\ type = Typed(F.body[FirstReturn(F)].value, NoType)
        BY <1>4, <2>6, <3>1, <3>2 DEF SoFar
      <4> QED
        BY <2>3, <3>1, <4>1
    <3>3. CASE ~\E q \in Returns(F.body) : q < p
      <4>1. fn_name
        BY <1>4, <2>6, <3>1, <3>3 DEF SoFar
      <4>2. FirstReturn(F) \in Returns(F.body) /\ FirstReturn(F) <= p
        BY <1>1, <1>2, FirstReturnFacts
      <4>3. FirstReturn(F) = p
        BY <1>1, <1>2, <3>3, <4>2
      <4> QED
        BY <2>3, <2>6, <3>1, <4>1, <4>3
    <3> QED
      BY <3>2, <3>3
  <2> HIDE DEF F
  <2>7. SoFar(F, p + 1, errors', type', fn_name')
    BY <1>8, <2>4, <2>5, <2>6 DEF SoFar
  <2> QED
    BY <2>7 DEF F
<1> QED
  BY <1>9, <1>10

\* What handle_fn says in the end.
LEMMA HandleFnSays ==
  ASSUME CodeInv, TextInv, VerdictInv, handle_fn
  PROVE  \/ /\ pc' = "crashed"
            /\ \E x \in DOMAIN Body : Body[x].k = "if" /\ Loop(Body, x) = 0 /\ Body[x].cond = "operation"
         \/ /\ pc' = "rejected"
            /\ ~Acceptable(prog) \/ \E x \in DOMAIN Body : Armed(Body, x)
         \/ pc' = "codegen" /\ Accepted(prog) /\ type = TypeFound(prog) /\ JumpsInLoops(Body)
<1> DEFINE F == prog
           Code == "SEM_RETURN_TYPE_MISMATCH"
           Jump == "SEM_BREAK_OUTSIDE_LOOP"
<1>1. pc = "check" /\ ~AtToken /\ F \in Functions /\ IsBody(Body) /\ SoFar(F, p, errors, type, fn_name)
      /\ errors \subseteq {Code, Jump}
  BY BodyNow DEF CodeInv, TypeOK, handle_fn, VerdictInv
<1>2. (\A q \in DOMAIN Body : q < p) /\ Body = F.body /\ (\A q \in Returns(Body) : q < p)
  <2>1. \A q \in DOMAIN Body : q < p
    BY <1>1, BodyNow DEF CodeInv, TypeOK, AtToken
  <2>2. Returns(Body) \subseteq DOMAIN Body
    BY <1>1, ValueFacts DEF Returns, Body
  <2> QED
    BY <2>1, <2>2 DEF Body
<1>3. PICK L : Analysis(Body, L) /\ analyze_returns = L[1]
  <2>1. \E L : Analysis(Body, L) /\ analyze_returns = L[1]
    BY <1>1, AnalysisExists
  <2> QED
    BY <2>1
<1>4. /\ Jump \in errors <=> ~JumpsInLoops(Body)
      /\ Code \in errors <=> ~AllOK(F, p)
  <2>1. Jump \notin errors <=> JumpsSeen(Body, p)
    BY <1>1 DEF TextInv
  <2>2. Positions(Body) = DOMAIN Body
    BY <1>1, ValueFacts DEF Body
  <2>3. JumpsSeen(Body, p) <=> JumpsInLoops(Body)
    BY <1>2, <2>2 DEF JumpsSeen, JumpsInLoops
  <2> QED
    BY <1>1, <2>1, <2>3 DEF SoFar
<1>5. AllOK(F, p) <=> \A q \in Returns(F.body) : RetOK(F, q)
  BY <1>2 DEF AllOK
<1>6. AllOK(F, p) => type = TypeFound(F)
  BY <1>1, <1>2 DEF SoFar, TypeFound
<1> DEFINE Wanted == IF F.ret # NoType THEN F.ret ELSE type
           New == Wanted # NoType /\ Wanted.base # "VOID" /\ ~L[1].always_return
<1>7. AllOK(F, p) => (HasResult(F) <=> Wanted # NoType /\ Wanted.base # "VOID")
  <2>1. AllOK(F, p) => Wanted = TypeFound(F)
    BY <1>6 DEF TypeFound
  <2> HIDE DEF Wanted
  <2> QED
    BY <1>1, <1>5, <2>1, ResultFound
<1>8. CASE L[1].crash
  <2>1. pc' = "crashed"
    BY <1>3, <1>8 DEF handle_fn
  <2> QED
    BY <1>1, <1>3, <1>8, <2>1, CrashesAtOperation
<1>9. CASE ~L[1].crash
  <2>1. /\ errors' = IF New THEN errors \cup {Code} ELSE errors
        /\ pc' = IF errors' = {} THEN "codegen" ELSE "rejected"
    BY <1>3, <1>9 DEF handle_fn, Error
  <2> HIDE DEF New, Wanted
  <2>2. CASE errors = {} /\ ~New
    <3>1. pc' = "codegen" /\ JumpsInLoops(Body) /\ AllOK(F, p)
      BY <1>4, <2>1, <2>2
    <3>2. HasResult(F) => L[1].always_return
      BY <1>7, <2>2, <3>1 DEF New
    <3>3. HasResult(F) /\ Distrusts(Body) => ~FallsOff(Body)
      BY <1>1, <1>3, <1>9, <3>1, <3>2, JudgedReturns DEF Judged
    <3>4. Accepted(F)
      BY <1>2, <1>5, <3>1, <3>3 DEF Accepted, AlwaysReturns
    <3> QED
      BY <1>6, <3>1, <3>4
  <2>3. CASE errors # {} \/ New
    <3>1. pc' = "rejected"
      BY <2>1, <2>3
    <3>2. CASE Jump \in errors
      BY <1>2, <1>4, <3>1, <3>2 DEF Acceptable
    <3>3. CASE Code \in errors
      <4>1. \E q \in Returns(F.body) : ~RetOK(F, q)
        BY <1>4, <1>5, <3>3
      <4>2. ~RightReturns(F)
        BY <1>1, <4>1, WrongReturn
      <4> QED
        BY <3>1, <4>2 DEF Acceptable
    <3>4. CASE Jump \notin errors /\ Code \notin errors
      <4>1. New /\ JumpsInLoops(Body) /\ AllOK(F, p)
        BY <1>1, <1>4, <2>3, <3>4
      <4>2. HasResult(F) /\ ~L[1].always_return
        BY <1>7, <4>1 DEF New
      <4>3. (\E x \in DOMAIN Body : Armed(Body, x)) \/ FallsOff(Body)
        BY <1>1, <1>3, <1>9, <4>1, <4>2, FallsOffIf
      <4>4. FallsOff(Body) => ~Acceptable(F)
        BY <1>2, <4>2 DEF Acceptable, AlwaysReturns
      <4> QED
        BY <3>1, <4>3, <4>4
    <3> QED
      BY <3>2, <3>3, <3>4
  <2> QED
    BY <2>2, <2>3
<1> QED
  BY <1>8, <1>9

\* Execution starts at the beginning of the text.
LEMMA StartsRunning ==
  ASSUME CodeInv, TextInv, verifyModule, pc' = "run"
  PROVE  Place' = Here(Body, 1)
<1> DEFINE r == code[entry].insts
<1>1. insert' = entry /\ i' = 1 /\ code' = code /\ Body' = Body /\ pc = "verify" /\ entry \in DOMAIN code
  BY DEF verifyModule, CodeInv, CodeTypes, Good, Body
<1>2. StraightLine(Body, entry, r) /\ Good(Body, code) /\ Len(Body) \in Nat
  BY <1>1, BodyNow DEF TextInv, BlocksFollow, CodeInv, CodeTypes
<1>3. r \in Seq(1 .. Len(Body))
  BY <1>1, <1>2 DEF Good, Blocks
<1>4. StartsAt(Body, entry) = Here(Body, 1)
  BY DEF StartsAt, Origin, entry, Block
<1>5. Place' = IF 1 <= Len(r) THEN r[1] ELSE EndsAt(Body, entry, r)
  BY <1>1 DEF Place
<1>6. CASE r = << >>
  BY <1>4, <1>5, <1>6 DEF EndsAt
<1>7. CASE r # << >>
  <2>1. 1 <= Len(r) /\ r[1] = StartsAt(Body, entry)
    BY <1>2, <1>3, <1>7 DEF StraightLine
  <2> QED
    BY <1>4, <1>5, <2>1
<1> QED
  BY <1>6, <1>7

\* What executes is what is reached.
LEMMA BranchesAreSuccessors ==
  ASSUME NEW P, IsBody(P), NEW x \in DOMAIN P
  PROVE  /\ P[x].k \in {"if", "while"} => Branches(P, x) \subseteq Successors(P, x)
         /\ P[x].k = "do" => Successors(P, x) = {Here(P, x + 1)}
<1>1. x # Bottom(P)
  BY DEF IsBody, Closed, Bottom
<1>2. P[x].k = "do" => Successors(P, x) = {Here(P, x + 1)}
  BY <1>1 DEF Successors
<1>3. P[x].k = "if" => Successors(P, x) = Branches(P, x)
  BY <1>1 DEF Successors
<1>4. P[x].k = "while" => Successors(P, x) = {IfTrue(P, x), IfFalse(P, x)}
  BY <1>1 DEF Successors
<1>5. Branches(P, x) \subseteq {IfTrue(P, x), IfFalse(P, x)}
  BY Zenon DEF Branches
<1> QED
  BY <1>2, <1>3, <1>4, <1>5

\* Execution stays at what is reached,
LEMMA RunVerdict ==
  ASSUME CodeInv, TextInv, VerdictInv, Run
  PROVE  VerdictInv'
<1>1. pc = "run" /\ pc' \in {"run", "returned"} /\ prog' = prog /\ type' = type /\ Body' = Body
  BY DEF Run, execute, branch, conditional_branch, return, AtTerminator, Enters, Compiled,
     checkVars, Body
<1>2. IsBody(Body) /\ Place \in Reached(Body) /\ Accepted(prog) /\ type = TypeFound(prog)
  BY <1>1, BodyNow DEF CodeInv, VerdictInv
<1>3. pc' = "run" => Place' \in Reached(Body)
  BY <1>2, RunsOn, ReachedClosed, BranchesAreSuccessors
<1> QED
  BY <1>1, <1>2, <1>3 DEF VerdictInv

\* the semantic pass finds what it found so far and the next return,
LEMMA SemanticVerdict ==
  ASSUME CodeInv, TextInv, VerdictInv, SemanticPass
  PROVE  VerdictInv'
<1> DEFINE Code == "SEM_RETURN_TYPE_MISMATCH"
<1>1. ASSUME check_if \/ check_while_loop \/ check_end \/ check_statement \/ check_unconditional_branches
      PROVE  VerdictInv'
  <2>1. /\ pc = "check" /\ AtToken /\ Body[p].k # "ret" /\ pc' = pc /\ prog' = prog /\ p' = p + 1
        /\ type' = type /\ fn_name' = fn_name
        /\ errors' \in {errors, errors \cup {"SEM_BREAK_OUTSIDE_LOOP"}}
    BY <1>1 DEF check_if, check_while_loop, check_end, check_statement,
       check_unconditional_branches,
       Check, Forward, Token, Error, checkVars
  <2>2. prog \in Functions /\ p \in DOMAIN prog.body
    BY <2>1, BodyNow DEF CodeInv, TypeOK, AtToken, Body
  <2>3. SoFar(prog, p, errors, type, fn_name)
    BY <2>1 DEF VerdictInv
  <2>4. Code \in errors' <=> Code \in errors
    BY <2>1
  <2>5. SoFar(prog, p + 1, errors', type, fn_name)
    BY <2>1, <2>2, <2>3, <2>4, SoFarOn DEF Body
  <2> QED
    BY <2>1, <2>5 DEF VerdictInv
<1>2. CASE ret
  <2>1. pc = "check" /\ pc' = pc /\ prog' = prog /\ p' = p + 1
    BY <1>2 DEF ret, Check, Forward
  <2>2. SoFar(prog, p + 1, errors', type', fn_name')
    BY <1>2, SoFarReturn
  <2> QED
    BY <2>1, <2>2 DEF VerdictInv
<1>3. CASE handle_fn
  <2>1. pc' \in {"crashed", "codegen", "rejected"} /\ prog' = prog /\ p' = 1 /\ type' = type
    BY <1>3 DEF handle_fn
  <2>2. pc' = "codegen" => Accepted(prog) /\ type = TypeFound(prog)
    BY <1>3, HandleFnSays
  <2> QED
    BY <2>1, <2>2 DEF VerdictInv
<1> QED
  BY <1>1, <1>2, <1>3 DEF SemanticPass

\* and code generation changes nothing of it:
LEMMA CodegenVerdict ==
  ASSUME CodeInv, TextInv, VerdictInv, pc = "codegen", pc' = pc, prog' = prog, type' = type,
         p' \in Nat, p' > 1 /\ Body[p' - 1].k = "ret" => ~IsOpen(code', insert')
  PROVE  VerdictInv'
<1>1. Body' = Body
  BY DEF Body
<1> QED
  BY <1>1 DEF VerdictInv

\* behind a return the block is closed.
LEMMA EmitVerdict ==
  ASSUME CodeInv, TextInv, VerdictInv,
         skip \/ emit_statement \/ emit_return \/ emit_jump \/ emit_if \/ emit_else \/ emit_if_end
           \/ emit_whileloop \/ emit_while_end
  PROVE  VerdictInv'
<1>1. pc = "codegen" /\ AtToken /\ pc' = pc /\ prog' = prog /\ type' = type
  BY DEF skip, emit_statement, emit_return, emit_jump, emit_if, emit_else, emit_if_end,
     emit_whileloop,
     emit_while_end, AtStatement, AtPart, Forward, Semantic, checkVars
<1>2. p \in Nat /\ p \in DOMAIN Body /\ IsBody(Body) /\ Closed(Body) /\ Len(Body) \in Nat /\ DOMAIN Body = 1 .. Len(Body)
      /\ insert \in DOMAIN code /\ Good(Body, code)
  BY <1>1, TextNow, BodyNow DEF CodeInv
<1>3. CASE skip
  <2>1. p' = Behind(Body, p) /\ code' = code /\ insert' = insert /\ ~IsOpen(code, insert)
    BY <1>3 DEF skip, blockTerminated, IsOpen
  <2>2. p' \in Nat
    BY <1>2, <2>1, LevelBehind
  <2> QED
    BY <1>1, <2>1, <2>2, CodegenVerdict
<1>4. CASE emit_return
  <2>1. p' = p + 1 /\ insert' = insert /\ code' = Terminate(code, insert, Ret(p))
    BY <1>4 DEF emit_return, Forward
  <2>2. ~IsOpen(code', insert')
    <3>1. code'[insert].term = Ret(p)
      BY <1>2, <2>1 DEF Terminate, Good, Blocks
    <3> QED
      BY <2>1, <3>1 DEF IsOpen, Ret, NoTerminator
  <2> QED
    BY <1>1, <1>2, <2>1, <2>2, CodegenVerdict
<1>5. CASE ~skip /\ ~emit_return
  <2>1. p' = p + 1 /\ Body[p].k # "ret"
    BY <1>5 DEF emit_statement, emit_jump, emit_if, emit_else, emit_if_end, emit_whileloop,
       emit_while_end, AtStatement, AtPart, Forward, Token
  <2>2. p' \in Nat /\ p' - 1 = p
    BY <1>2, <2>1
  <2> QED
    BY <1>1, <2>1, <2>2, CodegenVerdict
<1> QED
  BY <1>3, <1>4, <1>5

LEMMA StepVerdict ==
  ASSUME CodeInv, TextInv, VerdictInv, [Next]_vars
  PROVE  VerdictInv'
<1>1. CASE UNCHANGED vars \/ Finished
  <2>1. UNCHANGED vars
    BY <1>1 DEF Finished
  <2>2. Body' = Body /\ pc' = pc /\ p' = p /\ errors' = errors /\ code' = code /\ prog' = prog
        /\ insert' = insert /\ i' = i /\ type' = type /\ fn_name' = fn_name
    BY <2>1 DEF vars, checkVars, Body
  <2>3. Place' = Place
    BY <2>2 DEF Place
  <2> QED
    BY <2>2, <2>3 DEF VerdictInv
<1>2. CASE SemanticPass
  BY <1>2, SemanticVerdict
<1>3. CASE skip \/ emit_statement \/ emit_return \/ emit_jump \/ emit_if \/ emit_else \/ emit_if_end
             \/ emit_whileloop \/ emit_while_end
  BY <1>3, EmitVerdict
<1>4. CASE emit_function
  <2>1. pc = "codegen" /\ pc' \in {"verify", "aborted"} /\ prog' = prog /\ type' = type
    BY <1>4 DEF emit_function, Semantic, checkVars
  <2> QED
    BY <2>1 DEF VerdictInv
<1>5. CASE verifyModule
  <2>1. pc = "verify" /\ pc' \in {"run", "invalid"} /\ prog' = prog /\ type' = type /\ Body' = Body
    BY <1>5 DEF verifyModule, Semantic, checkVars, Body
  <2>2. pc' = "run" => Place' \in Reached(Body)
    <3>1. IsBody(Body)
      BY BodyNow DEF CodeInv
    <3> QED
      BY <1>5, <3>1, StartsRunning, ReachedClosed
  <2> QED
    BY <2>1, <2>2 DEF VerdictInv
<1>6. CASE Run
  BY <1>6, RunVerdict
<1> QED
  BY <1>1, <1>2, <1>3, <1>4, <1>5, <1>6 DEF Next, Compile

\* The type of the prototype is that of the result.
LEMMA ReturnTypeIs ==
  ASSUME CodeInv, Accepted(prog), type = TypeFound(prog)
  PROVE  ReturnType = ir_type(ResultType(prog))
<1>1. prog \in Functions
  BY DEF CodeInv, TypeOK
<1>2. ResultType(prog) = IF type = NoType THEN Scalar("VOID") ELSE type
  BY <1>1, ResultFound DEF Accepted
<1> QED
  BY <1>2 DEF ReturnType

\* The return behind the last statement has no type it could be of.
NoFallback(F) ==
  /\ IrKind(ir_type(ResultType(F))) \notin {"integer", "void"}
  /\ F.body # << >> => F.body[Len(F.body)].k # "ret"

\* emit_function gives up for a result that is not an integer, if no return is last.
LEMMA AbortsFor ==
  ASSUME CodeInv, TextInv, VerdictInv, emit_function, pc' = "aborted"
  PROVE  NoFallback(prog)
<1>1. pc = "codegen" /\ ~AtToken /\ ~blockTerminated /\ IrKind(ReturnType) \notin {"void", "integer"}
  BY DEF emit_function
<1>2. Accepted(prog) /\ type = TypeFound(prog)
  BY <1>1 DEF VerdictInv
<1>3. p = Len(Body) + 1 /\ Len(Body) \in Nat
  <2>1. p \in 1 .. Len(Body) + 1 /\ Len(Body) \in Nat
    BY <1>1, AtCodegen, BodyNow DEF CodeInv
  <2> QED
    BY <1>1, <2>1 DEF AtToken
<1>4. ASSUME Body # << >>
      PROVE  Body[Len(Body)].k # "ret"
  <2>1. Len(Body) # 0
    <3>1. Body \in Seq(BodyTokens)
      BY FunctionConstants, Zenon DEF CodeInv, TypeOK, Body
    <3> QED
      BY <1>4, <3>1
  <2>2. p > 1 /\ p - 1 = Len(Body)
    BY <1>3, <2>1
  <2> QED
    BY <1>1, <2>2 DEF VerdictInv, blockTerminated, IsOpen
<1>5. ReturnType = ir_type(ResultType(prog))
  BY <1>2, ReturnTypeIs
<1> QED
  BY <1>1, <1>4, <1>5 DEF NoFallback, Body

\* What is returned is of another width.
Unlike(F) ==
  \E q \in Returns(F.body) : ir_type(Typed(F.body[q].value, F.ret)) # ir_type(ResultType(F))

\* The verifier refuses what returns another type than the function has.
LEMMA InvalidFor ==
  ASSUME CodeInv, TextInv, VerdictInv, verifyModule, pc' = "invalid"
  PROVE  Unlike(prog)
<1>1. pc = "verify" /\ ~(\A b \in DOMAIN code : code[b].term # NoTerminator /\ Valid(b))
  BY DEF verifyModule
<1>2. \A b \in DOMAIN code : ~IsOpen(code, b)
  BY <1>1 DEF CodeInv, EmitInv
<1>3. PICK b \in DOMAIN code : ~Valid(b)
  BY <1>1, <1>2 DEF IsOpen
<1> DEFINE t == code[b].term
<1>4. t.op = "ret" /\ t.q # Bottom(Body) /\ ValueType(t.q) # ReturnType
  BY <1>3 DEF Valid
<1>5. t.q \in DOMAIN Body /\ Body[t.q].k = "ret"
  BY <1>2, <1>4 DEF TextInv, BlocksFollow, FlowsOn
<1>6. t.q \in Returns(prog.body)
  <2>1. prog \in Functions
    BY DEF CodeInv, TypeOK
  <2> HIDE DEF t
  <2> QED
    BY <1>5, <2>1, ValueFacts DEF Returns, Body
<1>7. ReturnType = ir_type(ResultType(prog))
  BY <1>1, ReturnTypeIs DEF VerdictInv
<1> QED
  BY <1>4, <1>6, <1>7 DEF Unlike, ValueType, Body

\* What it takes runs from the first statement, and is acceptable or misjudged.
LEMMA RunsFor ==
  ASSUME CodeInv, TextInv, VerdictInv, verifyModule, pc' = "run"
  PROVE  /\ JumpsInLoops(Body) /\ (RightReturns(prog) \/ Mixed(prog))
         /\ AlwaysReturns(prog) \/ ~Distrusts(Body)
         /\ Place' = Here(Body, 1)
<1>1. pc = "verify" /\ prog \in Functions
  BY DEF verifyModule, CodeInv, TypeOK
<1>2. Accepted(prog) /\ JumpsInLoops(Body)
  BY <1>1 DEF VerdictInv, TextInv
<1> QED
  BY <1>1, <1>2, ResultFound, StartsRunning DEF Accepted, Body

-----------------------------------------------------------------------------
(* The promise's text is the code's *)

\* What is counted is the same,
LEMMA SameCardinality ==
  ASSUME NEW S
  PROVE  Promise!Cardinality(S) = Cardinality(S)
BY Zenon DEF Promise!Cardinality, Cardinality

\* and what opens a construct,
LEMMA SameOpens ==
  ASSUME NEW P, NEW q
  PROVE  Promise!Opens(P, q) = Opens(P, q)
BY DEF Promise!Opens, Opens, Promise!Openers, Openers

\* how deep a token is,
LEMMA SameLevel ==
  ASSUME NEW P, NEW q
  PROVE  Promise!Level(P, q) = Level(P, q)
<1>1. /\ {o \in 1 .. q - 1 : Promise!Opens(P, o)} = {o \in 1 .. q - 1 : Opens(P, o)}
  BY SameOpens
<1> QED
  BY <1>1, SameCardinality, Zenon DEF Promise!Level, Level

\* what closes a construct,
LEMMA SameCloses ==
  ASSUME NEW P, NEW q, NEW r
  PROVE  /\ Promise!Closes(P, q, r) = Closes(P, q, r)
         /\ Promise!Bottom(P) = Bottom(P) /\ Promise!Positions(P) = Positions(P)
<1>1. \A x : Promise!Level(P, x) = Level(P, x)
  BY SameLevel
<1>2. Promise!Closes(P, q, r) = Closes(P, q, r)
  BY <1>1, SMT DEF Promise!Closes, Closes
<1> QED
  BY <1>2 DEF Promise!Bottom, Bottom, Promise!Positions, Positions

\* where it ends,
LEMMA SameEnd ==
  ASSUME NEW P, NEW q
  PROVE  Promise!End(P, q) = End(P, q)
<1>1. \A r : Promise!Closes(P, q, r) = Closes(P, q, r)
  BY SameCloses
<1> QED
  BY <1>1, Zenon DEF Promise!End, End

\* what is inside,
LEMMA SameWithin ==
  ASSUME NEW P, NEW q, NEW r
  PROVE  Promise!Within(P, q, r) = Within(P, q, r)
<1>1. Promise!End(P, r) = End(P, r) /\ Promise!Opens(P, r) = Opens(P, r)
  BY SameEnd, SameOpens
<1> QED
  BY <1>1, SMT DEF Promise!Within, Within

\* whose else or end a token is,
LEMMA SameConstruct ==
  ASSUME NEW P, NEW q
  PROVE  Promise!Construct(P, q) = Construct(P, q)
<1> DEFINE A(o) == Promise!Opens(P, o) /\ Promise!Level(P, o) + 1 = Promise!Level(P, q) /\ q <= Promise!End(P, o)
  B(o) == Opens(P, o) /\ Level(P, o) + 1 = Level(P, q) /\ q <= End(P, o)
<1>1. \A o : A(o) = B(o)
  BY SameLevel, SameEnd, SameOpens
<1>2. Promise!Construct(P, q) = CHOOSE o \in 1 .. q - 1 : A(o)
  BY Zenon DEF Promise!Construct
<1>3. Construct(P, q) = CHOOSE o \in 1 .. q - 1 : B(o)
  BY Zenon DEF Construct
<1> HIDE DEF A, B
<1> QED
  BY <1>1, <1>2, <1>3

\* which loop is around it,
LEMMA SameLoop ==
  ASSUME NEW P, NEW q
  PROVE  Promise!Loop(P, q) = Loop(P, q)
<1> DEFINE A == {o \in 1 .. q - 1 : P[o].k = "while" /\ Promise!Within(P, q, o)}
  B == {o \in 1 .. q - 1 : P[o].k = "while" /\ Within(P, q, o)}
<1>1. A = B
  BY SameWithin
<1>2. Promise!Loop(P, q) = IF A = {} THEN 0 ELSE CHOOSE o \in A : \A r \in A : r <= o
  BY Zenon DEF Promise!Loop
<1>3. Loop(P, q) = IF B = {} THEN 0 ELSE CHOOSE o \in B : \A r \in B : r <= o
  BY Zenon DEF Loop
<1> HIDE DEF A, B
<1> QED
  BY <1>1, <1>2, <1>3, Zenon

\* and where the else is.
LEMMA SameElse ==
  ASSUME NEW P, NEW q
  PROVE  Promise!Else(P, q) = Else(P, q)
<1> DEFINE A == {r \in q + 1 .. Promise!End(P, q) : P[r].k = "else" /\ Promise!Level(P, r) = Promise!Level(P, q) + 1}
  B == {r \in q + 1 .. End(P, q) : P[r].k = "else" /\ Level(P, r) = Level(P, q) + 1}
<1>1. A = B
  BY SameLevel, SameEnd
<1>2. Promise!Else(P, q) = IF A = {} THEN 0 ELSE CHOOSE o \in A : TRUE
  BY Zenon DEF Promise!Else
<1>3. Else(P, q) = IF B = {} THEN 0 ELSE CHOOSE o \in B : TRUE
  BY Zenon DEF Else
<1> HIDE DEF A, B
<1> QED
  BY <1>1, <1>2, <1>3, Zenon

\* Control is at the same place,
LEMMA SameHere ==
  ASSUME NEW P, NEW q
  PROVE  Promise!Here(P, q) = Here(P, q)
<1>1. \A x : Promise!End(P, x) = End(P, x) /\ Promise!Construct(P, x) = Construct(P, x)  /\ Promise!Loop(P, x) = Loop(P, x)
  BY SameEnd, SameConstruct, SameLoop
<1>2. Promise!Bottom(P) = Bottom(P)
  BY SameCloses
<1> DEFINE
      rule1(at, x) == IF x = Promise!Bottom(P) THEN x
        ELSE CASE P[x].k = "else" -> at[Promise!End(P, Promise!Construct(P, x)) + 1]
               [] P[x].k = "end" -> IF P[Promise!Construct(P, x)].k = "while" THEN Promise!Construct(P, x) ELSE at[x + 1]
               [] P[x].k = "break" /\ Promise!Loop(P, x) # 0 -> at[Promise!End(P, Promise!Loop(P, x)) + 1]
               [] P[x].k = "continue" /\ Promise!Loop(P, x) # 0 -> Promise!Loop(P, x)
               [] OTHER -> x
      rule2(at, x) == IF x = Bottom(P) THEN x
        ELSE CASE P[x].k = "else" -> at[End(P, Construct(P, x)) + 1]
               [] P[x].k = "end" -> IF P[Construct(P, x)].k = "while" THEN Construct(P, x) ELSE at[x + 1]
               [] P[x].k = "break" /\ Loop(P, x) # 0 -> at[End(P, Loop(P, x)) + 1]
               [] P[x].k = "continue" /\ Loop(P, x) # 0 -> Loop(P, x)
               [] OTHER -> x
      f1 == CHOOSE f : f = [x \in 1 .. Promise!Bottom(P) |-> rule1(f, x)]
      f2 == CHOOSE f : f = [x \in 1 .. Bottom(P) |-> rule2(f, x)]
<1>3. \A f, x : rule1(f, x) = rule2(f, x)
  BY <1>1, <1>2
<1>4. Promise!Here(P, q) = f1[q]
  BY Zenon DEF Promise!Here
<1>5. Here(P, q) = f2[q]
  BY Zenon DEF Here
<1> HIDE DEF rule1, rule2
<1>6. \A f : [x \in 1 .. Promise!Bottom(P) |-> rule1(f, x)] = [x \in 1 .. Bottom(P) |-> rule2(f, x)]
  BY <1>2, <1>3
<1>7. f1 = f2
  BY <1>6
<1> QED
  BY <1>4, <1>5, <1>7

\* goes the same ways at a condition,
LEMMA SameBranches ==
  ASSUME NEW P, NEW q
  PROVE  Promise!Branches(P, q) = Branches(P, q)
<1>1. Promise!Here(P, q + 1) = Here(P, q + 1) /\ Promise!Else(P, q) = Else(P, q) /\ Promise!End(P, q) = End(P, q)
  BY SameHere, SameElse, SameEnd
<1>2. Promise!IfTrue(P, q) = IfTrue(P, q)
  BY <1>1 DEF Promise!IfTrue, IfTrue
<1>3. Promise!IfFalse(P, q) = IfFalse(P, q)
  BY <1>1, SameHere DEF Promise!IfFalse, IfFalse
<1> QED
  BY <1>2, <1>3, Zenon DEF Promise!Branches, Branches

\* and everywhere else,
LEMMA SameSuccessors ==
  ASSUME NEW P, NEW q
  PROVE  Promise!Successors(P, q) = Successors(P, q)
<1>1. Promise!Here(P, q + 1) = Here(P, q + 1) /\ Promise!Else(P, q) = Else(P, q) /\ Promise!End(P, q) = End(P, q)
      /\ Promise!Bottom(P) = Bottom(P) /\ Promise!Branches(P, q) = Branches(P, q)
  BY SameHere, SameElse, SameEnd, SameCloses, SameBranches
<1>2. Promise!IfTrue(P, q) = IfTrue(P, q)
  BY <1>1 DEF Promise!IfTrue, IfTrue
<1>3. Promise!IfFalse(P, q) = IfFalse(P, q)
  BY <1>1, SameHere DEF Promise!IfFalse, IfFalse
<1> QED
  BY <1>1, <1>2, <1>3, Zenon DEF Promise!Successors, Successors

\* and reaches the same positions.
LEMMA SameReached ==
  ASSUME NEW P
  PROVE  Promise!Reached(P) = Reached(P)
<1>1. \A x : Promise!Successors(P, x) = Successors(P, x)
  BY SameSuccessors
<1>2. Promise!Here(P, 1) = Here(P, 1)
  BY SameHere
<1> DEFINE
      rule1(w, n) == IF n = 0 THEN {Promise!Here(P, 1)}
                     ELSE w[n - 1] \cup UNION {Promise!Successors(P, x) : x \in w[n - 1]}
      rule2(w, n) == IF n = 0 THEN {Here(P, 1)}
                     ELSE w[n - 1] \cup UNION {Successors(P, x) : x \in w[n - 1]}
      f1 == CHOOSE f : f = [n \in 0 .. Len(P) + 1 |-> rule1(f, n)]
      f2 == CHOOSE f : f = [n \in 0 .. Len(P) + 1 |-> rule2(f, n)]
<1>3. \A f, n : rule1(f, n) = rule2(f, n)
  BY <1>1, <1>2
<1>4. Promise!Reached(P) = f1[Len(P) + 1]
  BY Zenon DEF Promise!Reached
<1>5. Reached(P) = f2[Len(P) + 1]
  BY Zenon DEF Reached
<1> HIDE DEF rule1, rule2
<1>6. \A f : [n \in 0 .. Len(P) + 1 |-> rule1(f, n)] = [n \in 0 .. Len(P) + 1 |-> rule2(f, n)]
  BY <1>3
<1>7. f1 = f2
  BY <1>6
<1> QED
  BY <1>4, <1>5, <1>7

\* Types compare and convert in the same way,
LEMMA SameFacts ==
  ASSUME NEW a, NEW b
  PROVE  /\ Promise!NoType = NoType /\ Promise!NoValue = NoValue /\ Promise!Scalar(a) = Scalar(a)
         /\ Promise!is_numeric(a) = is_numeric(a) /\ Promise!types_are_equal(a, b) = types_are_equal(a, b)
         /\ Promise!ir_type(a) = ir_type(a) /\ Promise!IrKind(a) = IrKind(a)
         /\ Promise!Typed(a, b) = Typed(a, b)
<1>1. Promise!Numeric = Numeric
  BY DEF Promise!Numeric, Numeric, Promise!Signed, Signed, Promise!Floats, Floats
<1>2. \A x : Promise!Scalar(x) = Scalar(x)
  BY DEF Promise!Scalar, Scalar
<1>3. \A x : Promise!is_numeric(x) = is_numeric(x)
  BY <1>1 DEF Promise!is_numeric, is_numeric
<1>4. Promise!NoType = NoType
  BY <1>2 DEF Promise!NoType, NoType
<1>5. Promise!NoValue = NoValue
  BY <1>4 DEF Promise!NoValue, NoValue
<1>6. Promise!types_are_equal(a, b) = types_are_equal(a, b)
  BY <1>3, Zenon DEF Promise!types_are_equal, types_are_equal
<1>7. Promise!ir_type(a) = ir_type(a) /\ Promise!IrKind(a) = IrKind(a)
  BY Zenon DEF Promise!ir_type, ir_type, Promise!IrKind, IrKind
<1>8. \A t, w : Promise!force_numeric_type(a, t, w) = force_numeric_type(a, t, w)
  BY <1>2, <1>3 DEF Promise!force_numeric_type, force_numeric_type
<1>9. \A t, w : Promise!handle_num(a, t, w) = handle_num(a, t, w)
  <2>1. ASSUME NEW t, NEW w PROVE Promise!handle_num(a, t, w) = handle_num(a, t, w)
    <3>1. Promise!is_numeric(w) = is_numeric(w) /\ Promise!Scalar(w.inner) = Scalar(w.inner)
          /\ Promise!Scalar(IF a.literal = "float" THEN "F32" ELSE "I32") = Scalar(IF a.literal = "float" THEN "F32" ELSE "I32")
      BY <1>2, <1>3
    <3> DEFINE A == a.literal = "none" \/ t.base # "UNKNOWN"
               B == w.base \in {"LIST", "PTR"} /\ w.inner \in Numeric
               C == is_numeric(w)
               x == Scalar(w.inner)
               y == Scalar(IF a.literal = "float" THEN "F32" ELSE "I32")
               D1 == w.base \in {"LIST", "PTR"} /\ w.inner \in Promise!Numeric
               E1 == Promise!is_numeric(w)
               x1 == Promise!Scalar(w.inner)
               y1 == Promise!Scalar(IF a.literal = "float" THEN "F32" ELSE "I32")
    <3>2. handle_num(a, t, w) = IF A THEN t ELSE CASE B -> x [] C -> w [] OTHER -> y
      BY Zenon DEF handle_num
    <3>3. Promise!handle_num(a, t, w) = IF A THEN t ELSE CASE D1 -> x1 [] E1 -> w [] OTHER -> y1
      BY Zenon DEF Promise!handle_num
    <3>4. B = D1 /\ C = E1 /\ x = x1 /\ y = y1
      BY <1>1, <3>1
    <3>5. ~(B /\ C) /\ B \in BOOLEAN /\ C \in BOOLEAN
      BY DEF is_numeric, Numeric, Signed, Floats
    <3>6. ~(D1 /\ E1)
      BY <3>4, <3>5, Zenon
    <3> HIDE DEF A, B, C, x, y, D1, E1, x1, y1
    <3>7. CASE B
      <4>1. ~C /\ D1 /\ ~E1
        BY <3>4, <3>5, <3>6, <3>7, Zenon
      <4> QED
        BY <3>2, <3>3, <3>4, <3>7, <4>1, Zenon
    <3>8. CASE ~B /\ C
      <4>1. ~D1 /\ E1
        BY <3>4, <3>5, <3>6, <3>8, Zenon
      <4> QED
        BY <3>2, <3>3, <3>4, <3>8, <4>1, Zenon
    <3>9. CASE ~B /\ ~C
      <4>1. ~D1 /\ ~E1
        BY <3>4, <3>5, <3>6, <3>9, Zenon
      <4> QED
        BY <3>2, <3>3, <3>4, <3>9, <4>1, Zenon
    <3> QED
      BY <3>7, <3>8, <3>9, Zenon
  <2> QED
    BY <2>1
<1>10. Promise!Typed(a, b) = Typed(a, b)
  BY <1>8, <1>9, Zenon DEF Promise!Typed, Typed, Promise!check_expr, check_expr
<1> QED
  BY <1>2, <1>3, <1>4, <1>5, <1>6, <1>7, <1>10

\* functions have the same results,
LEMMA SameResult ==
  ASSUME NEW F
  PROVE  /\ Promise!Returns(F.body) = Returns(F.body) /\ Promise!Undeclared(F) = Undeclared(F)
         /\ Promise!ResultType(F) = ResultType(F) /\ Promise!HasResult(F) = HasResult(F)
<1>1. \A P : Promise!Returns(P) = Returns(P)
  BY SameCloses DEF Promise!Returns, Returns
<1>2. Promise!Undeclared(F) = Undeclared(F)
  BY SameFacts DEF Promise!Undeclared, Undeclared
<1>3. Promise!FirstReturn(F) = FirstReturn(F)
  BY <1>1, Zenon DEF Promise!FirstReturn, FirstReturn
<1>4. \A x, y : Promise!Typed(x, y) = Typed(x, y) /\ Promise!NoType = NoType /\ Promise!Scalar(x) = Scalar(x)
  BY SameFacts
<1>5. Promise!ResultType(F) = ResultType(F)
  BY <1>1, <1>2, <1>3, <1>4, Zenon DEF Promise!ResultType, ResultType
<1> QED
  BY <1>1, <1>2, <1>5 DEF Promise!HasResult, HasResult

\* and are acceptable for the same reasons.
LEMMA SameAcceptable ==
  ASSUME NEW F
  PROVE  /\ Promise!JumpsInLoops(F.body) = JumpsInLoops(F.body)
         /\ Promise!RightReturns(F) = RightReturns(F) /\ Promise!AlwaysReturns(F) = AlwaysReturns(F)
         /\ Promise!Acceptable(F) = Acceptable(F)
<1>1. Promise!JumpsInLoops(F.body) = JumpsInLoops(F.body)
  BY SameCloses, SameLoop DEF Promise!JumpsInLoops, JumpsInLoops
<1>2. \A x, y : Promise!Typed(x, y) = Typed(x, y) /\ Promise!types_are_equal(x, y) = types_are_equal(x, y) /\ Promise!NoValue = NoValue
  BY SameFacts
<1>3. \A q : Promise!RightReturn(F, q) = RightReturn(F, q)
  <2>1. ASSUME NEW q PROVE Promise!RightReturn(F, q) = RightReturn(F, q)
    <3> DEFINE v == F.body[q].value
    <3>1. Promise!HasResult(F) = HasResult(F) /\ Promise!ResultType(F) = ResultType(F)
      BY SameResult
    <3>2. Promise!Typed(v, ResultType(F)) = Typed(v, ResultType(F))
      BY <1>2
    <3>3. Promise!types_are_equal(Typed(v, ResultType(F)), ResultType(F)) = types_are_equal(Typed(v, ResultType(F)), ResultType(F))
      BY <1>2
    <3>4. Promise!NoValue = NoValue
      BY <1>2
    <3> QED
      BY <3>1, <3>2, <3>3, <3>4, Zenon DEF Promise!RightReturn, RightReturn
  <2> QED
    BY <2>1
<1>4. Promise!RightReturns(F) = RightReturns(F)
  BY <1>3, SameResult DEF Promise!RightReturns, RightReturns
<1>5. Promise!FallsOff(F.body) = FallsOff(F.body)
  BY SameCloses, SameReached DEF Promise!FallsOff, FallsOff
<1>6. Promise!AlwaysReturns(F) = AlwaysReturns(F)
  BY <1>5, SameResult DEF Promise!AlwaysReturns, AlwaysReturns
<1> QED
  BY <1>1, <1>4, <1>6 DEF Promise!Acceptable, Acceptable
-----------------------------------------------------------------------------
(* What is misjudged *)


\* What the promise lists as misjudged, in the terms of the invariants.
LEMMA SameMisjudged ==
  ASSUME prog \in Functions
  PROVE  /\ Promise!TrustsLetter <=> ~Distrusts(Body)
         /\ Promise!OneArmed <=> \E x \in DOMAIN Body : Armed(Body, x)
         /\ Promise!NoLetter <=>
              \E x \in DOMAIN Body : Body[x].k = "if" /\ Loop(Body, x) = 0 /\ Body[x].cond = "operation"
         /\ Promise!MixedReturns <=> Mixed(prog)
         /\ Promise!OtherWidth <=> Unlike(prog)
         /\ Promise!NoInteger <=> NoFallback(prog)
<1>1. /\ Promise!P = Body /\ Body = prog.body
      /\ Promise!Positions(Body) = DOMAIN Body
  BY SameCloses, ValueFacts DEF Promise!P, Body
<1>2. \A x : Promise!OutsideLoops(x) <=> Body[x].k = "if" /\ Loop(Body, x) = 0
  BY <1>1, SameLoop DEF Promise!OutsideLoops
<1>3. Promise!TrustsLetter <=> ~Distrusts(Body)
  BY <1>1, <1>2 DEF Promise!TrustsLetter, Distrusts
<1>4. Promise!NoLetter <=>
        \E x \in DOMAIN Body : Body[x].k = "if" /\ Loop(Body, x) = 0 /\ Body[x].cond = "operation"
  BY <1>1, <1>2 DEF Promise!NoLetter
<1>5. Promise!OneArmed <=> \E x \in DOMAIN Body : Armed(Body, x)
  <2>1. \A r : Promise!CountsAsReturn(r) <=> Counts(Body, r)
    BY <1>1, <1>2 DEF Promise!CountsAsReturn, Counts
  <2>2. \A x, r : /\ Promise!Within(Body, r, x) = Within(Body, r, x)
                  /\ Promise!Else(Body, x) = Else(Body, x)
                  /\ Promise!Here(Body, Promise!End(Body, x)) = Here(Body, End(Body, x))
                  /\ Promise!Successors(Body, r) = Successors(Body, r)
    BY SameWithin, SameElse, SameEnd, SameHere, SameSuccessors
  <2>3. Promise!Reached(Body) = Reached(Body)
    BY SameReached
  <2>4. ASSUME NEW x \in DOMAIN Body
        PROVE  (\E r \in DOMAIN Body : Promise!CountsAsReturn(r) /\ Promise!Within(Body, r, x))
               <=> (\E r \in DOMAIN Body : Counts(Body, r) /\ Within(Body, r, x))
    BY <2>1, <2>2
  <2>5. ASSUME NEW x \in DOMAIN Body
        PROVE  (\E y \in Promise!Reached(Body) :
                  (y = x \/ Promise!Within(Body, y, x))
                  /\ Promise!Here(Body, Promise!End(Body, x)) \in Promise!Successors(Body, y))
               <=> (\E y \in Reached(Body) :
                      (y = x \/ Within(Body, y, x)) /\ Here(Body, End(Body, x)) \in Successors(Body, y))
    BY <2>2, <2>3
  <2>6. ASSUME NEW x \in DOMAIN Body
        PROVE  Armed(Body, x) <=>
               /\ Promise!OutsideLoops(x) /\ Promise!Else(Body, x) # 0
               /\ \E r \in DOMAIN Body : Promise!CountsAsReturn(r) /\ Promise!Within(Body, r, x)
               /\ \E y \in Promise!Reached(Body) :
                    (y = x \/ Promise!Within(Body, y, x))
                    /\ Promise!Here(Body, Promise!End(Body, x)) \in Promise!Successors(Body, y)
    BY <1>2, <2>2, <2>4, <2>5, Zenon DEF Armed
  <2>7. Promise!OneArmed <=>
          \E x \in DOMAIN Body :
               /\ Promise!OutsideLoops(x) /\ Promise!Else(Body, x) # 0
               /\ \E r \in DOMAIN Body : Promise!CountsAsReturn(r) /\ Promise!Within(Body, r, x)
               /\ \E y \in Promise!Reached(Body) :
                    (y = x \/ Promise!Within(Body, y, x))
                    /\ Promise!Here(Body, Promise!End(Body, x)) \in Promise!Successors(Body, y)
    BY <1>1, Zenon DEF Promise!OneArmed
  <2> QED
    BY <2>6, <2>7, Zenon
<1>6. Promise!MixedReturns <=> Mixed(prog)
  <2>1. Promise!Undeclared(prog) = Undeclared(prog) /\ Promise!Returns(Body) = Returns(Body) /\ Promise!NoValue = NoValue
    BY <1>1, SameResult, SameFacts
  <2> QED
    BY <1>1, <2>1 DEF Promise!MixedReturns, Mixed
<1>7. /\ \A x, y : Promise!Typed(x, y) = Typed(x, y) /\ Promise!ir_type(x) = ir_type(x) /\ Promise!IrKind(x) = IrKind(x)
      /\ Promise!ResultType(prog) = ResultType(prog) /\ Promise!Returns(Body) = Returns(Body)
  BY <1>1, SameFacts, SameResult
<1>8. Promise!OtherWidth <=> Unlike(prog)
  BY <1>1, <1>7 DEF Promise!OtherWidth, Unlike
<1>9. Promise!NoInteger <=> NoFallback(prog)
  BY <1>1, <1>7, Zenon DEF Promise!NoInteger, NoFallback
<1> QED
  BY <1>3, <1>4, <1>5, <1>6, <1>8, <1>9

-----------------------------------------------------------------------------
(* Every step is one of the promise's *)

\* Where the promise is.
Where == IF pc \in {"run", "returned"} THEN Position ELSE 0

\* The actions of the promise, in the variables of the code.
LEMMA SameStep ==
  /\ Promise!Init <=> Stage = "text" /\ Where = 0
  /\ Promise!Reject <=> Stage' = "rejected" /\ (~Promise!Acceptable(prog) \/ Promise!OneArmed) /\ Where' = Where
  /\ Promise!Crash <=> Stage' = "crashed" /\ Promise!NoLetter /\ Where' = Where
  /\ Promise!Break <=> Stage' = "broken" /\ (Promise!OtherWidth \/ Promise!NoInteger) /\ Where' = Where
  /\ Promise!Start <=> /\ Stage' = "running"
                       /\ Promise!JumpsInLoops(Promise!P)
                       /\ Promise!RightReturns(prog) \/ Promise!MixedReturns
                       /\ Promise!AlwaysReturns(prog) \/ Promise!TrustsLetter
                       /\ Where' = Promise!Here(Promise!P, 1)
  /\ Promise!Do <=> /\ Where # Promise!Bottom(Promise!P) /\ Promise!P[Where].k = "do"
                    /\ Where' = Promise!Here(Promise!P, Where + 1) /\ Stage' = Stage
  /\ Promise!Decide <=> /\ Where # Promise!Bottom(Promise!P) /\ Promise!P[Where].k \in {"if", "while"}
                        /\ Where' \in Promise!Branches(Promise!P, Where) /\ Stage' = Stage
  /\ Promise!Return <=> /\ Where # Promise!Bottom(Promise!P) /\ Promise!P[Where].k = "ret"
                        /\ Stage' = "returned" /\ Where' = Where
  /\ Promise!FallOff <=> /\ Where = Promise!Bottom(Promise!P)
                         /\ Promise!HasResult(prog) => Promise!TrustsLetter
                         /\ Stage' = "returned" /\ Where' = Where
  /\ Promise!Next <=> /\ \/ Stage = "text" /\ (Promise!Reject \/ Promise!Crash \/ Promise!Break \/ Promise!Start)
                         \/ Stage = "running" /\ (Promise!Decide \/ Promise!Do \/ Promise!Return \/ Promise!FallOff)
                      /\ prog' = prog
  /\ Promise!vars = <<prog, Stage, Where>>
BY DEF Promise!Init, Promise!Reject, Promise!Crash, Promise!Break, Promise!Start, Promise!Do,
   Promise!Decide,
  Promise!Return, Promise!FallOff, Promise!Next, Promise!vars, Where

\* Nothing changes for the promise.
LEMMA StutterIfSame ==
  ASSUME prog' = prog, Stage' = Stage, Where' = Where
  PROVE  UNCHANGED Promise!vars
BY DEF Promise!vars, Where

\* The inductive invariant of the refinement.
FunctionInv == CodeInv /\ TextInv /\ VerdictInv

\* Where control is in the text.
Spot == IF pc \in {"run", "returned"} THEN Place ELSE 0

\* It is where the text says,
LEMMA WhereIsSpot == FunctionInv => Where = Spot
BY PositionIsPlace DEF FunctionInv, Where, Spot

\* in the next state, too.
LEMMA WhereIsSpotNext == FunctionInv' => Where' = Spot'
<1>1. (FunctionInv => Where = Spot)'
  BY WhereIsSpot, PTL
<1> QED
  BY <1>1

\* The stages.
LEMMA StageOf ==
  ASSUME CodeInv
  PROVE  /\ pc \in Compiling \/ pc \in Refused \/ pc = "run" \/ pc = "returned"
         /\ Stage = "text" <=> pc \in Compiling
         /\ Stage = "running" <=> pc = "run"
         /\ pc = "returned" => Stage = "returned"
<1>1. pc \in Compiling \cup Refused \cup {"run", "returned"}
  BY DEF CodeInv, TypeOK
<1> QED
  BY <1>1 DEF Stage, Compiling, Refused

\* Every step is one of the promise's.
LEMMA StepImplements ==
  ASSUME FunctionInv, FunctionInv', [Next]_vars
  PROVE  [Promise!Next]_(Promise!vars)
<1>0. CodeInv /\ TextInv /\ VerdictInv /\ CodeInv' /\ prog \in Functions
  BY DEF FunctionInv, CodeInv, TypeOK
<1>1. Where = Spot /\ Where' = Spot'
  BY WhereIsSpot, WhereIsSpotNext
<1>2. /\ Promise!P = Body /\ \A x : Promise!Here(Body, x) = Here(Body, x)
      /\ Promise!Bottom(Body) = Bottom(Body)
      /\ \A x : Promise!Branches(Body, x) = Branches(Body, x)
  BY SameHere, SameCloses, SameBranches DEF Promise!P, Body
<1>3. /\ Promise!JumpsInLoops(Body) = JumpsInLoops(Body)
      /\ Promise!RightReturns(prog) = RightReturns(prog) /\ Promise!AlwaysReturns(prog) = AlwaysReturns(prog)
      /\ Promise!Acceptable(prog) = Acceptable(prog)
      /\ Promise!HasResult(prog) = HasResult(prog)
  BY SameAcceptable, SameResult DEF Body
<1>4. /\ Promise!TrustsLetter <=> ~Distrusts(Body)
      /\ Promise!OneArmed <=> \E x \in DOMAIN Body : Armed(Body, x)
      /\ Promise!NoLetter <=>
           \E x \in DOMAIN Body : Body[x].k = "if" /\ Loop(Body, x) = 0 /\ Body[x].cond = "operation"
      /\ Promise!MixedReturns <=> Mixed(prog)
      /\ Promise!OtherWidth <=> Unlike(prog)
      /\ Promise!NoInteger <=> NoFallback(prog)
  BY <1>0, SameMisjudged
<1>5. ASSUME pc \in Compiling, pc' \in Compiling, prog' = prog
      PROVE  [Promise!Next]_(Promise!vars)
  <2>1. Stage = "text" /\ Stage' = "text"
    BY <1>5 DEF Stage, Compiling
  <2>2. Spot = 0 /\ Spot' = 0
    BY <1>5 DEF Spot, Compiling
  <2> QED
    BY <1>1, <1>5, <2>1, <2>2, StutterIfSame
<1>6. CASE UNCHANGED vars \/ Finished
  <2>1. UNCHANGED vars
    BY <1>6 DEF Finished
  <2>2. Stage' = Stage /\ Spot' = Spot /\ prog' = prog
    BY <2>1 DEF vars, Stage, Spot, Place, Body
  <2> QED
    BY <1>1, <2>2, StutterIfSame
<1>7. CASE handle_fn
  <2>1. pc = "check" /\ prog' = prog
    BY <1>7 DEF handle_fn
  <2>2. Stage = "text" /\ Spot = 0
    BY <2>1 DEF Stage, Spot, Compiling
  <2>3. \/ /\ pc' = "crashed"
           /\ \E x \in DOMAIN Body : Body[x].k = "if" /\ Loop(Body, x) = 0 /\ Body[x].cond = "operation"
        \/ /\ pc' = "rejected"
           /\ ~Acceptable(prog) \/ \E x \in DOMAIN Body : Armed(Body, x)
        \/ pc' = "codegen"
    BY <1>0, <1>7, HandleFnSays
  <2>4. CASE pc' = "codegen"
    BY <1>5, <2>1, <2>4 DEF Compiling
  <2>5. CASE /\ pc' = "crashed"
             /\ \E x \in DOMAIN Body : Body[x].k = "if" /\ Loop(Body, x) = 0 /\ Body[x].cond = "operation"
    <3>1. Stage' = "crashed" /\ Spot' = 0
      BY <2>5 DEF Stage, Spot, Compiling
    <3>2. Promise!Crash
      BY <1>1, <1>4, <2>2, <2>5, <3>1, SameStep
    <3> QED
      BY <2>1, <2>2, <3>2, SameStep
  <2>6. CASE /\ pc' = "rejected"
             /\ ~Acceptable(prog) \/ \E x \in DOMAIN Body : Armed(Body, x)
    <3>1. Stage' = "rejected" /\ Spot' = 0
      BY <2>6 DEF Stage, Spot, Compiling
    <3>2. Promise!Reject
      BY <1>1, <1>3, <1>4, <2>2, <2>6, <3>1, SameStep
    <3> QED
      BY <2>1, <2>2, <3>2, SameStep
  <2> QED
    BY <2>3, <2>4, <2>5, <2>6
<1>8. CASE emit_function
  <2>1. pc = "codegen" /\ prog' = prog /\ pc' \in {"verify", "aborted"}
    BY <1>8 DEF emit_function
  <2>2. Stage = "text" /\ Spot = 0
    BY <2>1 DEF Stage, Spot, Compiling
  <2>3. CASE pc' = "verify"
    BY <1>5, <2>1, <2>3 DEF Compiling
  <2>4. CASE pc' = "aborted"
    <3>1. Stage' = "broken" /\ Spot' = 0
      BY <2>4 DEF Stage, Spot, Compiling
    <3>2. NoFallback(prog)
      BY <1>0, <1>8, <2>4, AbortsFor
    <3>3. Promise!Break
      BY <1>1, <1>4, <2>2, <3>1, <3>2, SameStep
    <3> QED
      BY <2>1, <2>2, <3>3, SameStep
  <2> QED
    BY <2>1, <2>3, <2>4
<1>9. CASE verifyModule
  <2>1. pc = "verify" /\ prog' = prog /\ pc' \in {"run", "invalid"}
    BY <1>9 DEF verifyModule
  <2>2. Stage = "text" /\ Spot = 0
    BY <2>1 DEF Stage, Spot, Compiling
  <2>3. CASE pc' = "run"
    <3>1. Stage' = "running" /\ Spot' = Place'
      BY <2>3 DEF Stage, Spot, Compiling
    <3>2. /\ JumpsInLoops(Body) /\ (RightReturns(prog) \/ Mixed(prog))
          /\ AlwaysReturns(prog) \/ ~Distrusts(Body)
          /\ Place' = Here(Body, 1)
      BY <1>0, <1>9, <2>3, RunsFor
    <3>3. Where' = Promise!Here(Promise!P, 1) /\ Promise!JumpsInLoops(Promise!P)
      BY <1>1, <1>2, <1>3, <3>1, <3>2
    <3>4. Promise!Start
      BY <1>3, <1>4, <3>1, <3>2, <3>3, SameStep
    <3> QED
      BY <2>1, <2>2, <3>4, SameStep
  <2>4. CASE pc' = "invalid"
    <3>1. Stage' = "broken" /\ Spot' = 0
      BY <2>4 DEF Stage, Spot, Compiling
    <3>2. Unlike(prog)
      BY <1>0, <1>9, <2>4, InvalidFor
    <3>3. Promise!Break
      BY <1>1, <1>4, <2>2, <3>1, <3>2, SameStep
    <3> QED
      BY <2>1, <2>2, <3>3, SameStep
  <2> QED
    BY <2>1, <2>3, <2>4
<1>10. CASE SemanticPass /\ ~handle_fn
  <2>1. pc = "check" /\ pc' = pc /\ prog' = prog
    BY <1>10 DEF SemanticPass, check_if, check_while_loop, check_end, check_statement,
       check_unconditional_branches, ret, Check, Forward
  <2> QED
    BY <1>5, <2>1 DEF Compiling
<1>11. CASE \/ skip \/ emit_statement \/ emit_return \/ emit_jump \/ emit_if \/ emit_else \/ emit_if_end
            \/ emit_whileloop \/ emit_while_end
  <2>1. pc = "codegen" /\ pc' = pc /\ prog' = prog
    BY <1>11 DEF skip, emit_statement, emit_return, emit_jump, emit_if, emit_else, emit_if_end,
       emit_whileloop, emit_while_end, AtStatement, AtPart, Forward
  <2> QED
    BY <1>5, <2>1 DEF Compiling
<1>12. CASE Run
  <2> DEFINE at == Place
  <2>1. /\ pc = "run" /\ Place \in 1 .. Bottom(Body) /\ prog' = prog
        /\ \/ pc' = "run" /\ Place' = Place
           \/ /\ pc' = "run" /\ Place \in DOMAIN Body /\ Body[Place].k = "do"
              /\ Place' = Here(Body, Place + 1)
           \/ /\ pc' = "run" /\ Place \in DOMAIN Body /\ Body[Place].k \in {"if", "while"}
              /\ Place' \in Branches(Body, Place)
           \/ /\ pc' = "returned" /\ Place' = Place
              /\ Place = Bottom(Body) \/ (Place \in DOMAIN Body /\ Body[Place].k = "ret")
    BY <1>0, <1>12, RunsOn
  <2>2. Stage = "running" /\ Where = Place
    BY <1>1, <2>1 DEF Stage, Spot, Compiling
  <2>3. \A x \in DOMAIN Body : x # Bottom(Body)
    BY <1>0, ValueFacts DEF Body, Bottom
  <2>4. pc' = "run" => Stage' = "running" /\ Where' = Place'
    BY <1>1 DEF Stage, Spot, Compiling
  <2>5. pc' = "returned" => Stage' = "returned" /\ Where' = Place'
    BY <1>1 DEF Stage, Spot, Compiling
  <2>6. CASE pc' = "run" /\ Place' = Place
    BY <2>1, <2>2, <2>4, <2>6, StutterIfSame
  <2>7. CASE /\ pc' = "run" /\ Place \in DOMAIN Body /\ Body[Place].k = "do"
             /\ Place' = Here(Body, Place + 1)
    <3>1. /\ Where # Promise!Bottom(Promise!P) /\ Promise!P[Where].k = "do"
          /\ Where' = Promise!Here(Promise!P, Where + 1) /\ Stage' = Stage
      BY <1>2, <2>2, <2>3, <2>4, <2>7
    <3>2. Promise!Do
      BY <3>1, SameStep
    <3> QED
      BY <2>1, <2>2, <3>2, SameStep
  <2>8. CASE /\ pc' = "run" /\ Place \in DOMAIN Body /\ Body[Place].k \in {"if", "while"}
             /\ Place' \in Branches(Body, Place)
    <3>1. /\ Where # Promise!Bottom(Promise!P) /\ Promise!P[Where].k \in {"if", "while"}
          /\ Where' \in Promise!Branches(Promise!P, Where) /\ Stage' = Stage
      BY <1>2, <2>2, <2>3, <2>4, <2>8
    <3>2. Promise!Decide
      BY <3>1, SameStep
    <3> QED
      BY <2>1, <2>2, <3>2, SameStep
  <2>9. CASE pc' = "returned" /\ Place' = Place /\ Place = Bottom(Body)
    <3>1. Accepted(prog) /\ Place \in Reached(Body)
      BY <1>0, <2>1 DEF VerdictInv
    <3>2. HasResult(prog) => ~Distrusts(Body)
      BY <2>9, <3>1 DEF Accepted, AlwaysReturns, FallsOff, Body
    <3>3. /\ Where = Promise!Bottom(Promise!P)
          /\ Promise!HasResult(prog) => Promise!TrustsLetter
          /\ Stage' = "returned" /\ Where' = Where
      BY <1>2, <1>3, <1>4, <2>2, <2>5, <2>9, <3>2
    <3>4. Promise!FallOff
      BY <3>3, SameStep
    <3> QED
      BY <2>1, <2>2, <3>4, SameStep
  <2>10. CASE pc' = "returned" /\ Place' = Place /\ Place \in DOMAIN Body /\ Body[Place].k = "ret"
    <3>1. /\ Where # Promise!Bottom(Promise!P) /\ Promise!P[Where].k = "ret"
          /\ Stage' = "returned" /\ Where' = Where
      BY <1>2, <2>2, <2>3, <2>5, <2>10
    <3>2. Promise!Return
      BY <3>1, SameStep
    <3> QED
      BY <2>1, <2>2, <3>2, SameStep
  <2> QED
    BY <2>1, <2>6, <2>7, <2>8, <2>9, <2>10
<1> QED
  BY <1>6, <1>7, <1>8, <1>9, <1>10, <1>11, <1>12 DEF Next, Compile

\* The three invariants together are inductive.
LEMMA StepKeepsAll ==
  ASSUME FunctionInv, [Next]_vars
  PROVE  FunctionInv'
BY StepKeeps, StepFollows, StepVerdict DEF FunctionInv

\* At every step the blocks follow the text, what has been found of the returns is true of
\* the text, and execution is where the text may take control (emit_expr's statements,
\* fn_handler.cpp).
THEOREM BlocksFollowText == Spec => []FunctionInv
<1>1. Init => FunctionInv
  BY InitCode, InitFollows, InitVerdict DEF FunctionInv
<1>2. FunctionInv /\ [Next]_vars => FunctionInv'
  BY StepKeepsAll
<1> QED
  BY <1>1, <1>2, PTL DEF Spec

\* A function is rejected for a reason or because it is misjudged, or it runs as its text
\* says and ends at a return if it has a result: code generation and its execution implement
\* the promise, for every set of functions (fn_handler.cpp, helper.cpp's analyze_returns).
THEOREM FunctionsImplementPromise == Spec => ImplementsPromise
<1>1. Spec => []FunctionInv
  BY BlocksFollowText
<1>2. Init => Promise!Init
  <2>1. Init => Stage = "text" /\ Where = 0
    BY DEF Init, CheckInit, Stage, Where, Compiling
  <2> QED
    BY <2>1, SameStep
<1>3. FunctionInv /\ FunctionInv' /\ [Next]_vars => [Promise!Next]_(Promise!vars)
  BY StepImplements
<1> QED
  BY <1>1, <1>2, <1>3, PTL DEF Spec, ImplementsPromise, Promise!Spec

=============================================================================
