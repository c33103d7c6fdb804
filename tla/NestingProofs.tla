---------------------------- MODULE NestingProofs ----------------------------
(***************************************************************************)
(* What the walks over a program rely on, whatever its statements are:     *)
(* how levels change from token to token, and that the handlers that are   *)
(* running are the constructs around the token that is met next.           *)
(***************************************************************************)
EXTENDS Nesting, TLAPS, SequenceTheorems, FiniteSetTheorems, WellFoundedInduction

-----------------------------------------------------------------------------
(* Numbers and sequences *)

LEMMA MaxExists ==
  ASSUME NEW n \in Nat, NEW S, S \subseteq 1 .. n, S # {}
  PROVE  \E i \in S : \A j \in S : j <= i
<1> DEFINE T == {m \in Nat : \E i \in S : m = n - i}
<1>0. \A j \in S : j \in 1 .. n /\ n - j \in T
  OBVIOUS
<1>1. T \subseteq Nat /\ T # {}
  BY <1>0
<1>2. PICK m \in T : \A k \in T : <<k, m>> \notin OpToRel(<, Nat)
  BY <1>1, WFMin, NatLessThanWellFounded, Zenon
<1>3. \A k \in T : ~(k < m)
  BY <1>1, <1>2 DEF OpToRel
<1>4. PICK i \in S : m = n - i
  OBVIOUS
<1>5. \A j \in S : j <= i
  <2> HIDE DEF T
  <2>1. m \in Nat /\ i \in 1 .. n
    BY <1>0, <1>1
  <2> TAKE j \in S
  <2>2. j \in 1 .. n /\ ~(n - j < m)
    BY <1>0, <1>3
  <2> QED
    BY <2>1, <2>2, <1>4
<1> QED
  BY <1>5

LEMMA AllButLast ==
  ASSUME NEW S, NEW s \in Seq(S), s # << >>
  PROVE  /\ Len(s) \in Nat \ {0}
         /\ SubSeq(s, 1, Len(s) - 1) \in Seq(S)
         /\ Len(SubSeq(s, 1, Len(s) - 1)) = Len(s) - 1
         /\ \A i \in 1 .. Len(s) - 1 : SubSeq(s, 1, Len(s) - 1)[i] = s[i]
<1>1. Len(s) \in Nat \ {0} /\ DOMAIN s = 1 .. Len(s)
  OBVIOUS
<1>2. SubSeq(s, 1, Len(s) - 1) = [i \in 1 .. Len(s) - 1 |-> s[i]]
  BY <1>1
<1>3. \A i \in 1 .. Len(s) - 1 : s[i] \in S
  BY <1>1
<1>4. Len(s) - 1 \in Nat
  BY <1>1
<1>5. [i \in 1 .. Len(s) - 1 |-> s[i]] \in [1 .. Len(s) - 1 -> S]
  BY <1>3
<1> QED
  BY <1>1, <1>2, <1>4, <1>5, SeqDef

-----------------------------------------------------------------------------
(* Levels *)

\* How many constructs are open is known from the token before.
LEMMA LevelOfFirst ==
  ASSUME NEW P
  PROVE  Level(P, 1) = 0
<1>1. 1 .. 1 - 1 = {}
  OBVIOUS
<1>2. {q \in {} : Opens(P, q)} = {} /\ {q \in {} : P[q].k = "end"} = {}
  OBVIOUS
<1> QED
  BY <1>1, <1>2, FS_EmptySet DEF Level

LEMMA LevelOfNext ==
  ASSUME NEW P, NEW p \in Nat \ {0}
  PROVE  /\ Level(P, p) \in Int
         /\ Opens(P, p) => Level(P, p + 1) = Level(P, p) + 1
         /\ P[p].k = "end" => Level(P, p + 1) = Level(P, p) - 1
         /\ ~Opens(P, p) /\ P[p].k # "end" => Level(P, p + 1) = Level(P, p)
<1> DEFINE O(n) == {q \in 1 .. n : Opens(P, q)}
           E(n) == {q \in 1 .. n : P[q].k = "end"}
<1>1. \A n \in Nat : /\ IsFiniteSet(O(n)) /\ IsFiniteSet(E(n))
                     /\ Cardinality(O(n)) \in Nat /\ Cardinality(E(n)) \in Nat
  <2> TAKE n \in Nat
  <2>1. IsFiniteSet(1 .. n)
    BY FS_Interval
  <2>2. O(n) \in SUBSET (1 .. n) /\ E(n) \in SUBSET (1 .. n)
    OBVIOUS
  <2>3. IsFiniteSet(O(n)) /\ IsFiniteSet(E(n))
    BY <2>1, <2>2, FS_Subset
  <2> QED
    BY <2>3, FS_CardinalityType
<1>2. p - 1 \in Nat /\ 1 .. p = (1 .. p - 1) \cup {p} /\ p \notin 1 .. p - 1 /\ p + 1 - 1 = p
  OBVIOUS
<1>3. /\ Level(P, p) = Cardinality(O(p - 1)) - Cardinality(E(p - 1))
      /\ Level(P, p + 1) = Cardinality(O(p)) - Cardinality(E(p))
  <2>1. 1 .. (p + 1) - 1 = 1 .. p
    BY <1>2
  <2> QED
    BY <2>1, Zenon DEF Level
<1>4. /\ IF Opens(P, p) THEN O(p) = O(p - 1) \cup {p} ELSE O(p) = O(p - 1)
      /\ IF P[p].k = "end" THEN E(p) = E(p - 1) \cup {p} ELSE E(p) = E(p - 1)
      /\ p \notin O(p - 1) /\ p \notin E(p - 1)
  BY <1>2
<1>5. /\ Cardinality(O(p)) = Cardinality(O(p - 1)) + (IF Opens(P, p) THEN 1 ELSE 0)
      /\ Cardinality(E(p)) = Cardinality(E(p - 1)) + (IF P[p].k = "end" THEN 1 ELSE 0)
  <2> HIDE DEF O, E
  <2>1. /\ Cardinality(O(p - 1) \cup {p}) = Cardinality(O(p - 1)) + 1
        /\ Cardinality(E(p - 1) \cup {p}) = Cardinality(E(p - 1)) + 1
    BY <1>1, <1>2, <1>4, FS_AddElement
  <2>2. Cardinality(O(p - 1)) \in Nat /\ Cardinality(E(p - 1)) \in Nat
    BY <1>1, <1>2
  <2>3. Cardinality(O(p)) = Cardinality(O(p - 1)) + (IF Opens(P, p) THEN 1 ELSE 0)
    <3>1. CASE Opens(P, p)
      BY <3>1, <2>1, <1>4
    <3>2. CASE ~Opens(P, p)
      BY <3>2, <2>2, <1>4
    <3> QED
      BY <3>1, <3>2
  <2>4. Cardinality(E(p)) = Cardinality(E(p - 1)) + (IF P[p].k = "end" THEN 1 ELSE 0)
    <3>1. CASE P[p].k = "end"
      BY <3>1, <2>1, <1>4
    <3>2. CASE P[p].k # "end"
      BY <3>2, <2>2, <1>4
    <3> QED
      BY <3>1, <3>2
  <2> QED
    BY <2>3, <2>4
<1>6. Opens(P, p) => P[p].k # "end"
  BY DEF Opens, Openers
<1>7. Cardinality(O(p - 1)) \in Nat /\ Cardinality(E(p - 1)) \in Nat
  BY <1>1, <1>2
<1> HIDE DEF O, E
<1> QED
  BY <1>3, <1>5, <1>6, <1>7

-----------------------------------------------------------------------------
(* Constructs *)

\* Every construct is closed.
Closed(P) ==
  /\ Len(P) \in Nat /\ DOMAIN P = 1 .. Len(P)
  /\ Level(P, Len(P) + 1) = 0
  /\ \A p \in DOMAIN P : Opens(P, p) => \E q \in DOMAIN P : Closes(P, p, q)

LEMMA EndCloses ==
  ASSUME NEW P, Closed(P), NEW p \in DOMAIN P, Opens(P, p)
  PROVE  /\ End(P, p) \in DOMAIN P /\ p < End(P, p)
         /\ P[End(P, p)].k = "end" /\ Level(P, End(P, p)) = Level(P, p) + 1
         /\ \A r \in p + 1 .. End(P, p) - 1 : Level(P, r) > Level(P, p)
         /\ Level(P, End(P, p) + 1) = Level(P, p)
<1>1. \E q \in DOMAIN P : Closes(P, p, q)
  BY DEF Closed
<1>2. End(P, p) \in DOMAIN P /\ Closes(P, p, End(P, p))
  BY <1>1 DEF End
<1>3. p \in Nat \ {0} /\ End(P, p) \in Nat \ {0}
  BY <1>2 DEF Closed
<1>4. P[End(P, p)].k = "end" /\ Level(P, End(P, p)) = Level(P, p) + 1 /\ p < End(P, p)
  BY <1>2, <1>3 DEF Closes
<1>5. Level(P, End(P, p) + 1) = Level(P, End(P, p)) - 1 /\ Level(P, p) \in Int
  BY <1>3, <1>4, LevelOfNext
<1> QED
  BY <1>2, <1>4, <1>5 DEF Closes

\* What opens inside a construct ends inside it.
LEMMA EndsInside ==
  ASSUME NEW P, Closed(P), NEW o \in DOMAIN P, Opens(P, o), NEW p \in DOMAIN P, Opens(P, p),
         o < p, p <= End(P, o)
  PROVE  End(P, p) < End(P, o)
<1>1. /\ End(P, o) \in DOMAIN P /\ P[End(P, o)].k = "end" /\ Level(P, End(P, o)) = Level(P, o) + 1
      /\ \A r \in o + 1 .. End(P, o) - 1 : Level(P, r) > Level(P, o)
  BY EndCloses
<1>2. /\ End(P, p) \in DOMAIN P /\ Level(P, End(P, p)) = Level(P, p) + 1
      /\ \A r \in p + 1 .. End(P, p) - 1 : Level(P, r) > Level(P, p)
  BY EndCloses
<1>3. o \in Nat \ {0} /\ p \in Nat \ {0} /\ End(P, o) \in Nat /\ End(P, p) \in Nat
  BY <1>1, <1>2 DEF Closed
<1>4. p # End(P, o)
  BY <1>1 DEF Opens, Openers
<1>5. Level(P, o) \in Int /\ Level(P, p) \in Int
  BY <1>3, LevelOfNext
<1>6. Level(P, p) > Level(P, o)
  BY <1>1, <1>3, <1>4
<1>7. CASE End(P, o) = End(P, p)
  BY <1>7, <1>1, <1>2, <1>5, <1>6
<1>8. CASE End(P, o) < End(P, p)
  <2>1. Level(P, End(P, o)) > Level(P, p)
    BY <1>8, <1>2, <1>3, <1>4
  <2> QED
    BY <2>1, <1>1, <1>5, <1>6
<1> QED
  BY <1>3, <1>7, <1>8

\* Two constructs around the same token on the same level are the same.
LEMMA OneConstruct ==
  ASSUME NEW P, Closed(P), NEW p \in Nat,
         NEW o \in DOMAIN P, Opens(P, o), o < p, p <= End(P, o),
         NEW c \in DOMAIN P, Opens(P, c), c < p, p <= End(P, c),
         Level(P, o) = Level(P, c)
  PROVE  o = c
<1>1. ASSUME NEW a \in DOMAIN P, NEW b \in DOMAIN P, Opens(P, a), Opens(P, b),
             a < b, b < p, p <= End(P, a), Level(P, a) = Level(P, b)
      PROVE  FALSE
  <2>1. End(P, a) \in DOMAIN P /\ \A r \in a + 1 .. End(P, a) - 1 : Level(P, r) > Level(P, a)
    BY <1>1, EndCloses
  <2>2. a \in Nat \ {0} /\ b \in Nat \ {0} /\ End(P, a) \in Nat
    BY <2>1 DEF Closed
  <2>3. b \in a + 1 .. End(P, a) - 1
    BY <1>1, <2>2
  <2>4. Level(P, b) \in Int
    BY <2>2, LevelOfNext
  <2> QED
    BY <2>1, <2>3, <2>4, <1>1
<1>2. o \in Nat /\ c \in Nat
  BY DEF Closed
<1> QED
  BY <1>1, <1>2

\* An end that stands directly in a construct is the end of it.
LEMMA OneEnd ==
  ASSUME NEW P, Closed(P), NEW p \in DOMAIN P, P[p].k = "end",
         NEW o \in DOMAIN P, Opens(P, o), o < p, p <= End(P, o), Level(P, p) = Level(P, o) + 1
  PROVE  p = End(P, o)
<1>1. /\ End(P, o) \in DOMAIN P /\ Level(P, End(P, o)) = Level(P, o) + 1
      /\ \A r \in o + 1 .. End(P, o) - 1 : Level(P, r) > Level(P, o)
  BY EndCloses
<1>2. o \in Nat \ {0} /\ p \in Nat \ {0} /\ End(P, o) \in Nat
  BY <1>1 DEF Closed
<1>3. Level(P, o) \in Int /\ Level(P, p + 1) = Level(P, o)
  BY <1>2, LevelOfNext
<1>4. p + 1 \notin o + 1 .. End(P, o) - 1 /\ p + 1 # End(P, o)
  BY <1>1, <1>3
<1> QED
  BY <1>2, <1>4

LEMMA LevelBehind ==
  ASSUME NEW P, Closed(P), NEW p \in DOMAIN P
  PROVE  /\ Behind(P, p) \in 1 .. Len(P) + 1 /\ p < Behind(P, p)
         /\ P[p].k # "end" => Level(P, Behind(P, p)) = Level(P, p)
<1>1. p \in Nat \ {0} /\ DOMAIN P = 1 .. Len(P) /\ Len(P) \in Nat
  BY DEF Closed
<1>2. CASE Opens(P, p)
  BY <1>1, <1>2, EndCloses DEF Behind
<1>3. CASE ~Opens(P, p)
  BY <1>1, <1>3, LevelOfNext DEF Behind
<1> QED
  BY <1>2, <1>3

-----------------------------------------------------------------------------
(* The constructs around a token, outermost first *)

Around(P, p, c) ==
  /\ c \in Seq(DOMAIN P) /\ Len(c) = Level(P, p)
  /\ \A k \in DOMAIN c :
       Opens(P, c[k]) /\ c[k] < p /\ p <= End(P, c[k]) /\ Level(P, c[k]) = k - 1

LEMMA NoneAround ==
  ASSUME NEW P
  PROVE  Around(P, 1, << >>)
BY LevelOfFirst DEF Around

\* Past a statement,
LEMMA AroundBehind ==
  ASSUME NEW P, Closed(P), NEW p \in DOMAIN P, NEW c, Around(P, p, c), P[p].k # "end"
  PROVE  Around(P, Behind(P, p), c)
<1>1. p \in Nat \ {0} /\ Behind(P, p) \in Nat /\ p < Behind(P, p)
      /\ Level(P, Behind(P, p)) = Level(P, p)
  BY LevelBehind DEF Closed
<1>2. ASSUME NEW k \in DOMAIN c
      PROVE  c[k] < Behind(P, p) /\ Behind(P, p) <= End(P, c[k])
  <2>1. c[k] \in DOMAIN P /\ Opens(P, c[k]) /\ c[k] < p /\ p <= End(P, c[k])
    BY DEF Around
  <2>2. End(P, c[k]) \in DOMAIN P /\ P[End(P, c[k])].k = "end"
    BY <2>1, EndCloses
  <2>3. c[k] \in Nat /\ End(P, c[k]) \in Nat
    BY <2>1, <2>2 DEF Closed
  <2>4. CASE Opens(P, p)
    <3>1. End(P, p) < End(P, c[k]) /\ End(P, p) \in DOMAIN P
      BY <2>1, <2>4, EndsInside, EndCloses
    <3> QED
      BY <1>1, <2>1, <2>3, <2>4, <3>1 DEF Behind, Closed
  <2>5. CASE ~Opens(P, p)
    BY <1>1, <2>1, <2>2, <2>3, <2>5 DEF Behind
  <2> QED
    BY <2>4, <2>5
<1> QED
  BY <1>1, <1>2 DEF Around

\* past a token that neither opens nor ends a construct,
LEMMA AroundNext ==
  ASSUME NEW P, Closed(P), NEW p \in DOMAIN P, NEW c, Around(P, p, c),
         P[p].k # "end", ~Opens(P, p)
  PROVE  Around(P, p + 1, c)
BY AroundBehind DEF Behind

\* into a construct,
LEMMA AroundInside ==
  ASSUME NEW P, Closed(P), NEW p \in DOMAIN P, NEW c, Around(P, p, c), Opens(P, p)
  PROVE  Around(P, p + 1, Append(c, p))
<1> DEFINE d == Append(c, p)
<1>1. c \in Seq(DOMAIN P) /\ Len(c) = Level(P, p) /\ p \in Nat \ {0}
  BY DEF Around, Closed
<1>2. /\ d \in Seq(DOMAIN P) /\ Len(d) = Len(c) + 1 /\ DOMAIN d = 1 .. Len(c) + 1
      /\ d[Len(c) + 1] = p /\ DOMAIN c = 1 .. Len(c) /\ Len(c) \in Nat
      /\ \A k \in 1 .. Len(c) : d[k] = c[k]
  BY <1>1
<1>3. Level(P, p + 1) = Level(P, p) + 1
  BY <1>1, LevelOfNext
<1>4. p < End(P, p) /\ End(P, p) \in Nat
  <2>1. p < End(P, p) /\ End(P, p) \in DOMAIN P
    BY EndCloses
  <2> QED
    BY <2>1 DEF Closed
<1>5. ASSUME NEW k \in DOMAIN d
      PROVE  Opens(P, d[k]) /\ d[k] < p + 1 /\ p + 1 <= End(P, d[k]) /\ Level(P, d[k]) = k - 1
  <2>1. CASE k = Len(c) + 1
    BY <2>1, <1>1, <1>2, <1>4
  <2>2. CASE k \in 1 .. Len(c)
    <3>1. /\ Opens(P, c[k]) /\ c[k] < p /\ p <= End(P, c[k]) /\ Level(P, c[k]) = k - 1
          /\ c[k] \in DOMAIN P
      BY <1>1, <1>2, <2>2 DEF Around
    <3>2. End(P, p) < End(P, c[k]) /\ End(P, c[k]) \in DOMAIN P
      BY <3>1, EndsInside, EndCloses
    <3>3. c[k] \in Nat /\ End(P, c[k]) \in Nat
      BY <3>1, <3>2 DEF Closed
    <3> QED
      BY <3>1, <3>2, <3>3, <1>1, <1>2, <1>4, <2>2
  <2> QED
    BY <1>2, <2>1, <2>2
<1> HIDE DEF d
<1>6. Around(P, p + 1, d)
  BY <1>1, <1>2, <1>3, <1>5 DEF Around
<1> QED
  BY <1>6 DEF d

\* and out of one.
LEMMA AroundOutside ==
  ASSUME NEW P, Closed(P), NEW p \in DOMAIN P, NEW c, Around(P, p, c),
         P[p].k = "end", Level(P, p) > 0
  PROVE  /\ c # << >> /\ c[Len(c)] \in DOMAIN P /\ p = End(P, c[Len(c)])
         /\ Around(P, p + 1, SubSeq(c, 1, Len(c) - 1))
<1> DEFINE d == SubSeq(c, 1, Len(c) - 1)
<1>1. c \in Seq(DOMAIN P) /\ Len(c) = Level(P, p) /\ p \in Nat \ {0}
  BY DEF Around, Closed
<1>2. c # << >> /\ Len(c) \in Nat \ {0} /\ DOMAIN c = 1 .. Len(c)
  BY <1>1
<1>3. /\ d \in Seq(DOMAIN P) /\ Len(d) = Len(c) - 1 /\ \A k \in 1 .. Len(c) - 1 : d[k] = c[k]
  BY <1>1, <1>2, AllButLast
<1>4. Level(P, p + 1) = Level(P, p) - 1
  BY <1>1, LevelOfNext
<1>5. ASSUME NEW k \in 1 .. Len(c) - 1
      PROVE  Opens(P, c[k]) /\ c[k] < p + 1 /\ p + 1 <= End(P, c[k]) /\ Level(P, c[k]) = k - 1
  <2>1. /\ Opens(P, c[k]) /\ c[k] < p /\ p <= End(P, c[k]) /\ Level(P, c[k]) = k - 1
        /\ c[k] \in DOMAIN P
    BY <1>1, <1>2 DEF Around
  <2>2. End(P, c[k]) \in DOMAIN P /\ Level(P, End(P, c[k])) = k
    BY <2>1, EndCloses
  <2>3. c[k] \in Nat /\ End(P, c[k]) \in Nat
    BY <2>1, <2>2 DEF Closed
  <2> QED
    BY <1>1, <1>2, <2>1, <2>2, <2>3
<1>6. c[Len(c)] \in DOMAIN P /\ p = End(P, c[Len(c)])
  <2>1. /\ Opens(P, c[Len(c)]) /\ c[Len(c)] < p /\ p <= End(P, c[Len(c)])
        /\ Level(P, c[Len(c)]) = Len(c) - 1 /\ c[Len(c)] \in DOMAIN P
    BY <1>1, <1>2 DEF Around
  <2> QED
    BY <2>1, <1>1, <1>2, OneEnd
<1> HIDE DEF d
<1>7. DOMAIN d = 1 .. Len(c) - 1
  BY <1>2, <1>3
<1>8. Around(P, p + 1, d)
  BY <1>1, <1>3, <1>4, <1>5, <1>7 DEF Around
<1> QED
  BY <1>2, <1>6, <1>8 DEF d

\* The constructs around a token are different ones.
LEMMA AroundDistinct ==
  ASSUME NEW P, NEW p, NEW c, Around(P, p, c), NEW k \in DOMAIN c, NEW l \in DOMAIN c, c[k] = c[l]
  PROVE  k = l
<1>1. k - 1 = l - 1 /\ k \in Int /\ l \in Int
  BY DEF Around
<1> QED
  BY <1>1

-----------------------------------------------------------------------------
(* How many handlers of some kinds are running *)

Count(P, c, kinds) == Cardinality({i \in DOMAIN c : P[c[i]].k \in kinds})

LEMMA CountNone ==
  ASSUME NEW P, NEW kinds
  PROVE  Count(P, << >>, kinds) = 0
<1>1. {i \in DOMAIN << >> : P[<< >>[i]].k \in kinds} = {}
  OBVIOUS
<1> QED
  BY <1>1, FS_EmptySet DEF Count

LEMMA CountType ==
  ASSUME NEW P, NEW A, NEW c \in Seq(A), NEW kinds
  PROVE  /\ Count(P, c, kinds) \in Nat
         /\ IsFiniteSet({i \in DOMAIN c : P[c[i]].k \in kinds})
<1>1. IsFiniteSet(DOMAIN c)
  <2>1. DOMAIN c = 1 .. Len(c) /\ Len(c) \in Nat
    OBVIOUS
  <2> QED
    BY <2>1, FS_Interval
<1>2. {i \in DOMAIN c : P[c[i]].k \in kinds} \in SUBSET DOMAIN c
  OBVIOUS
<1>3. IsFiniteSet({i \in DOMAIN c : P[c[i]].k \in kinds})
  BY <1>1, <1>2, FS_Subset
<1> QED
  BY <1>3, FS_CardinalityType DEF Count

LEMMA CountCall ==
  ASSUME NEW P, NEW A, NEW c \in Seq(A), NEW p \in A, NEW kinds
  PROVE  Count(P, Append(c, p), kinds) = Count(P, c, kinds) + (IF P[p].k \in kinds THEN 1 ELSE 0)
<1> DEFINE S == {i \in DOMAIN c : P[c[i]].k \in kinds}
           T == {i \in DOMAIN Append(c, p) : P[Append(c, p)[i]].k \in kinds}
           n == Len(c) + 1
<1>1. /\ DOMAIN c = 1 .. Len(c) /\ Len(c) \in Nat
      /\ DOMAIN Append(c, p) = DOMAIN c \cup {n} /\ n \notin DOMAIN c
      /\ Append(c, p)[n] = p /\ \A i \in DOMAIN c : Append(c, p)[i] = c[i]
  OBVIOUS
<1>2. n \notin S /\ IF P[p].k \in kinds THEN T = S \cup {n} ELSE T = S
  <2> HIDE DEF n
  <2> QED
    BY <1>1
<1>3. IsFiniteSet(S) /\ Cardinality(S) \in Nat
  BY CountType, FS_CardinalityType
<1>4. Cardinality(T) = Cardinality(S) + (IF P[p].k \in kinds THEN 1 ELSE 0)
  <2> HIDE DEF S, T, n
  <2>1. CASE P[p].k \in kinds
    BY <2>1, <1>2, <1>3, FS_AddElement
  <2>2. CASE P[p].k \notin kinds
    BY <2>2, <1>2, <1>3
  <2> QED
    BY <2>1, <2>2
<1> QED
  BY <1>4 DEF Count

LEMMA CountReturn ==
  ASSUME NEW P, NEW A, NEW c \in Seq(A), c # << >>, NEW kinds
  PROVE  Count(P, SubSeq(c, 1, Len(c) - 1), kinds)
           = Count(P, c, kinds) - (IF P[c[Len(c)]].k \in kinds THEN 1 ELSE 0)
<1> DEFINE d == SubSeq(c, 1, Len(c) - 1)
<1>1. Len(c) \in Nat \ {0} /\ c[Len(c)] \in A
  OBVIOUS
<1>2. d \in Seq(A) /\ c = Append(d, c[Len(c)])
  BY <1>1
<1>3. Count(P, d, kinds) \in Nat
  BY <1>2, CountType
<1>4. ASSUME NEW e \in Seq(A), NEW p \in A, c = Append(e, p),
             Count(P, e, kinds) \in Nat
      PROVE  Count(P, e, kinds) = Count(P, c, kinds) - (IF P[p].k \in kinds THEN 1 ELSE 0)
  <2>1. Count(P, c, kinds) = Count(P, e, kinds) + (IF P[p].k \in kinds THEN 1 ELSE 0)
    BY <1>4, CountCall
  <2> QED
    BY <2>1, <1>4
<1> QED
  BY <1>1, <1>2, <1>3, <1>4

=============================================================================
