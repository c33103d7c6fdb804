----------------------------- MODULE NumberProofs -----------------------------
(***************************************************************************)
(* Proofs about NumberCode, for every set of programs and every width of    *)
(* the types: the types the semantic pass gives to the nodes of expressions *)
(* are those the programs mean, it accepts the well-typed programs, and no  *)
(* value outgrows the storage it is kept in, compiled or interpreted.       *)
(* Types and instructions are computed by recursive functions on the nodes, *)
(* so the first part shows when there is such a function, and only one.     *)
(***************************************************************************)
EXTENDS NumberCode, TLAPS, WellFoundedInduction

-----------------------------------------------------------------------------
(* Recursive functions *)

LEMMA Least ==
  ASSUME NEW S, S \subseteq Nat, S # {}
  PROVE  \E m \in S : \A k \in S : m <= k
<1>1. PICK m \in S : \A k \in S : <<k, m>> \notin OpToRel(<, Nat)
  BY WFMin, NatLessThanWellFounded, Zenon
<1>2. \A k \in S : ~(k < m)
  BY <1>1 DEF OpToRel
<1> QED
  BY <1>2

\* rule says what a function on S has at k, and looks at smaller numbers only.
Recursive(S, T, rule) ==
  /\ S \subseteq Nat
  /\ rule \in [S -> [[S -> T] -> T]]
  /\ \A k \in S : \A f, g \in [S -> T] :
       (\A j \in S : j < k => f[j] = g[j]) => rule[k][f] = rule[k][g]
\* f follows it up to n.
Follows(S, T, rule, f, n) ==
  /\ n \in Nat /\ f \in [S -> T]
  /\ \A k \in S : k < n => f[k] = rule[k][f]

\* Such a function is determined,
LEMMA RecursionUnique ==
  ASSUME NEW S, NEW T, NEW rule, NEW n, NEW f, NEW g, Recursive(S, T, rule),
         Follows(S, T, rule, f, n), Follows(S, T, rule, g, n)
  PROVE  \A k \in S : k < n => f[k] = g[k]
<1> DEFINE Wrong == {k \in S : k < n /\ f[k] # g[k]}
<1>1. SUFFICES ASSUME Wrong # {} PROVE FALSE
  OBVIOUS
<1>2. Wrong \subseteq Nat
  BY DEF Recursive
<1>3. PICK m \in Wrong : \A k \in Wrong : m <= k
  <2> HIDE DEF Wrong
  <2> QED
    BY <1>1, <1>2, Least
<1>4. m \in S /\ m < n /\ f[m] # g[m] /\ m \in Nat
  BY <1>2, <1>3
<1>5. \A j \in S : j < m => f[j] = g[j]
  <2>1. SUFFICES ASSUME NEW j \in S, j < m, f[j] # g[j] PROVE FALSE
    OBVIOUS
  <2>2. j \in Nat /\ n \in Nat
    BY DEF Recursive, Follows
  <2>3. j \in Wrong
    BY <1>4, <2>1, <2>2
  <2> QED
    BY <1>3, <1>4, <2>1, <2>2, <2>3
<1>6. rule[m][f] = rule[m][g]
  BY <1>4, <1>5 DEF Recursive, Follows
<1> QED
  BY <1>4, <1>6 DEF Follows

\* and exists.
LEMMA RecursionExists ==
  ASSUME NEW S, NEW T, NEW rule, NEW t0 \in T, Recursive(S, T, rule)
  PROVE  \E f \in [S -> T] : \A k \in S : f[k] = rule[k][f]
<1> DEFINE Has(n) == \E f : Follows(S, T, rule, f, n)
           Missing == {n \in Nat : ~Has(n)}
<1>1. \A n \in Nat : Has(n)
  <2>1. SUFFICES ASSUME Missing # {} PROVE FALSE
    OBVIOUS
  <2>2. PICK m \in Missing : \A k \in Missing : m <= k
    <3>1. Missing \subseteq Nat
      OBVIOUS
    <3> HIDE DEF Missing
    <3> QED
      BY <2>1, <3>1, Least
  <2>3. m \in Nat /\ ~Has(m)
    BY <2>2
  <2>4. Has(0)
    <3>1. Follows(S, T, rule, [k \in S |-> t0], 0)
      BY DEF Recursive, Follows
    <3> QED
      BY <3>1
  <2>5. m # 0
    BY <2>3, <2>4
  <2>6. m - 1 \in Nat /\ m - 1 \notin Missing
    BY <2>2, <2>3, <2>5
  <2>7. PICK f : Follows(S, T, rule, f, m - 1)
    BY <2>6
  <2> DEFINE g == [k \in S |-> IF k = m - 1 THEN rule[k][f] ELSE f[k]]
  <2>8. \A k \in S : k \in Nat /\ rule[k][f] \in T
    BY <2>7 DEF Recursive, Follows
  <2>9. g \in [S -> T]
    BY <2>7, <2>8 DEF Follows
  <2>10. \A k \in S : k < m - 1 => g[k] = f[k]
    BY <2>3
  <2>11. \A k \in S : k = m - 1 => g[k] = rule[k][f]
    OBVIOUS
  <2> HIDE DEF Has, Missing, g
  <2>12. ASSUME NEW k \in S, k < m PROVE g[k] = rule[k][g]
    <3>1. k \in Nat /\ (k = m - 1 \/ k < m - 1) /\ \A j \in S : j < k => g[j] = f[j]
      BY <2>3, <2>8, <2>10, <2>12
    <3>2. rule[k][g] = rule[k][f]
      BY <2>7, <2>9, <3>1 DEF Recursive, Follows
    <3>3. g[k] = rule[k][f]
      BY <2>7, <2>10, <2>11, <3>1 DEF Follows
    <3> QED
      BY <3>2, <3>3
  <2>13. Follows(S, T, rule, g, m)
    BY <2>3, <2>9, <2>12 DEF Follows
  <2> QED
    BY <2>3, <2>13 DEF Has
<1> DEFINE at == [n \in Nat |-> CHOOSE f : Follows(S, T, rule, f, n)]
<1>2. ASSUME NEW n \in Nat PROVE Follows(S, T, rule, at[n], n)
  BY <1>1
<1> HIDE DEF Has, Missing, at
<1> DEFINE F == [k \in S |-> at[k + 1][k]]
<1>3. \A k \in S : k \in Nat /\ k + 1 \in Nat /\ k < k + 1
  BY DEF Recursive
<1>4. F \in [S -> T]
  <2>1. ASSUME NEW k \in S PROVE at[k + 1][k] \in T
    BY <1>2, <1>3 DEF Follows
  <2> QED
    BY <2>1
<1>5. ASSUME NEW k \in S PROVE F[k] = rule[k][F]
  <2>1. Follows(S, T, rule, at[k + 1], k + 1)
    BY <1>2, <1>3
  <2>2. F[k] = rule[k][at[k + 1]]
    BY <1>3, <2>1 DEF Follows
  <2>3. ASSUME NEW j \in S, j < k PROVE F[j] = at[k + 1][j]
    <3>1. j \in Nat /\ j + 1 \in Nat /\ j < j + 1 /\ \A i \in S : i < j + 1 => i < k + 1
      BY <1>3, <2>3
    <3>2. Follows(S, T, rule, at[j + 1], j + 1)
      BY <1>2, <3>1
    <3>3. Follows(S, T, rule, at[k + 1], j + 1)
      BY <2>1, <3>1 DEF Follows
    <3>4. \A i \in S : i < j + 1 => at[j + 1][i] = at[k + 1][i]
      BY <3>2, <3>3, RecursionUnique
    <3> QED
      BY <3>1, <3>4
  <2>4. at[k + 1] \in [S -> T]
    BY <2>1 DEF Follows
  <2> HIDE DEF F
  <2>5. rule[k][F] = rule[k][at[k + 1]]
    BY <1>4, <2>3, <2>4 DEF Recursive
  <2> QED
    BY <2>2, <2>5
<1> HIDE DEF F
<1> QED
  BY <1>4, <1>5

-----------------------------------------------------------------------------
(* Arithmetic *)

Sized(t) == t.size \in 0 .. 5

LEMMA WidthType ==
  ASSUME NEW t, Sized(t)
  PROVE  /\ Width(t) \in Nat \ {0} /\ Modulus(t) \in Nat \ {0}
         /\ Bits[5] \in Nat /\ Width(t) <= Bits[5]
<1>1. \A s \in Sizes : Bits[s] \in Nat \ {0} /\ Bits[s] <= Bits[5]
  <2>1. 5 \in Sizes /\ \A s \in Sizes : s = 5 \/ s < 5
    BY DEF Sizes
  <2> QED
    BY <2>1, BitsAssumption
<1>2. t.size = 0 \/ t.size \in Sizes
  BY DEF Sized, Sizes
<1>3. Width(t) \in Nat \ {0} /\ Bits[5] \in Nat \ {0} /\ Width(t) <= Bits[5]
  BY <1>1, <1>2 DEF Width, Sizes
<1> QED
  BY <1>3, PowersOfTwo DEF Modulus

LEMMA PatternType ==
  ASSUME NEW t, Sized(t), NEW n \in Int
  PROVE  Pattern(n, t) \in 0 .. Modulus(t) - 1
BY WidthType DEF Pattern

LEMMA WrapType ==
  ASSUME NEW t, Sized(t), NEW n \in Int
  PROVE  Wrap(n, t) \in Int
BY WidthType DEF Wrap

LEMMA Halved == \A n \in Nat : n \div 2 \in Nat /\ (n # 0 => n \div 2 < n)
OBVIOUS

\* The recursive functions of Bitand and Power are defined everywhere.
LEMMA BitandType ==
  ASSUME NEW x \in Nat, NEW y \in Nat
  PROVE  Bitand(x, y) \in Nat
<1> DEFINE T == [Nat -> Nat]
           body(b, f) == [a \in Nat |-> IF b = 0 THEN 0 ELSE (a % 2) * (b % 2) + 2 * f[b \div 2][a \div 2]]
           rule == [b \in Nat |-> [f \in [Nat -> T] |-> body(b, f)]]
<1>1. ASSUME NEW b \in Nat, NEW f, b # 0 => f[b \div 2] \in T PROVE body(b, f) \in T
  <2>1. ASSUME NEW a \in Nat, b # 0 PROVE (a % 2) * (b % 2) + 2 * f[b \div 2][a \div 2] \in Nat
    <3>1. a % 2 \in {0, 1} /\ b % 2 \in {0, 1} /\ a \div 2 \in Nat
      OBVIOUS
    <3> DEFINE q == f[b \div 2][a \div 2]
               p == (a % 2) * (b % 2)
    <3>2. q \in Nat
      BY <1>1, <2>1, <3>1
    <3>3. p \in Nat
      BY <3>1
    <3> HIDE DEF p, q
    <3>4. p + 2 * q \in Nat
      BY <3>2, <3>3
    <3> QED
      BY <3>4 DEF p, q
  <2> QED
    BY <2>1
<1>2. ASSUME NEW b \in Nat, NEW f \in [Nat -> T], NEW g \in [Nat -> T], \A c \in Nat : c < b => f[c] = g[c]
      PROVE  body(b, f) = body(b, g)
  BY <1>2, Halved
<1>3. Recursive(Nat, T, rule)
  <2> HIDE DEF T, body
  <2>1. \A b \in Nat : \A f \in [Nat -> T] : rule[b][f] = body(b, f) /\ body(b, f) \in T
    BY <1>1, Halved
  <2>2. rule \in [Nat -> [[Nat -> T] -> T]]
    BY <2>1
  <2>3. \A b \in Nat : \A f, g \in [Nat -> T] :
          (\A c \in Nat : c < b => f[c] = g[c]) => rule[b][f] = rule[b][g]
    BY <1>2, <2>1
  <2> HIDE DEF rule
  <2> QED
    BY <2>2, <2>3 DEF Recursive
<1>4. [a \in Nat |-> 0] \in T
  OBVIOUS
<1>5. PICK f \in [Nat -> T] : \A b \in Nat : f[b] = rule[b][f]
  <2> HIDE DEF T, rule
  <2> QED
    BY <1>3, <1>4, RecursionExists
<1> DEFINE and == CHOOSE g : g = [b \in Nat |-> body(b, g)]
<1>6. \A b \in Nat : and[b] = body(b, and)
  <2> HIDE DEF body, T
  <2>1. f = [b \in Nat |-> body(b, f)]
    BY <1>5
  <2>2. and = [b \in Nat |-> body(b, and)]
    BY <2>1
  <2> HIDE DEF and
  <2> QED
    BY <2>2
<1>7. Bitand(x, y) = and[y][x]
  BY DEF Bitand
<1> HIDE DEF and, body, T
<1> DEFINE Wrong == {b \in Nat : and[b] \notin T}
<1>8. Wrong = {}
  <2>1. SUFFICES ASSUME Wrong # {} PROVE FALSE
    OBVIOUS
  <2>2. PICK m \in Wrong : \A k \in Wrong : m <= k
    <3>1. Wrong \subseteq Nat
      OBVIOUS
    <3> HIDE DEF Wrong
    <3> QED
      BY <2>1, <3>1, Least
  <2>3. m \in Nat /\ (m # 0 => and[m \div 2] \in T)
    BY <2>2, Halved
  <2> QED
    BY <1>1, <1>6, <2>2, <2>3
<1>9. and[y] \in T
  BY <1>8
<1> QED
  BY <1>7, <1>9 DEF T

LEMMA PowerType ==
  ASSUME NEW t, Sized(t), NEW x \in Int, NEW y \in Nat
  PROVE  Power(x, y, t) \in Int
<1> DEFINE T == [Int -> Int]
           body(e, f) ==
             [b \in Int |->
                IF e = 0 THEN 1
                ELSE LET rest == f[e \div 2][Wrap(b * b, t)] IN
                     IF e % 2 = 1 THEN Wrap(b * rest, t) ELSE rest]
           rule == [e \in Nat |-> [f \in [Nat -> T] |-> body(e, f)]]
<1>1. ASSUME NEW e \in Nat, NEW f, e # 0 => f[e \div 2] \in T PROVE body(e, f) \in T
  <2>1. ASSUME NEW b \in Int, e # 0
        PROVE  LET rest == f[e \div 2][Wrap(b * b, t)] IN rest \in Int /\ Wrap(b * rest, t) \in Int
    <3>1. b * b \in Int
      OBVIOUS
    <3>2. Wrap(b * b, t) \in Int
      BY <3>1, WrapType
    <3> DEFINE rest == f[e \div 2][Wrap(b * b, t)]
    <3>3. rest \in Int
      BY <1>1, <2>1, <3>2
    <3> HIDE DEF rest
    <3>4. b * rest \in Int
      BY <3>3
    <3>5. Wrap(b * rest, t) \in Int
      BY <3>4, WrapType
    <3> QED
      BY <3>3, <3>5 DEF rest
  <2>2. CASE e = 0
    BY <2>2
  <2>3. CASE e # 0
    <3>1. \A b \in Int : body(e, f)[b] \in Int
      BY <2>1, <2>3
    <3> QED
      BY <2>1, <2>3
  <2> QED
    BY <2>2, <2>3
<1>2. ASSUME NEW e \in Nat, NEW f \in [Nat -> T], NEW g \in [Nat -> T], \A c \in Nat : c < e => f[c] = g[c]
      PROVE  body(e, f) = body(e, g)
  BY <1>2, Halved
<1>3. Recursive(Nat, T, rule)
  <2> HIDE DEF T, body
  <2>1. \A e \in Nat : \A f \in [Nat -> T] : rule[e][f] = body(e, f) /\ body(e, f) \in T
    BY <1>1, Halved
  <2>2. rule \in [Nat -> [[Nat -> T] -> T]]
    BY <2>1
  <2>3. \A e \in Nat : \A f, g \in [Nat -> T] :
          (\A c \in Nat : c < e => f[c] = g[c]) => rule[e][f] = rule[e][g]
    BY <1>2, <2>1
  <2> HIDE DEF rule
  <2> QED
    BY <2>2, <2>3 DEF Recursive
<1>4. [b \in Int |-> 0] \in T
  OBVIOUS
<1>5. PICK f \in [Nat -> T] : \A e \in Nat : f[e] = rule[e][f]
  <2> HIDE DEF T, rule
  <2> QED
    BY <1>3, <1>4, RecursionExists
<1> DEFINE pow == CHOOSE g : g = [e \in Nat |-> body(e, g)]
<1>6. \A e \in Nat : pow[e] = body(e, pow)
  <2> HIDE DEF body, T
  <2>1. f = [e \in Nat |-> body(e, f)]
    BY <1>5
  <2>2. pow = [e \in Nat |-> body(e, pow)]
    BY <2>1
  <2> HIDE DEF pow
  <2> QED
    BY <2>2
<1>7. Power(x, y, t) = Wrap(pow[y][x], t)
  BY DEF Power
<1> HIDE DEF pow, body, T
<1> DEFINE Wrong == {e \in Nat : pow[e] \notin T}
<1>8. Wrong = {}
  <2>1. SUFFICES ASSUME Wrong # {} PROVE FALSE
    OBVIOUS
  <2>2. PICK m \in Wrong : \A k \in Wrong : m <= k
    <3>1. Wrong \subseteq Nat
      OBVIOUS
    <3> HIDE DEF Wrong
    <3> QED
      BY <2>1, <3>1, Least
  <2>3. m \in Nat /\ (m # 0 => pow[m \div 2] \in T)
    BY <2>2, Halved
  <2> QED
    BY <1>1, <1>6, <2>2, <2>3
<1>9. pow[y] \in T
  BY <1>8
<1>10. pow[y][x] \in Int
  BY <1>9 DEF T
<1> QED
  BY <1>7, <1>10, WrapType

LEMMA QuotientType ==
  ASSUME NEW x \in Int, NEW y \in Int, y # 0
  PROVE  Quotient(x, y) \in Int /\ Remainder(x, y) \in Int
<1> DEFINE a == IF x < 0 THEN -x ELSE x
           b == IF y < 0 THEN -y ELSE y
           q == Quotient(x, y)
<1>1. a \in Nat /\ b \in Nat \ {0}
  OBVIOUS
<1>2. a \div b \in Int
  BY <1>1
<1>3. q = IF (x < 0) = (y < 0) THEN a \div b ELSE -(a \div b)
  BY DEF Quotient
<1> HIDE DEF a, b
<1>4. q \in Int
  BY <1>2, <1>3
<1>5. Remainder(x, y) = x - y * q
  BY DEF Remainder
<1> HIDE DEF q
<1>6. y * q \in Int
  BY <1>4
<1>7. Remainder(x, y) \in Int
  BY <1>5, <1>6
<1> QED
  BY <1>4, <1>7 DEF q

\* A defined operation has an integer as its result; floating-point numbers are
\* integers here as well, counted in halves.
LEMMA ApplyType ==
  ASSUME NEW t, Sized(t), NEW x \in Int, NEW y \in Int, NEW op \in Arithmetic, ~Undefined(op, x, y, t)
  PROVE  Apply(op, x, y, t) \in Int
<1>1. CASE op = "OP_ADD"
  BY <1>1 DEF Apply
<1>2. CASE op = "OP_SUB"
  BY <1>2 DEF Apply
<1>3. CASE op = "OP_MUL"
  BY <1>3 DEF Apply
<1>4. CASE op \in {"OP_DIV", "OP_MOD"}
  <2>1. y # 0
    BY <1>4 DEF Undefined, Inexact
  <2> QED
    BY <1>4, <2>1, QuotientType DEF Apply
<1>5. CASE op = "OP_POW"
  <2>1. y \in Nat
    BY <1>5 DEF Undefined, Inexact
  <2> QED
    BY <1>5, <2>1, PowerType DEF Apply
<1>6. CASE op \in {"OP_LSHIFT", "OP_RSHIFT"}
  <2>1. ~(y < 0) /\ ~(y >= Width(t))
    BY <1>6 DEF Undefined, BitwiseOps
  <2>2. y \in 0 .. Bits[5]
    BY <2>1, WidthType
  <2>3. 2 ^ y \in Nat \ {0}
    BY <2>2, PowersOfTwo
  <2> DEFINE p == 2 ^ y
  <2> HIDE DEF p
  <2>4. p \in Nat \ {0}
    BY <2>3 DEF p
  <2>5. x * p \in Int /\ x \div p \in Int
    BY <2>4
  <2>6. Apply(op, x, y, t) = IF op = "OP_LSHIFT" THEN x * p ELSE x \div p
    BY <1>6 DEF Apply, p
  <2> QED
    BY <2>5, <2>6
<1>7. CASE op \in {"OP_BITAND", "OP_BITOR", "OP_BITXOR"}
  <2> DEFINE a == Pattern(x, t)
             b == Pattern(y, t)
             c == Bitand(a, b)
  <2>1. a \in Nat /\ b \in Nat
    BY PatternType, WidthType
  <2>2. Apply(op, x, y, t) \in {c, a + b - c, a + b - 2 * c}
    BY <1>7 DEF Apply, Bitor, Bitxor
  <2> HIDE DEF a, b
  <2>3. c \in Nat
    BY <2>1, BitandType
  <2> HIDE DEF c
  <2> QED
    BY <2>1, <2>2, <2>3
<1> QED
  BY <1>1, <1>2, <1>3, <1>4, <1>5, <1>6, <1>7 DEF Arithmetic

LEMMA CompareType ==
  ASSUME NEW b
  PROVE  Truth(b) \in {0, 1}
BY DEF Truth

-----------------------------------------------------------------------------
(* Types *)

LEMMA TypeFacts ==
  /\ \A t \in IntTypes : is_integer(t) /\ ~is_float(t) /\ is_numeric(t) /\ t.size \in Sizes
  /\ \A t \in FloatTypes : is_float(t) /\ ~is_integer(t) /\ is_numeric(t) /\ t.size \in {3, 4, 5}
  /\ \A t \in DataTypes : Sized(t)
  /\ \A t \in DataTypes : is_numeric(t) <=> t \in NumericTypes
  /\ ~is_numeric(BOOL) /\ ~is_numeric(UNKNOWN) /\ BOOL # UNKNOWN
BY DEF IntTypes, FloatTypes, NumericTypes, DataTypes, BOOL, UNKNOWN, is_integer, is_float,
   is_numeric, Sized, Sizes

LEMMA LargestSize ==
  ASSUME NEW S, S \subseteq DataTypes, NEW a, NEW b, S \subseteq {a, b}, S # {}
  PROVE  \E t \in S : Largest(S) = t.size
<1>1. PICK m \in S : \A t \in S : t.size <= m.size
  <2>1. \A t \in S : t.size \in 0 .. 5
    BY TypeFacts DEF Sized
  <2> QED
    BY <2>1
<1>2. \E s \in {t.size : t \in S} : \A t \in S : t.size <= s
  BY <1>1
<1> DEFINE s == CHOOSE s \in {t.size : t \in S} : \A t \in S : t.size <= s
<1>3. s \in {t.size : t \in S}
  BY <1>2
<1>4. Largest(S) = s
  BY DEF Largest
<1> QED
  BY <1>3, <1>4

LEMMA FloatPromotionType ==
  ASSUME NEW a \in DataTypes, NEW b \in DataTypes, is_float(a) \/ is_float(b)
  PROVE  FloatPromotion(a, b) \in FloatTypes
<1> DEFINE floats == {t \in {a, b} : is_float(t)}
<1>1. floats # {} /\ floats \subseteq DataTypes /\ floats \subseteq {a, b}
  OBVIOUS
<1>2. PICK t \in floats : Largest(floats) = t.size
  <2> HIDE DEF floats
  <2> QED
    BY <1>1, LargestSize
<1>3. Largest(floats) \in {3, 4, 5}
  BY <1>2, TypeFacts DEF DataTypes, NumericTypes, BOOL, UNKNOWN, is_float
<1>4. FloatPromotion(a, b) \in {FloatOf(Largest(floats)), UFloatOf(Largest(floats))}
  BY DEF FloatPromotion
<1> QED
  BY <1>3, <1>4 DEF FloatTypes, FloatOf, UFloatOf

LEMMA PromoteType ==
  ASSUME NEW a \in DataTypes, NEW b \in DataTypes
  PROVE  promote(a, b) \in NumericTypes
<1> DEFINE unsigned == {t \in {a, b} : t.class = "unsigned"}
           signed == {t \in {a, b} : t.class = "signed"}
<1>1. ASSUME NEW S, S \in {unsigned, signed} PROVE Largest(S) \in Sizes
  <2>1. CASE S = {}
    BY <2>1 DEF Largest, Sizes
  <2>2. CASE S # {}
    <3>1. S \subseteq DataTypes /\ S \subseteq {a, b}
      BY <1>1
    <3>2. PICK t \in S : Largest(S) = t.size
      BY <2>2, <3>1, LargestSize
    <3>3. t \in IntTypes
      BY <1>1 DEF DataTypes, NumericTypes, IntTypes, FloatTypes, BOOL, UNKNOWN
    <3> QED
      BY <3>2, <3>3, TypeFacts
  <2> QED
    BY <2>1, <2>2
<1>2. promote(a, b) \in {FloatPromotion(a, b), UnsignedOf(Largest(unsigned)), SignedOf(Largest(signed))}
  BY DEF promote
<1>3. UnsignedOf(Largest(unsigned)) \in IntTypes /\ SignedOf(Largest(signed)) \in IntTypes
  BY <1>1 DEF UnsignedOf, SignedOf, IntTypes
<1>4. is_float(a) \/ is_float(b) => promote(a, b) = FloatPromotion(a, b)
  BY DEF promote
<1>5. ~(is_float(a) \/ is_float(b)) =>
        promote(a, b) \in {UnsignedOf(Largest(unsigned)), SignedOf(Largest(signed))}
  BY DEF promote
<1> QED
  BY <1>3, <1>4, <1>5, FloatPromotionType DEF NumericTypes

\* The code finds the common type of two numbers in another way than the language says it.
LEMMA PromoteMeans ==
  ASSUME NEW a \in NumericTypes, NEW b \in NumericTypes
  PROVE  promote(a, b) = Promoted(a, b)
<1> DEFINE Of(c) == {t \in {a, b} : t.class = c}
           floats == {t \in {a, b} : is_float(t)}
           classes == {a.class, b.class}
<1>1. a.class \in {"signed", "unsigned", "float", "ufloat"} /\ b.class \in {"signed", "unsigned", "float", "ufloat"}
  BY DEF NumericTypes, IntTypes, FloatTypes
<1>2. CASE "float" \in classes
  <2>1. is_float(a) \/ is_float(b)
    BY <1>2 DEF is_float
  <2>2. \E t \in floats : t.class = "float"
    BY <1>2 DEF is_float
  <2>3. promote(a, b) = FloatOf(Largest(floats))
    BY <2>1, <2>2 DEF promote, FloatPromotion
  <2>4. floats = {t \in {a, b} : t.class = "float" \/ ("float" = "float" /\ t.class = "ufloat")}
    BY DEF is_float
  <2>5. Promoted(a, b) = [class |-> "float", size |-> Largest(floats)]
    BY <1>2, <2>4 DEF Promoted
  <2> QED
    BY <2>3, <2>5 DEF FloatOf
<1>3. CASE "float" \notin classes /\ "ufloat" \in classes
  <2>1. is_float(a) \/ is_float(b)
    BY <1>3 DEF is_float
  <2>2. ~\E t \in floats : t.class = "float"
    BY <1>3
  <2>3. promote(a, b) = UFloatOf(Largest(floats))
    BY <2>1, <2>2 DEF promote, FloatPromotion
  <2>4. floats = {t \in {a, b} : t.class = "ufloat" \/ ("ufloat" = "float" /\ t.class = "ufloat")}
    BY <1>3 DEF is_float
  <2>5. Promoted(a, b) = [class |-> "ufloat", size |-> Largest(floats)]
    BY <1>3, <2>4 DEF Promoted
  <2> QED
    BY <2>3, <2>5 DEF UFloatOf
<1>4. CASE "float" \notin classes /\ "ufloat" \notin classes /\ "unsigned" \in classes
  <2>1. ~is_float(a) /\ ~is_float(b) /\ Of("unsigned") # {}
    BY <1>4 DEF is_float
  <2>2. promote(a, b) = UnsignedOf(Largest(Of("unsigned")))
    BY <2>1 DEF promote
  <2>3. Of("unsigned") = {t \in {a, b} : t.class = "unsigned" \/ ("unsigned" = "float" /\ t.class = "ufloat")}
    OBVIOUS
  <2>4. Promoted(a, b) = [class |-> "unsigned", size |-> Largest(Of("unsigned"))]
    BY <1>4, <2>3 DEF Promoted
  <2> QED
    BY <2>2, <2>4 DEF UnsignedOf
<1>5. CASE "float" \notin classes /\ "ufloat" \notin classes /\ "unsigned" \notin classes
  <2>1. ~is_float(a) /\ ~is_float(b) /\ Of("unsigned") = {}
    BY <1>5 DEF is_float
  <2>2. promote(a, b) = SignedOf(Largest(Of("signed")))
    BY <2>1 DEF promote
  <2>3. Of("signed") = {t \in {a, b} : t.class = "signed" \/ ("signed" = "float" /\ t.class = "ufloat")}
    OBVIOUS
  <2>4. Promoted(a, b) = [class |-> "signed", size |-> Largest(Of("signed"))]
    BY <1>5, <2>3 DEF Promoted
  <2> QED
    BY <2>2, <2>4 DEF SignedOf
<1> QED
  BY <1>2, <1>3, <1>4, <1>5

-----------------------------------------------------------------------------
(* Programs, and the types they mean *)

LEMMA ProgramFacts ==
  ASSUME NEW p \in Programs
  PROVE  /\ p.y \in Variables /\ p.z \in Variables
         /\ Len(p.stmts) \in {1, 2} /\ p.stmts \in Seq(Assignments) /\ p.stmts[1].op = "OP_ASSIGN"
         /\ \A s \in 1 .. Len(p.stmts) :
              /\ p.stmts[s] \in Assignments
              /\ p.stmts[s].type \in DataTypes /\ p.stmts[s].op \in AssignOps
              /\ p.stmts[s].nodes \in Seq(Expressions)
              /\ Len(p.stmts[s].nodes) \in Nat \ {0}
              /\ \A k \in 1 .. Len(p.stmts[s].nodes) :
                   /\ p.stmts[s].nodes[k] \in Expressions
                   /\ WellFormed(p.stmts[s].nodes, k, Names)
                   /\ s = 1 /\ p.stmts[s].nodes[k].kind = "var" => p.stmts[s].nodes[k].name # "x"
<1>1. /\ p.y \in Variables /\ p.z \in Variables
      /\ Len(p.stmts) \in {1, 2} /\ p.stmts \in Seq(Assignments) /\ p.stmts[1].op = "OP_ASSIGN"
  BY ProgramsAssumption
<1>2. ASSUME NEW s \in 1 .. Len(p.stmts)
      PROVE  /\ p.stmts[s] \in Assignments
             /\ p.stmts[s].type \in DataTypes /\ p.stmts[s].op \in AssignOps
             /\ p.stmts[s].nodes \in Seq(Expressions)
             /\ Len(p.stmts[s].nodes) \in Nat \ {0}
             /\ \A k \in 1 .. Len(p.stmts[s].nodes) :
                  /\ p.stmts[s].nodes[k] \in Expressions
                  /\ WellFormed(p.stmts[s].nodes, k, Names)
                  /\ s = 1 /\ p.stmts[s].nodes[k].kind = "var" => p.stmts[s].nodes[k].name # "x"
  <2>1. p.stmts[s] \in Assignments
    BY <1>1
  <2> DEFINE nodes == p.stmts[s].nodes
  <2>2. p.stmts[s].type \in DataTypes /\ p.stmts[s].op \in AssignOps /\ nodes \in Seq(Expressions)
    BY <2>1 DEF Assignments
  <2>3. /\ nodes # << >>
        /\ \A k \in 1 .. Len(nodes) : WellFormed(nodes, k, IF s = 1 THEN {"y", "z"} ELSE Names)
    BY ProgramsAssumption
  <2> HIDE DEF nodes
  <2>4. Len(nodes) \in Nat \ {0} /\ \A k \in 1 .. Len(nodes) : nodes[k] \in Expressions
    BY <2>2, <2>3
  <2>5. ASSUME NEW k \in 1 .. Len(nodes)
        PROVE WellFormed(nodes, k, Names) /\ (s = 1 /\ nodes[k].kind = "var" => nodes[k].name # "x")
    <3>1. WellFormed(nodes, k, IF s = 1 THEN {"y", "z"} ELSE Names)
      BY <2>3
    <3> QED
      BY <3>1 DEF WellFormed, Names
  <2> QED
    BY <2>1, <2>2, <2>4, <2>5 DEF nodes
<1> QED
  BY <1>1, <1>2

\* The nodes have the types ty.
Typing(p, nodes, ty, hint, xtype) == \A k \in 1 .. Len(nodes) : ty[k] = NodeType(p, nodes[k], ty, hint, xtype)

LEMMA PromotedType ==
  ASSUME NEW a \in DataTypes, NEW b \in DataTypes
  PROVE  Promoted(a, b) \in NumericTypes
<1> DEFINE classes == {a.class, b.class}
           first == IF "float" \in classes THEN "float"
                    ELSE IF "ufloat" \in classes THEN "ufloat"
                    ELSE IF "unsigned" \in classes THEN "unsigned" ELSE "signed"
           alike == {t \in {a, b} : t.class = first \/ (first = "float" /\ t.class = "ufloat")}
<1>1. Promoted(a, b) = [class |-> first, size |-> Largest(alike)]
  BY DEF Promoted
<1>2. CASE alike = {}
  <2>1. first = "signed"
    BY <1>2
  <2>2. Largest(alike) = 1
    BY <1>2 DEF Largest
  <2> QED
    BY <1>1, <2>1, <2>2 DEF NumericTypes, IntTypes, Sizes
<1>3. CASE alike # {}
  <2>1. alike \subseteq DataTypes /\ alike \subseteq {a, b}
    OBVIOUS
  <2>2. PICK t \in alike : Largest(alike) = t.size
    <3> HIDE DEF alike
    <3> QED
      BY <1>3, <2>1, LargestSize
  <2>3. t \in DataTypes /\ (t.class = first \/ (first = "float" /\ t.class = "ufloat"))
    BY <2>2
  <2>4. first \in {"float", "ufloat", "unsigned", "signed"}
    OBVIOUS
  <2> HIDE DEF first
  <2> QED
    BY <1>1, <2>2, <2>3, <2>4 DEF DataTypes, NumericTypes, IntTypes, FloatTypes, BOOL, UNKNOWN
<1> QED
  BY <1>2, <1>3

LEMMA NodeTypeType ==
  ASSUME NEW p \in Programs, NEW e \in Expressions, NEW hint \in DataTypes, NEW xtype \in DataTypes, NEW ty,
         e.kind = "var" => e.name \in Names,
         e.kind = "unop" => ty[e.l] \in DataTypes,
         e.kind = "binop" => ty[e.l] \in DataTypes /\ ty[e.r] \in DataTypes
  PROVE  NodeType(p, e, ty, hint, xtype) \in DataTypes
<1>1. e.kind \in {"num", "var", "unop", "binop"}
  BY DEF Expressions
<1>2. CASE e.kind = "num"
  <2>1. F32 \in DataTypes /\ I32 \in DataTypes
    BY DEF F32, I32, FloatOf, SignedOf, DataTypes, NumericTypes, IntTypes, FloatTypes, Sizes
  <2> QED
    BY <1>2, <2>1 DEF NodeType
<1>3. CASE e.kind = "var"
  <2>1. NodeType(p, e, ty, hint, xtype) = IF e.name = "x" THEN xtype ELSE p[e.name].type
    BY <1>3 DEF NodeType
  <2>2. p.y \in Variables /\ p.z \in Variables
    BY ProgramFacts
  <2>3. p.y.type \in DataTypes /\ p.z.type \in DataTypes
    BY <2>2 DEF Variables, DataTypes
  <2> QED
    BY <1>3, <2>1, <2>3 DEF Names
<1>4. CASE e.kind = "unop"
  BY <1>4 DEF NodeType, DataTypes
<1>5. CASE e.kind = "binop"
  <2>1. NodeType(p, e, ty, hint, xtype) = IF e.op \in Arithmetic THEN Promoted(ty[e.l], ty[e.r]) ELSE BOOL
    BY <1>5 DEF NodeType
  <2> QED
    BY <1>5, <2>1, PromotedType DEF DataTypes
<1> QED
  BY <1>1, <1>2, <1>3, <1>4, <1>5

\* Operands are in front of what they are operands of.
Placed(nodes) ==
  /\ nodes \in Seq(Expressions)
  /\ \A k \in 1 .. Len(nodes) :
       /\ nodes[k].kind = "var" => nodes[k].name \in Names
       /\ nodes[k].kind \in {"unop", "binop"} => nodes[k].l \in 1 .. k - 1
       /\ nodes[k].kind = "binop" => nodes[k].r \in 1 .. k - 1

LEMMA TypingTyped ==
  ASSUME NEW p \in Programs, NEW nodes, Placed(nodes), NEW hint \in DataTypes, NEW xtype \in DataTypes,
         NEW ty, Typing(p, nodes, ty, hint, xtype)
  PROVE  \A k \in 1 .. Len(nodes) : ty[k] \in DataTypes
<1> DEFINE Wrong == {k \in 1 .. Len(nodes) : ty[k] \notin DataTypes}
<1>1. SUFFICES ASSUME Wrong # {} PROVE FALSE
  OBVIOUS
<1>2. Len(nodes) \in Nat
  BY DEF Placed
<1>3. PICK m \in Wrong : \A k \in Wrong : m <= k
  <2>1. Wrong \subseteq Nat
    BY <1>2
  <2> HIDE DEF Wrong
  <2> QED
    BY <1>1, <2>1, Least
<1>4. m \in 1 .. Len(nodes) /\ ty[m] \notin DataTypes /\ nodes[m] \in Expressions
  BY <1>3 DEF Placed
<1>5. \A k \in 1 .. m - 1 : ty[k] \in DataTypes
  <2>1. \A k \in 1 .. m - 1 : k \in 1 .. Len(nodes) /\ ~(m <= k)
    BY <1>2, <1>4
  <2> QED
    BY <1>3, <2>1
<1> DEFINE e == nodes[m]
<1>6. /\ e.kind = "var" => e.name \in Names
      /\ e.kind = "unop" => ty[e.l] \in DataTypes
      /\ e.kind = "binop" => ty[e.l] \in DataTypes /\ ty[e.r] \in DataTypes
  BY <1>4, <1>5 DEF Placed
<1>7. e \in Expressions
  BY <1>4
<1>8. ty[m] = NodeType(p, e, ty, hint, xtype)
  BY <1>4 DEF Typing
<1> HIDE DEF e, Wrong
<1>9. NodeType(p, e, ty, hint, xtype) \in DataTypes
  BY <1>6, <1>7, NodeTypeType
<1> QED
  BY <1>4, <1>8, <1>9

\* TypesOf is the typing of its nodes.
LEMMA TypesOfUnfolds ==
  ASSUME NEW p \in Programs, NEW nodes, Placed(nodes), NEW hint \in DataTypes, NEW xtype \in DataTypes
  PROVE  Typing(p, nodes, TypesOf(p, nodes, hint, xtype), hint, xtype)
<1> DEFINE S == 1 .. Len(nodes)
           body(k, f) == NodeType(p, nodes[k], f, hint, xtype)
           rule == [k \in S |-> [f \in [S -> DataTypes] |-> body(k, f)]]
<1>1. Len(nodes) \in Nat /\ S \subseteq Nat /\ \A k \in S : nodes[k] \in Expressions
  BY DEF Placed
<1>2. ASSUME NEW k \in S, NEW f \in [S -> DataTypes] PROVE body(k, f) \in DataTypes
  <2> DEFINE e == nodes[k]
  <2>1. e \in Expressions /\ 1 .. k - 1 \subseteq S
    BY <1>1
  <2>2. \A i \in 1 .. k - 1 : f[i] \in DataTypes
    BY <2>1
  <2>3. /\ e.kind = "var" => e.name \in Names
        /\ e.kind = "unop" => f[e.l] \in DataTypes
        /\ e.kind = "binop" => f[e.l] \in DataTypes /\ f[e.r] \in DataTypes
    BY <2>2 DEF Placed
  <2> HIDE DEF e
  <2>4. NodeType(p, e, f, hint, xtype) \in DataTypes
    BY <2>1, <2>3, NodeTypeType
  <2> QED
    BY <2>4 DEF e
<1>3. ASSUME NEW k \in S, NEW f \in [S -> DataTypes], NEW g \in [S -> DataTypes],
             \A i \in S : i < k => f[i] = g[i]
      PROVE  body(k, f) = body(k, g)
  <2>1. \A i \in 1 .. k - 1 : f[i] = g[i]
    BY <1>1, <1>3
  <2>2. CASE nodes[k].kind = "num"
    BY <2>2 DEF NodeType
  <2>3. CASE nodes[k].kind = "var"
    BY <2>3 DEF NodeType
  <2>4. CASE nodes[k].kind = "unop"
    BY <2>1, <2>4 DEF NodeType, Placed
  <2>5. CASE nodes[k].kind = "binop"
    <3>1. f[nodes[k].l] = g[nodes[k].l] /\ f[nodes[k].r] = g[nodes[k].r]
      BY <2>1, <2>5 DEF Placed
    <3> QED
      BY <2>5, <3>1 DEF NodeType
  <2> QED
    BY <1>1, <2>2, <2>3, <2>4, <2>5 DEF Expressions
<1>4. Recursive(S, DataTypes, rule)
  <2> HIDE DEF body
  <2>1. \A k \in S : \A f \in [S -> DataTypes] : rule[k][f] = body(k, f)
    OBVIOUS
  <2>2. rule \in [S -> [[S -> DataTypes] -> DataTypes]]
    BY <1>2
  <2>3. \A k \in S : \A f, g \in [S -> DataTypes] :
          (\A i \in S : i < k => f[i] = g[i]) => rule[k][f] = rule[k][g]
    BY <1>3, <2>1
  <2> HIDE DEF rule, S
  <2> QED
    BY <1>1, <2>2, <2>3 DEF Recursive
<1>5. BOOL \in DataTypes
  BY DEF DataTypes
<1>6. PICK f \in [S -> DataTypes] : \A k \in S : f[k] = rule[k][f]
  <2> HIDE DEF rule, S
  <2> QED
    BY <1>4, <1>5, RecursionExists
<1> DEFINE ty == CHOOSE g : g = [k \in S |-> body(k, g)]
<1>7. ty = [k \in S |-> body(k, ty)]
  <2> HIDE DEF body
  <2>1. f = [k \in S |-> body(k, f)]
    BY <1>6
  <2> QED
    BY <2>1
<1>8. TypesOf(p, nodes, hint, xtype) = ty
  BY DEF TypesOf
<1> HIDE DEF ty
<1> QED
  BY <1>7, <1>8 DEF Typing

LEMMA ProgramPlaced ==
  ASSUME NEW p \in Programs, NEW s \in 1 .. Len(p.stmts)
  PROVE  /\ Placed(p.stmts[s].nodes) /\ Placed(Expanded(p, s))
         /\ Len(p.stmts[s].nodes) \in Nat \ {0}
         /\ Len(p.stmts[s].nodes) <= Len(Expanded(p, s))
         /\ \A k \in 1 .. Len(p.stmts[s].nodes) : Expanded(p, s)[k] = p.stmts[s].nodes[k]
<1> DEFINE nodes == p.stmts[s].nodes
           op == p.stmts[s].op
           n == Len(nodes)
           more == nodes \o <<Var("x"), Binop(op, n + 1, n)>>
<1>1. nodes \in Seq(Expressions) /\ n \in Nat \ {0} /\ op \in AssignOps
  BY ProgramFacts
<1>2. \A k \in 1 .. n : nodes[k] \in Expressions /\ WellFormed(nodes, k, Names)
  BY ProgramFacts
<1>3. Expanded(p, s) = IF op # "OP_ASSIGN" THEN more ELSE nodes
  BY DEF Expanded, Compound
<1> HIDE DEF nodes, op
<1>4. Placed(nodes)
  BY <1>1, <1>2 DEF Placed, WellFormed
<1>5. /\ Len(more) = n + 2 /\ \A k \in 1 .. n : more[k] = nodes[k]
      /\ more[n + 1] = Var("x") /\ more[n + 2] = Binop(op, n + 1, n)
  BY <1>1
<1>6. ASSUME op # "OP_ASSIGN"
      PROVE  Var("x") \in Expressions /\ Binop(op, n + 1, n) \in Expressions
  <2>1. op \in Operations
    BY <1>1, <1>6 DEF AssignOps, Operations, Arithmetic
  <2>2. n \in Nat /\ n + 1 \in Nat
    BY <1>1
  <2>3. Var("x") \in Expressions
    BY DEF Var, Expressions, Operations, Names
  <2> HIDE DEF n
  <2>4. Binop(op, n + 1, n) \in Expressions
    BY <2>1, <2>2 DEF Binop, Expressions, Names
  <2> QED
    BY <2>3, <2>4
<1>7. op # "OP_ASSIGN" => more \in Seq(Expressions)
  BY <1>1, <1>6
<1> HIDE DEF n, more
<1>8. ASSUME op # "OP_ASSIGN" PROVE Placed(more)
  <2>1. ASSUME NEW k \in 1 .. n + 2
        PROVE  /\ more[k].kind = "var" => more[k].name \in Names
               /\ more[k].kind \in {"unop", "binop"} => more[k].l \in 1 .. k - 1
               /\ more[k].kind = "binop" => more[k].r \in 1 .. k - 1
    <3>1. CASE k \in 1 .. n
      BY <1>4, <1>5, <3>1 DEF Placed, n
    <3>2. CASE k = n + 1
      BY <1>5, <3>2 DEF Var, Names
    <3>3. CASE k = n + 2
      BY <1>1, <1>5, <3>3 DEF Binop
    <3> QED
      BY <1>1, <3>1, <3>2, <3>3
  <2> QED
    BY <1>5, <1>7, <1>8, <2>1 DEF Placed
<1> QED
  BY <1>1, <1>3, <1>4, <1>5, <1>8 DEF nodes, n

LEMMA XTypeType ==
  ASSUME NEW p \in Programs
  PROVE  XType(p) \in DataTypes /\ \A s \in 1 .. Len(p.stmts) : Assigned(p, s) \in DataTypes
<1> DEFINE nodes == p.stmts[1].nodes
<1>1. 1 \in 1 .. Len(p.stmts) /\ p.stmts[1].type \in DataTypes
  <2>1. 1 \in 1 .. Len(p.stmts)
    BY ProgramFacts
  <2> QED
    BY <2>1, ProgramFacts
<1>2. UNKNOWN \in DataTypes
  BY DEF DataTypes
<1>3. Placed(nodes) /\ Len(nodes) \in 1 .. Len(nodes)
  BY <1>1, ProgramPlaced
<1> HIDE DEF nodes
<1>4. Typing(p, nodes, TypesOf(p, nodes, UNKNOWN, UNKNOWN), UNKNOWN, UNKNOWN)
  BY <1>2, <1>3, TypesOfUnfolds
<1>5. TypesOf(p, nodes, UNKNOWN, UNKNOWN)[Len(nodes)] \in DataTypes
  BY <1>2, <1>3, <1>4, TypingTyped
<1> QED
  BY <1>1, <1>5 DEF XType, Assigned, nodes

\* The type of a node is that of the node with the types of its operands.
LEMMA TypesUnfold ==
  ASSUME NEW p \in Programs, NEW s \in 1 .. Len(p.stmts), NEW k \in 1 .. Len(p.stmts[s].nodes)
  PROVE  /\ Types(p, s)[k] = NodeType(p, p.stmts[s].nodes[k], Types(p, s), Assigned(p, s), XType(p))
         /\ Types(p, s)[k] \in DataTypes
<1> DEFINE nodes == Expanded(p, s)
           ty == Types(p, s)
           hint == Assigned(p, s)
           xtype == XType(p)
<1>1. Placed(nodes) /\ k \in 1 .. Len(nodes) /\ nodes[k] = p.stmts[s].nodes[k]
  <2>1. Len(nodes) \in Nat
    BY ProgramPlaced DEF Placed
  <2> QED
    BY <2>1, ProgramPlaced
<1>2. hint \in DataTypes /\ xtype \in DataTypes
  BY XTypeType
<1>3. ty = TypesOf(p, nodes, hint, xtype)
  BY DEF Types
<1> HIDE DEF nodes, ty, hint, xtype
<1>4. Typing(p, nodes, ty, hint, xtype)
  BY <1>1, <1>2, <1>3, TypesOfUnfolds
<1>5. ty[k] \in DataTypes
  BY <1>1, <1>2, <1>4, TypingTyped
<1>6. ty[k] = NodeType(p, nodes[k], ty, hint, xtype)
  BY <1>1, <1>4 DEF Typing
<1> QED
  BY <1>1, <1>5, <1>6 DEF ty, hint, xtype

\* Where x is not read, its type does not matter.
LEMMA TypingUnread ==
  ASSUME NEW p, NEW nodes, Placed(nodes), \A k \in 1 .. Len(nodes) : nodes[k].kind = "var" => nodes[k].name # "x",
         NEW hint, NEW a, NEW b, NEW f, NEW g, Typing(p, nodes, f, hint, a), Typing(p, nodes, g, hint, b)
  PROVE  \A k \in 1 .. Len(nodes) : f[k] = g[k]
<1> DEFINE Wrong == {k \in 1 .. Len(nodes) : f[k] # g[k]}
<1>1. SUFFICES ASSUME Wrong # {} PROVE FALSE
  OBVIOUS
<1>2. Len(nodes) \in Nat
  BY DEF Placed
<1>3. PICK m \in Wrong : \A k \in Wrong : m <= k
  <2>1. Wrong \subseteq Nat
    BY <1>2
  <2> HIDE DEF Wrong
  <2> QED
    BY <1>1, <2>1, Least
<1>4. m \in 1 .. Len(nodes) /\ f[m] # g[m]
  BY <1>3
<1>5. \A k \in 1 .. m - 1 : f[k] = g[k]
  <2>1. \A k \in 1 .. m - 1 : k \in 1 .. Len(nodes) /\ ~(m <= k)
    BY <1>2, <1>4
  <2> QED
    BY <1>3, <2>1
<1> DEFINE e == nodes[m]
<1>6. f[m] = NodeType(p, e, f, hint, a) /\ g[m] = NodeType(p, e, g, hint, b)
  BY <1>4 DEF Typing
<1>7. e.kind \in {"num", "var", "unop", "binop"}
  <2>1. e \in Expressions
    BY <1>4 DEF Placed
  <2> HIDE DEF e
  <2> QED
    BY <2>1 DEF Expressions
<1>8. /\ e.kind = "var" => e.name # "x"
      /\ e.kind \in {"unop", "binop"} => f[e.l] = g[e.l]
      /\ e.kind = "binop" => f[e.r] = g[e.r]
  BY <1>4, <1>5 DEF Placed
<1> HIDE DEF e, Wrong
<1>9. NodeType(p, e, f, hint, a) = NodeType(p, e, g, hint, b)
  <2>1. CASE e.kind = "num"
    BY <2>1 DEF NodeType
  <2>2. CASE e.kind = "var"
    BY <1>8, <2>2 DEF NodeType
  <2>3. CASE e.kind = "unop"
    BY <1>8, <2>3 DEF NodeType
  <2>4. CASE e.kind = "binop"
    BY <1>8, <2>4 DEF NodeType
  <2> QED
    BY <1>7, <2>1, <2>2, <2>3, <2>4
<1> QED
  BY <1>4, <1>6, <1>9

\* x, declared without a type, has that of its first value.
LEMMA XTypeInferred ==
  ASSUME NEW p \in Programs, p.stmts[1].type = UNKNOWN
  PROVE  XType(p) = Types(p, 1)[Len(p.stmts[1].nodes)]
<1> DEFINE nodes == p.stmts[1].nodes
           n == Len(nodes)
           xtype == XType(p)
<1>1. /\ 1 \in 1 .. Len(p.stmts) /\ p.stmts[1].op = "OP_ASSIGN"
      /\ \A k \in 1 .. n : nodes[k].kind = "var" => nodes[k].name # "x"
  <2>1. 1 \in 1 .. Len(p.stmts)
    BY ProgramFacts
  <2> QED
    BY <2>1, ProgramFacts
<1>2. UNKNOWN \in DataTypes /\ xtype \in DataTypes
  BY XTypeType DEF DataTypes
<1>3. Placed(nodes) /\ n \in Nat \ {0}
  BY <1>1, ProgramPlaced
<1>4. Types(p, 1) = TypesOf(p, nodes, UNKNOWN, xtype) /\ xtype = TypesOf(p, nodes, UNKNOWN, UNKNOWN)[n]
  BY <1>1 DEF Types, Expanded, Compound, Assigned, XType
<1> HIDE DEF nodes, xtype
<1> DEFINE f == TypesOf(p, nodes, UNKNOWN, xtype)
           g == TypesOf(p, nodes, UNKNOWN, UNKNOWN)
<1>5. Typing(p, nodes, f, UNKNOWN, xtype) /\ Typing(p, nodes, g, UNKNOWN, UNKNOWN)
  BY <1>2, <1>3, TypesOfUnfolds
<1> HIDE DEF f, g
<1>6. \A k \in 1 .. Len(nodes) : f[k] = g[k]
  BY <1>1, <1>3, <1>5, TypingUnread
<1>7. f[n] = g[n]
  BY <1>3, <1>6
<1> QED
  BY <1>4, <1>7 DEF f, g, nodes, xtype

-----------------------------------------------------------------------------
(* The invariant *)

\* A value has bits, or halves; it fits what it is stored in.
AnyValue == [ir : Irs, known : BOOLEAN, n : Int]
StoredValue(v) == v \in AnyValue /\ FitsIr(v)
\* A compiled node of type t has no value, or one that fits; a truth value is one bit.
NodeValue(v, t) == v = nullptr \/ (StoredValue(v) /\ (t = BOOL => v.ir = Ir(BOOL)))

\* Node k of assignment s has the type that it means, and may be where it is.
NodeMeant(s, k) ==
  LET t == Types(prog, s)[k] IN
  /\ t # UNKNOWN
  /\ \/ types[s][k] = t
     \/ Nodes(s)[k].kind = "unop" /\ types[s][k] = Assigned(prog, s) /\ is_numeric(t) /\ is_numeric(types[s][k])
  /\ NodeIsTyped(Nodes(s)[k], Types(prog, s))
Meant(s) ==
  LET root == Len(Nodes(s)) IN
  /\ \A k \in 1 .. root : NodeMeant(s, k)
  /\ \/ Types(prog, s)[root] = XType(prog)
     \/ is_numeric(Types(prog, s)[root]) /\ is_numeric(XType(prog))

StateInv ==
  /\ prog \in Programs /\ stmt \in Stmts /\ node \in Nat
  /\ pc \in {"assign", "check", "HIRGen", "codegen", "emit", "eval", "verify", "stopped"}
  /\ path \in {"none", "compiled", "interpreted"}
  /\ DOMAIN types = Stmts
  /\ \A s \in Stmts : types[s] \in [1 .. Len(Nodes(s)) -> DataTypes]
  /\ symbol \in DataTypes
  /\ faults \subseteq {"crash", "invalid", "overrun", "died", "RT_ASSIGN_UNSUPPORTED"}
  /\ outcome.verdict \in {"open", "rejected", "ran", "astray"}

\* While nodes are checked, those before this one are as they are meant.
CheckInv ==
  /\ pc = "check" => node \in 1 .. Root + 1 /\ checked \in Seq(DataTypes) /\ Len(checked) = node - 1
  /\ errors # {} => ~WellTyped(prog) \/ ~LiteralsFit(prog)
  /\ errors = {} =>
       /\ stmt = 2 \/ Checked => symbol = XType(prog) /\ symbol # UNKNOWN /\ Meant(1)
       /\ Checked => \A s \in Stmts : Meant(s)
       /\ pc = "check" =>
            /\ \A k \in 1 .. node - 1 : checked[k] = Types(prog, stmt)[k] /\ NodeMeant(stmt, k)
            /\ \A k \in node .. Root : types[stmt][k] = force_numeric_type(k)

\* Variables hold values that fit, and a truth value if they are declared to.
MemoryFits(m) ==
  /\ m \in [Names -> AnyValue]
  /\ \A name \in Names : FitsIr(m[name]) /\ (TypeOf(name) = BOOL => m[name].ir = Ir(BOOL))
\* The values of the nodes before node n of assignment s.
ValuesFit(vs, s, n) ==
  /\ n \in 1 .. Len(Nodes(s)) + 1
  /\ vs \in Seq(AnyValue \cup {nullptr}) /\ Len(vs) = n - 1
  /\ \A k \in 1 .. n - 1 :
       IF path = "compiled" THEN NodeValue(vs[k], Types(prog, s)[k]) ELSE vs[k] \in AnyValue

\* Only a program without errors runs.
RunInv ==
  /\ pc \in {"assign", "check", "HIRGen"} => path = "none"
  /\ pc \in {"codegen", "emit"} => path = "compiled"
  /\ pc = "eval" => path = "interpreted"
  /\ path = "none" => values = << >> /\ mem.x.ir = Ir(BOOL)
  /\ MemoryFits(mem)
  /\ pc \in {"emit", "eval"} => errors = {} /\ ValuesFit(values, stmt, node)

NumInv == StateInv /\ CheckInv /\ RunInv

-----------------------------------------------------------------------------
(* What the invariant says of the assignment that is handled *)

LEMMA StmtFacts ==
  ASSUME StateInv
  PROVE  /\ prog \in Programs /\ Stmts \in {{1}, {1, 2}} /\ Len(prog.stmts) \in {1, 2}
         /\ prog.stmts[1].op = "OP_ASSIGN"
         /\ \A s \in Stmts :
              /\ s \in 1 .. Len(prog.stmts) /\ Nodes(s) = prog.stmts[s].nodes
              /\ Assigned(prog, s) \in DataTypes /\ prog.stmts[s].type \in DataTypes
              /\ prog.stmts[s].op \in AssignOps
              /\ Len(Nodes(s)) \in Nat \ {0}
              /\ \A k \in 1 .. Len(Nodes(s)) :
                   /\ Nodes(s)[k] \in Expressions /\ WellFormed(Nodes(s), k, Names)
                   /\ s = 1 /\ Nodes(s)[k].kind = "var" => Nodes(s)[k].name # "x"
                   /\ Types(prog, s)[k] \in DataTypes
                   /\ Types(prog, s)[k] = NodeType(prog, Nodes(s)[k], Types(prog, s), Assigned(prog, s), XType(prog))
<1>1. prog \in Programs
  BY DEF StateInv
<1>2. Len(prog.stmts) \in {1, 2} /\ Stmts = 1 .. Len(prog.stmts) /\ Stmts \in {{1}, {1, 2}}
  <2>1. Len(prog.stmts) \in {1, 2} /\ Stmts = 1 .. Len(prog.stmts)
    BY <1>1, ProgramFacts DEF Stmts
  <2>2. 1 .. 1 = {1} /\ 1 .. 2 = {1, 2}
    OBVIOUS
  <2> QED
    BY <2>1, <2>2
<1>3. prog.stmts[1].op = "OP_ASSIGN"
  BY <1>1, ProgramFacts
<1>4. ASSUME NEW s \in Stmts
      PROVE  /\ Nodes(s) = prog.stmts[s].nodes
             /\ Assigned(prog, s) \in DataTypes /\ prog.stmts[s].type \in DataTypes
             /\ prog.stmts[s].op \in AssignOps
             /\ Len(Nodes(s)) \in Nat \ {0}
             /\ \A k \in 1 .. Len(Nodes(s)) :
                  /\ Nodes(s)[k] \in Expressions /\ WellFormed(Nodes(s), k, Names)
                  /\ s = 1 /\ Nodes(s)[k].kind = "var" => Nodes(s)[k].name # "x"
  <2>1. s \in 1 .. Len(prog.stmts)
    BY <1>2
  <2> QED
    BY <1>1, <2>1, ProgramFacts, XTypeType DEF Nodes
<1>5. ASSUME NEW s \in Stmts, NEW k \in 1 .. Len(Nodes(s))
      PROVE  /\ Types(prog, s)[k] \in DataTypes
             /\ Types(prog, s)[k] = NodeType(prog, Nodes(s)[k], Types(prog, s), Assigned(prog, s), XType(prog))
  <2>1. s \in 1 .. Len(prog.stmts) /\ k \in 1 .. Len(prog.stmts[s].nodes)
    BY <1>2, <1>4
  <2> QED
    BY <1>1, <1>4, <2>1, TypesUnfold
<1> QED
  BY <1>1, <1>2, <1>3, <1>4, <1>5

LEMMA CheckFacts ==
  ASSUME NumInv, pc = "check", node <= Root
  PROVE  LET ty == Types(prog, stmt) IN
         /\ stmt \in Stmts /\ node \in 1 .. Root /\ Root \in Nat /\ This = Nodes(stmt)[node]
         /\ This \in Expressions /\ WellFormed(Nodes(stmt), node, Names)
         /\ lhs_t \in DataTypes /\ types[stmt][node] \in DataTypes
         /\ This.kind = "var" => TypeOf(This.name) \in DataTypes
         /\ This.kind \in {"unop", "binop"} => Left \in DataTypes
         /\ This.kind = "binop" => Right \in DataTypes
         /\ errors = {} =>
              /\ ty[node] = NodeType(prog, This, ty, lhs_t, XType(prog))
              /\ lhs_t = Assigned(prog, stmt) /\ types[stmt][node] = force_numeric_type(node)
              /\ This.kind = "var" => TypeOf(This.name) = ty[node] /\ ty[node] # UNKNOWN
              /\ This.kind \in {"unop", "binop"} => Left = ty[This.l] /\ Left # UNKNOWN
              /\ This.kind = "binop" => Right = ty[This.r] /\ Right # UNKNOWN
<1> DEFINE ty == Types(prog, stmt)
<1> USE DEF NumInv
<1>1. stmt \in Stmts /\ Stmts \in {{1}, {1, 2}} /\ StateInv
  BY StmtFacts DEF StateInv
<1>2. Root \in Nat /\ node \in 1 .. Root /\ Len(checked) = node - 1 /\ checked \in Seq(DataTypes)
  BY <1>1, StmtFacts DEF CheckInv, Root
<1>3. /\ This \in Expressions /\ WellFormed(Nodes(stmt), node, Names)
      /\ stmt = 1 /\ This.kind = "var" => This.name # "x"
      /\ ty[node] \in DataTypes
      /\ ty[node] = NodeType(prog, This, ty, Assigned(prog, stmt), XType(prog))
  BY <1>1, <1>2, StmtFacts DEF This, Root
<1>4. lhs_t \in DataTypes /\ types[stmt][node] \in DataTypes
  <2>1. prog.stmts[1].type \in DataTypes /\ symbol \in DataTypes
    BY <1>1, StmtFacts DEF StateInv
  <2> QED
    BY <1>1, <1>2, <2>1 DEF lhs_t, StateInv, Root
<1>5. This.kind = "var" => This.name \in Names /\ TypeOf(This.name) \in DataTypes
  <2>1. This.kind = "var" => This.name \in Names
    BY <1>3 DEF WellFormed, This
  <2>2. prog.y.type \in DataTypes /\ prog.z.type \in DataTypes
    <3>1. prog.y \in Variables /\ prog.z \in Variables
      BY <1>1, ProgramFacts DEF StateInv
    <3> QED
      BY <3>1 DEF Variables, DataTypes
  <2>3. symbol \in DataTypes
    BY <1>1 DEF StateInv
  <2> QED
    BY <2>1, <2>2, <2>3 DEF TypeOf, Names
<1>6. This.kind \in {"unop", "binop"} => This.l \in 1 .. node - 1 /\ Left \in DataTypes
  BY <1>2, <1>3 DEF WellFormed, This, Left
<1>7. This.kind = "binop" => This.r \in 1 .. node - 1 /\ Right \in DataTypes
  BY <1>2, <1>3 DEF WellFormed, This, Right
<1>8. ASSUME errors = {}
      PROVE  /\ lhs_t = Assigned(prog, stmt) /\ types[stmt][node] = force_numeric_type(node)
             /\ This.kind = "var" => TypeOf(This.name) = ty[node] /\ ty[node] # UNKNOWN
             /\ This.kind \in {"unop", "binop"} => Left = ty[This.l] /\ Left # UNKNOWN
             /\ This.kind = "binop" => Right = ty[This.r] /\ Right # UNKNOWN
  <2>1. /\ stmt = 2 => symbol = XType(prog) /\ symbol # UNKNOWN
        /\ \A k \in 1 .. node - 1 : checked[k] = ty[k] /\ NodeMeant(stmt, k)
        /\ \A k \in node .. Root : types[stmt][k] = force_numeric_type(k)
    BY <1>8 DEF CheckInv
  <2>2. lhs_t = Assigned(prog, stmt)
    BY <1>1, <2>1 DEF lhs_t, Assigned
  <2>3. types[stmt][node] = force_numeric_type(node)
    BY <1>2, <2>1
  <2>4. ASSUME This.kind = "var" PROVE TypeOf(This.name) = ty[node] /\ ty[node] # UNKNOWN
    <3>1. ty[node] = IF This.name = "x" THEN XType(prog) ELSE prog[This.name].type
      BY <1>3, <2>4 DEF NodeType
    <3>2. prog.y.type # UNKNOWN /\ prog.z.type # UNKNOWN
      <4>1. prog.y \in Variables /\ prog.z \in Variables
        BY <1>1, ProgramFacts DEF StateInv
      <4> QED
        BY <4>1, TypeFacts DEF Variables, DataTypes
    <3>3. This.name = "x" => stmt = 2
      BY <1>1, <1>3, <2>4
    <3> QED
      BY <1>5, <2>1, <2>4, <3>1, <3>2, <3>3 DEF TypeOf, Names
  <2>5. \A k \in 1 .. node - 1 : checked[k] = ty[k] /\ ty[k] # UNKNOWN
    BY <2>1 DEF NodeMeant
  <2> QED
    BY <1>6, <1>7, <2>2, <2>3, <2>4, <2>5 DEF Left, Right
<1>9. This = Nodes(stmt)[node]
  BY DEF This
<1> HIDE DEF NumInv
<1> QED
  BY <1>1, <1>2, <1>3, <1>4, <1>5, <1>6, <1>7, <1>8, <1>9

-----------------------------------------------------------------------------
(* Steps of the semantic pass *)

\* Node is given the type t and returned the type r; without an error, r is what it means.
Judges(t, r) ==
  LET ty == Types(prog, stmt) IN
  IF errors' = {}
    THEN /\ r = ty[node] /\ r # UNKNOWN
         /\ t = r \/ (This.kind = "unop" /\ t = lhs_t /\ is_numeric(r) /\ is_numeric(t))
         /\ NodeIsTyped(This, ty)
    ELSE ~NodeIsTyped(This, ty)

\* A node that is not typed makes the program ill-typed.
LEMMA IllTyped ==
  ASSUME StateInv, NEW s \in Stmts, NEW k \in 1 .. Len(Nodes(s)), ~NodeIsTyped(Nodes(s)[k], Types(prog, s))
  PROVE  ~WellTyped(prog)
<1>1. s \in 1 .. Len(prog.stmts) /\ k \in 1 .. Len(prog.stmts[s].nodes) /\ Nodes(s) = prog.stmts[s].nodes
  BY StmtFacts
<1> QED
  BY <1>1 DEF WellTyped

LEMMA TypedStep ==
  ASSUME NumInv, NEW kind, Check(kind), NEW t \in DataTypes, NEW r \in DataTypes, Typed(t, r),
         UNCHANGED <<path, codeVars, outcome>>,
         errors \subseteq errors', errors = {} => Judges(t, r)
  PROVE  NumInv'
<1> DEFINE ty == Types(prog, stmt)
<1>1. pc = "check" /\ node <= Root
  BY DEF Check
<1>2. /\ stmt \in Stmts /\ node \in 1 .. Root /\ Root \in Nat /\ This = Nodes(stmt)[node]
      /\ types[stmt][node] \in DataTypes
      /\ errors = {} => lhs_t = Assigned(prog, stmt) /\ types[stmt][node] = force_numeric_type(node)
  BY <1>1, CheckFacts
<1>3. /\ types' = [types EXCEPT ![stmt][node] = t] /\ checked' = Append(checked, r) /\ node' = node + 1
      /\ prog' = prog /\ pc' = pc /\ stmt' = stmt /\ symbol' = symbol
      /\ path' = path /\ values' = values /\ mem' = mem /\ faults' = faults /\ outcome' = outcome
  BY DEF Typed, codeVars
<1>4. Stmts' = Stmts /\ Root' = Root /\ \A s : Nodes(s)' = Nodes(s)
  BY <1>3 DEF Stmts, Root, Nodes
<1>5. StateInv
  BY DEF NumInv
<1>6. /\ DOMAIN types' = Stmts
      /\ types'[stmt] = [types[stmt] EXCEPT ![node] = t]
      /\ \A s \in Stmts : s # stmt => types'[s] = types[s]
  BY <1>2, <1>3, <1>5 DEF StateInv
<1>7. /\ types'[stmt] \in [1 .. Root -> DataTypes] /\ types'[stmt][node] = t
      /\ \A k \in 1 .. Root : k # node => types'[stmt][k] = types[stmt][k]
  <2>1. types[stmt] \in [1 .. Root -> DataTypes]
    BY <1>2, <1>5 DEF StateInv, Root
  <2> QED
    BY <1>2, <1>6, <2>1
<1>8. StateInv'
  <2>1. \A s \in Stmts : types'[s] \in [1 .. Len(Nodes(s)) -> DataTypes]
    BY <1>5, <1>6, <1>7 DEF StateInv, Root
  <2>2. node' \in Nat
    BY <1>2, <1>3
  <2> QED
    BY <1>3, <1>4, <1>5, <1>6, <2>1, <2>2 DEF StateInv
<1>9. /\ checked \in Seq(DataTypes) /\ Len(checked) = node - 1
      /\ errors # {} => ~WellTyped(prog) \/ ~LiteralsFit(prog)
      /\ errors = {} =>
           /\ stmt = 2 => symbol = XType(prog) /\ symbol # UNKNOWN /\ Meant(1)
           /\ \A k \in 1 .. node - 1 : checked[k] = ty[k] /\ NodeMeant(stmt, k)
           /\ \A k \in node .. Root : types[stmt][k] = force_numeric_type(k)
  BY <1>1 DEF NumInv, CheckInv
<1>10. checked' \in Seq(DataTypes) /\ Len(checked') = node' - 1 /\ node' \in 1 .. Root + 1
  BY <1>2, <1>3, <1>9
<1>11. ASSUME errors' # {} PROVE ~WellTyped(prog) \/ ~LiteralsFit(prog)
  <2>1. CASE errors # {}
    BY <1>9, <2>1
  <2>2. CASE errors = {}
    <3>1. ~NodeIsTyped(Nodes(stmt)[node], Types(prog, stmt))
      BY <1>2, <1>11, <2>2 DEF Judges
    <3> QED
      BY <1>2, <1>5, <3>1, IllTyped DEF Root
  <2> QED
    BY <2>1, <2>2
<1>12. ASSUME errors' = {}
       PROVE  /\ stmt = 2 => symbol = XType(prog) /\ symbol # UNKNOWN /\ Meant(1)'
              /\ \A k \in 1 .. node' - 1 : checked'[k] = ty[k] /\ NodeMeant(stmt, k)'
              /\ \A k \in node' .. Root : types'[stmt][k] = force_numeric_type(k)
  <2>1. errors = {} /\ Judges(t, r)
    BY <1>12
  <2>2. ASSUME NEW s \in Stmts, NEW k, types'[s][k] = types[s][k], NodeMeant(s, k) PROVE NodeMeant(s, k)'
    BY <1>3, <1>4, <2>2 DEF NodeMeant
  <2>3. ASSUME stmt = 2 PROVE Meant(1)'
    <3>1. 1 \in Stmts /\ types'[1] = types[1]
      BY <1>2, <1>5, <1>6, <2>3, StmtFacts
    <3>2. Meant(1)
      BY <1>9, <2>1, <2>3
    <3>3. \A k \in 1 .. Len(Nodes(1)) : NodeMeant(1, k)'
      BY <2>2, <3>1, <3>2 DEF Meant
    <3> QED
      BY <1>3, <1>4, <3>2, <3>3 DEF Meant
  <2>4. ASSUME NEW k, k = node PROVE NodeMeant(stmt, k)'
    <3>1. /\ r = ty[node] /\ r # UNKNOWN
          /\ t = r \/ (This.kind = "unop" /\ t = lhs_t /\ is_numeric(r) /\ is_numeric(t))
          /\ NodeIsTyped(This, ty)
      BY <1>12, <2>1 DEF Judges
    <3> QED
      BY <1>2, <1>3, <1>4, <1>7, <2>1, <2>4, <3>1 DEF NodeMeant
  <2>5. ASSUME NEW k \in 1 .. node' - 1 PROVE checked'[k] = ty[k] /\ NodeMeant(stmt, k)'
    <3>1. CASE k = node
      <4>1. checked'[k] = r
        BY <1>2, <1>3, <1>9, <3>1
      <4>2. r = ty[node]
        BY <1>12, <2>1 DEF Judges
      <4>3. NodeMeant(stmt, k)'
        BY <2>4, <3>1
      <4> QED
        BY <3>1, <4>1, <4>2, <4>3
    <3>2. CASE k # node
      <4>1. k \in 1 .. node - 1 /\ k \in 1 .. Root
        BY <1>2, <1>3, <3>2
      <4>2. checked'[k] = checked[k]
        BY <1>2, <1>3, <1>9, <4>1
      <4>3. types'[stmt][k] = types[stmt][k]
        BY <1>7, <3>2, <4>1
      <4>4. \A s : s = stmt => NodeMeant(s, k)'
        BY <1>2, <1>9, <2>1, <2>2, <4>1, <4>3
      <4>5. NodeMeant(stmt, k)'
        BY <1>3, <4>4
      <4> QED
        BY <1>9, <2>1, <4>1, <4>2, <4>5
    <3> QED
      BY <3>1, <3>2
  <2>6. \A k \in node' .. Root : types'[stmt][k] = force_numeric_type(k)
    <3>1. \A k \in node' .. Root : k \in node .. Root /\ k \in 1 .. Root /\ k # node
      BY <1>2, <1>3
    <3> QED
      BY <1>7, <1>9, <2>1, <3>1
  <2> QED
    BY <1>9, <2>1, <2>3, <2>5, <2>6
<1>13. ~Checked'
  BY <1>1, <1>3 DEF Checked
<1>14. \A k : force_numeric_type(k)' = force_numeric_type(k)
  BY <1>3, <1>4 DEF force_numeric_type, lhs_t
<1>15. CheckInv'
  BY <1>1, <1>3, <1>4, <1>10, <1>11, <1>12, <1>13, <1>14 DEF CheckInv
<1>16. RunInv'
  <2>1. RunInv
    BY DEF NumInv
  <2>2. \A name : TypeOf(name)' = TypeOf(name)
    BY <1>3 DEF TypeOf
  <2> QED
    BY <1>1, <1>3, <2>1, <2>2 DEF RunInv, MemoryFits
<1> QED
  BY <1>8, <1>15, <1>16 DEF NumInv

Stays == UNCHANGED <<path, codeVars, outcome>>

LEMMA Tested ==
  ASSUME NEW ok, NEW code, Test(ok, code)
  PROVE  errors \subseteq errors' /\ (errors' = {} => ok) /\ (errors = {} /\ errors' # {} => ~ok)
BY DEF Test, Error

LEMMA NamesAreTyped ==
  ASSUME NEW e, NEW ty, e.kind \in {"num", "var"}
  PROVE  NodeIsTyped(e, ty)
BY DEF NodeIsTyped

LEMMA HandleNum == ASSUME NumInv, handle_num, Stays PROVE NumInv'
<1> DEFINE t == IF is_numeric(lhs_t) THEN lhs_t ELSE IF This.dot THEN F32 ELSE I32
<1>1. Check("num") /\ Typed(t, t) /\ errors' = errors /\ pc = "check" /\ node <= Root /\ This.kind = "num"
  BY DEF handle_num, Check
<1>2. lhs_t \in DataTypes
  BY <1>1, CheckFacts
<1>3. F32 \in NumericTypes /\ I32 \in NumericTypes
  BY DEF F32, I32, FloatOf, SignedOf, NumericTypes, IntTypes, FloatTypes, Sizes
<1>4. t \in DataTypes /\ t # UNKNOWN
  BY <1>2, <1>3, TypeFacts DEF DataTypes
<1>5. ASSUME errors = {} PROVE Judges(t, t)
  <2>1. Types(prog, stmt)[node] = NodeType(prog, This, Types(prog, stmt), lhs_t, XType(prog))
    BY <1>1, <1>5, CheckFacts
  <2>2. Types(prog, stmt)[node] = t
    BY <1>1, <2>1 DEF NodeType
  <2>3. NodeIsTyped(This, Types(prog, stmt))
    BY <1>1, NamesAreTyped
  <2> QED
    BY <1>1, <1>4, <1>5, <2>2, <2>3 DEF Judges
<1> HIDE DEF t
<1> QED
  BY <1>1, <1>4, <1>5, TypedStep DEF Stays

LEMMA CheckVar == ASSUME NumInv, check_var, Stays PROVE NumInv'
<1> DEFINE t == TypeOf(This.name)
<1>1. Check("var") /\ Typed(t, t) /\ errors' = errors /\ pc = "check" /\ node <= Root /\ This.kind = "var"
  BY DEF check_var, Check
<1>2. t \in DataTypes
  BY <1>1, CheckFacts
<1>3. ASSUME errors = {} PROVE Judges(t, t)
  <2>1. t = Types(prog, stmt)[node] /\ Types(prog, stmt)[node] # UNKNOWN
    BY <1>1, <1>3, CheckFacts
  <2>2. NodeIsTyped(This, Types(prog, stmt))
    BY <1>1, NamesAreTyped
  <2> QED
    BY <1>1, <1>3, <2>1, <2>2 DEF Judges
<1> HIDE DEF t
<1> QED
  BY <1>1, <1>2, <1>3, TypedStep DEF Stays

LEMMA CheckUnop == ASSUME NumInv, unop, Stays PROVE NumInv'
<1> DEFINE ty == Types(prog, stmt)
<1>1. Check("unop") /\ pc = "check" /\ node <= Root /\ This.kind = "unop"
  BY DEF unop, Check
<1>2. /\ This.op \in Unary /\ Left \in DataTypes /\ types[stmt][node] \in DataTypes
      /\ errors = {} =>
           /\ ty[node] = NodeType(prog, This, ty, lhs_t, XType(prog))
           /\ types[stmt][node] = force_numeric_type(node)
           /\ Left = ty[This.l] /\ Left # UNKNOWN
  BY <1>1, CheckFacts DEF WellFormed
<1>3. BOOL \in DataTypes /\ BOOL # UNKNOWN
  BY TypeFacts DEF DataTypes
<1>4. CASE This.op = "OP_NOT"
  <2>1. Typed(BOOL, BOOL) /\ Test(Left = BOOL, "type_error")
    BY <1>4 DEF unop
  <2>2. errors \subseteq errors' /\ (errors' = {} => Left = BOOL) /\ (errors = {} /\ errors' # {} => Left # BOOL)
    BY <2>1, Tested
  <2>3. ASSUME errors = {} PROVE Judges(BOOL, BOOL)
    <3>1. ty[node] = BOOL
      BY <1>1, <1>2, <1>4, <2>3 DEF NodeType
    <3>2. NodeIsTyped(This, ty) <=> Left = BOOL
      BY <1>1, <1>2, <1>4, <2>3 DEF NodeIsTyped, Logic, Arithmetic, BitwiseOps, Comparisons,
         is_integer, is_float, is_numeric
    <3> QED
      BY <1>3, <2>2, <2>3, <3>1, <3>2 DEF Judges
  <2> QED
    BY <1>1, <1>3, <2>1, <2>2, <2>3, TypedStep DEF Stays
<1>5. CASE This.op # "OP_NOT"
  <2> DEFINE t == IF types[stmt][node] = UNKNOWN THEN Left ELSE types[stmt][node]
             ok == is_numeric(Left) /\ (This.op = "OP_BITNOT" => is_integer(Left))
  <2>1. Typed(t, Left) /\ Test(ok, "SEM_UNARY_NEEDS_NUM")
    BY <1>5 DEF unop
  <2>2. errors \subseteq errors' /\ (errors' = {} => ok) /\ (errors = {} /\ errors' # {} => ~ok)
    BY <2>1, Tested
  <2>3. t \in DataTypes
    BY <1>2
  <2>4. ASSUME errors = {} PROVE Judges(t, Left)
    <3>1. ty[node] = Left
      BY <1>1, <1>2, <1>5, <2>4 DEF NodeType
    <3>2. NodeIsTyped(This, ty) <=> ok
      <4>1. is_integer(Left) => is_numeric(Left)
        BY DEF is_numeric
      <4> QED
        BY <1>1, <1>2, <1>5, <2>4, <4>1 DEF NodeIsTyped, Logic, Arithmetic, BitwiseOps,
           Comparisons, Unary, is_integer, is_float, is_numeric
    <3>3. t = Left \/ (t = lhs_t /\ is_numeric(t))
      BY <1>2, <2>4 DEF force_numeric_type
    <3> QED
      BY <1>1, <1>2, <2>2, <2>4, <3>1, <3>2, <3>3 DEF Judges
  <2> HIDE DEF t
  <2> QED
    BY <1>1, <1>2, <2>1, <2>2, <2>3, <2>4, TypedStep DEF Stays
<1> QED
  BY <1>4, <1>5

LEMMA CheckCompare == ASSUME NumInv, binop_compare \/ binop_logic, Stays PROVE NumInv'
<1> DEFINE ty == Types(prog, stmt)
           ok == IF This.op \in Logic THEN Left = BOOL /\ Right = BOOL
                 ELSE \/ is_numeric(Left) /\ is_numeric(Right)
                      \/ This.op \in {"OP_EQ", "OP_NEQ"} /\ Left = Right
<1>1. /\ Check("binop") /\ This.op \in Comparisons \cup Logic /\ Typed(BOOL, BOOL)
      /\ Test(ok, "SEM_CMP_NEEDS_NUM") \/ Test(ok, "SEM_LOGIC_NEEDS_BOOL")
  BY DEF binop_compare, binop_logic, Comparisons, Logic
<1>2. pc = "check" /\ node <= Root /\ This.kind = "binop"
  BY <1>1 DEF Check
<1>3. errors = {} =>
        /\ ty[node] = NodeType(prog, This, ty, lhs_t, XType(prog))
        /\ Left = ty[This.l] /\ Right = ty[This.r]
  BY <1>2, CheckFacts
<1>4. BOOL \in DataTypes /\ BOOL # UNKNOWN
  BY TypeFacts DEF DataTypes
<1>5. errors \subseteq errors' /\ (errors' = {} => ok) /\ (errors = {} /\ errors' # {} => ~ok)
  <2> HIDE DEF ok
  <2> QED
    BY <1>1, Tested
<1>6. ASSUME errors = {} PROVE Judges(BOOL, BOOL)
  <2>1. ty[node] = BOOL
    BY <1>1, <1>2, <1>3, <1>6 DEF NodeType, Comparisons, Logic, Arithmetic
  <2>2. NodeIsTyped(This, ty) <=> ok
    BY <1>1, <1>2, <1>3, <1>6 DEF NodeIsTyped, Comparisons, Logic, Arithmetic, BitwiseOps
  <2> QED
    BY <1>4, <1>5, <1>6, <2>1, <2>2 DEF Judges
<1> QED
  BY <1>1, <1>4, <1>5, <1>6, TypedStep DEF Stays

LEMMA CheckArithmetic == ASSUME NumInv, binop_arithmetic, Stays PROVE NumInv'
<1> DEFINE ty == Types(prog, stmt)
           t == promote(Left, Right)
           ok == /\ is_numeric(Left) /\ is_numeric(Right)
                 /\ This.op \in BitwiseOps => is_integer(Left) /\ is_integer(Right)
<1>1. Check("binop") /\ This.op \in Arithmetic /\ Typed(t, t) /\ Test(ok, "SEM_NUMOP_NEEDS_NUM")
  BY DEF binop_arithmetic
<1>2. pc = "check" /\ node <= Root /\ This.kind = "binop"
  BY <1>1 DEF Check
<1>3. /\ Left \in DataTypes /\ Right \in DataTypes
      /\ errors = {} =>
           /\ ty[node] = NodeType(prog, This, ty, lhs_t, XType(prog))
           /\ Left = ty[This.l] /\ Right = ty[This.r]
  BY <1>2, CheckFacts
<1>4. t \in DataTypes /\ t # UNKNOWN
  <2>1. t \in NumericTypes
    BY <1>3, PromoteType
  <2> QED
    BY <2>1, TypeFacts DEF DataTypes
<1>5. errors \subseteq errors' /\ (errors' = {} => ok) /\ (errors = {} /\ errors' # {} => ~ok)
  <2> HIDE DEF ok
  <2> QED
    BY <1>1, Tested
<1>6. ASSUME errors = {} PROVE Judges(t, t)
  <2>1. NodeIsTyped(This, ty) <=> ok
    <3>1. is_integer(Left) => is_numeric(Left)
      BY DEF is_numeric
    <3>2. is_integer(Right) => is_numeric(Right)
      BY DEF is_numeric
    <3> HIDE DEF t
    <3> QED
      BY <1>1, <1>2, <1>3, <1>6, <3>1, <3>2 DEF NodeIsTyped, Logic, Arithmetic, BitwiseOps,
         Comparisons, is_integer, is_float, is_numeric
  <2>2. errors' = {} => ty[node] = t
    <3>1. ASSUME errors' = {} PROVE Left \in NumericTypes /\ Right \in NumericTypes
      BY <1>3, <1>5, <3>1, TypeFacts
    <3>2. errors' = {} => t = Promoted(Left, Right)
      BY <3>1, PromoteMeans
    <3> HIDE DEF t
    <3> QED
      BY <1>1, <1>2, <1>3, <1>6, <3>2 DEF NodeType
  <2> HIDE DEF t
  <2> QED
    BY <1>4, <1>5, <1>6, <2>1, <2>2 DEF Judges
<1> HIDE DEF t
<1> QED
  BY <1>1, <1>4, <1>5, <1>6, TypedStep DEF Stays

LEMMA MeantKept ==
  ASSUME prog' = prog, NEW s, types'[s] = types[s], Meant(s)
  PROVE  Meant(s)'
<1>1. Nodes(s)' = Nodes(s)
  BY DEF Nodes
<1>2. ASSUME NEW k, NodeMeant(s, k) PROVE NodeMeant(s, k)'
  BY <1>1, <1>2 DEF NodeMeant
<1> QED
  BY <1>1, <1>2 DEF Meant

LEMMA ResolveTargetType == ASSUME NumInv, resolve_target_type, Stays PROVE NumInv'
<1>1. /\ pc = "assign" /\ pc' = "check" /\ node' = 1 /\ checked' = << >>
      /\ types' = [types EXCEPT ![stmt] = [k \in 1 .. Root |-> force_numeric_type(k)]]
      /\ prog' = prog /\ errors' = errors /\ stmt' = stmt /\ symbol' = symbol
      /\ path' = path /\ values' = values /\ mem' = mem /\ faults' = faults /\ outcome' = outcome
  BY DEF resolve_target_type, Stays, codeVars
<1>2. StateInv /\ CheckInv /\ RunInv
  BY DEF NumInv
<1>3. /\ Stmts' = Stmts /\ Root' = Root /\ \A s : Nodes(s)' = Nodes(s)
      /\ \A k : force_numeric_type(k)' = force_numeric_type(k)
      /\ \A name : TypeOf(name)' = TypeOf(name)
  BY <1>1 DEF Stmts, Root, Nodes, force_numeric_type, lhs_t, TypeOf
<1>4. stmt \in Stmts /\ Root \in Nat \ {0} /\ UNKNOWN \in DataTypes
  BY <1>2, StmtFacts DEF StateInv, Root, DataTypes
<1>5. lhs_t \in DataTypes
  <2>1. prog.stmts[1].type \in DataTypes
    BY <1>2, StmtFacts
  <2> QED
    BY <1>2, <2>1 DEF lhs_t, StateInv
<1>6. /\ types'[stmt] = [k \in 1 .. Root |-> force_numeric_type(k)] /\ DOMAIN types' = Stmts
      /\ \A s \in Stmts : s # stmt => types'[s] = types[s]
  BY <1>1, <1>2, <1>4 DEF StateInv
<1>7. \A s \in Stmts : types'[s] \in [1 .. Len(Nodes(s)) -> DataTypes]
  <2>1. types'[stmt] \in [1 .. Root -> DataTypes]
    BY <1>4, <1>5, <1>6 DEF force_numeric_type
  <2> QED
    BY <1>2, <1>6, <2>1 DEF StateInv, Root
<1>8. StateInv'
  BY <1>1, <1>2, <1>3, <1>6, <1>7 DEF StateInv
<1>9. ASSUME errors = {}, stmt = 2 PROVE symbol = XType(prog) /\ symbol # UNKNOWN /\ Meant(1)'
  <2>1. symbol = XType(prog) /\ symbol # UNKNOWN /\ Meant(1)
    BY <1>2, <1>9 DEF CheckInv
  <2>2. 1 \in Stmts
    BY <1>2, StmtFacts
  <2> QED
    BY <1>1, <1>6, <1>9, <2>1, <2>2, MeantKept
<1>10. CheckInv'
  <2>1. checked' \in Seq(DataTypes) /\ Len(checked') = 0 /\ node' \in 1 .. Root + 1
    BY <1>1, <1>4
  <2>2. errors # {} => ~WellTyped(prog) \/ ~LiteralsFit(prog)
    BY <1>2 DEF CheckInv
  <2>3. \A k \in node' .. Root : types'[stmt][k] = force_numeric_type(k)
    BY <1>1, <1>4, <1>6
  <2>4. ~Checked'
    BY <1>1 DEF Checked
  <2> QED
    BY <1>1, <1>3, <1>9, <2>1, <2>2, <2>3, <2>4 DEF CheckInv
<1>11. RunInv'
  BY <1>1, <1>2, <1>3 DEF RunInv, MemoryFits
<1> QED
  BY <1>8, <1>10, <1>11 DEF NumInv

\* A statement whose last node is no value for x makes the program ill-typed.
LEMMA Mismatched ==
  ASSUME StateInv, NEW s \in Stmts, NEW t, t = Types(prog, s)[Len(Nodes(s))],
         t # XType(prog), ~(is_numeric(t) /\ is_numeric(XType(prog)))
  PROVE  ~WellTyped(prog)
<1>1. s \in 1 .. Len(prog.stmts) /\ Nodes(s) = prog.stmts[s].nodes
  BY StmtFacts
<1> QED
  BY <1>1 DEF WellTyped

LEMMA ProcessDeclaration == ASSUME NumInv, process_declaration, Stays PROVE NumInv'
<1> DEFINE e == Nodes(1)[Root]
           ty == Types(prog, 1)
           r == checked[Root]
           overflow == e.kind = "num" /\ is_numeric(symbol') /\ ~literal_fits_type(e, symbol')
           fits == r = symbol' \/ (is_numeric(r) /\ is_numeric(symbol'))
<1>1. /\ pc = "check" /\ node > Root /\ stmt = 1 /\ symbol' = IF lhs_t = UNKNOWN THEN r ELSE lhs_t
      /\ errors' = errors \cup (IF overflow THEN {"SEM_NUMERIC_LITERAL_OVERFLOW"} ELSE {})
                          \cup (IF fits THEN {} ELSE {"SEM_ASSIGN_TYPE_MISMATCH"})
      /\ types' = IF e.kind = "num" THEN [types EXCEPT ![1][Root] = symbol'] ELSE types
      /\ pc' = IF Len(prog.stmts) > 1 THEN "assign" ELSE "HIRGen"
      /\ stmt' = IF Len(prog.stmts) > 1 THEN 2 ELSE 1
      /\ prog' = prog /\ node' = node /\ checked' = checked
      /\ path' = path /\ values' = values /\ mem' = mem /\ faults' = faults /\ outcome' = outcome
  BY DEF process_declaration, Stays, codeVars
<1>2. StateInv /\ CheckInv /\ RunInv
  BY DEF NumInv
<1>3. /\ Stmts' = Stmts /\ \A s : Nodes(s)' = Nodes(s)
      /\ \A name : name # "x" => TypeOf(name)' = TypeOf(name)
      /\ TypeOf("x") = symbol /\ TypeOf("x")' = symbol'
  BY <1>1 DEF Stmts, Nodes, TypeOf
<1>4. /\ Root = Len(Nodes(1)) /\ Root \in Nat \ {0} /\ Root \in 1 .. Root /\ Stmts \in {{1}, {1, 2}} /\ 1 \in Stmts
      /\ Len(prog.stmts) \in {1, 2} /\ Stmts = 1 .. Len(prog.stmts) /\ prog \in Programs
      /\ prog.stmts[1].type \in DataTypes
      /\ lhs_t = prog.stmts[1].type /\ Assigned(prog, 1) = lhs_t /\ node = Root + 1
      /\ Len(checked) = Root /\ checked \in Seq(DataTypes)
  <2>1. Stmts \in {{1}, {1, 2}} /\ Len(prog.stmts) \in {1, 2} /\ Stmts = 1 .. Len(prog.stmts) /\ prog \in Programs
    BY <1>2, StmtFacts DEF Stmts
  <2>2. 1 \in Stmts
    BY <2>1
  <2>3. Root = Len(Nodes(1)) /\ Root \in Nat \ {0} /\ prog.stmts[1].type \in DataTypes
    BY <1>1, <1>2, <2>2, StmtFacts DEF Root
  <2>4. lhs_t = prog.stmts[1].type /\ Assigned(prog, 1) = lhs_t
    BY <1>1 DEF lhs_t, Assigned
  <2>5. node \in 1 .. Root + 1 /\ Len(checked) = node - 1 /\ checked \in Seq(DataTypes)
    BY <1>1, <1>2 DEF CheckInv
  <2>6. node = Root + 1
    BY <1>1, <2>3, <2>5
  <2> QED
    BY <2>1, <2>2, <2>3, <2>4, <2>5, <2>6
<1>5. r \in DataTypes /\ symbol' \in DataTypes
  BY <1>1, <1>4
<1>6. /\ DOMAIN types' = Stmts /\ types'[1] \in [1 .. Root -> DataTypes]
      /\ types'[1][Root] = IF e.kind = "num" THEN symbol' ELSE types[1][Root]
      /\ \A k \in 1 .. Root : k # Root => types'[1][k] = types[1][k]
      /\ \A s \in Stmts : s # 1 => types'[s] = types[s]
  <2>1. types[1] \in [1 .. Root -> DataTypes] /\ DOMAIN types = Stmts
    BY <1>2, <1>4 DEF StateInv
  <2> QED
    BY <1>1, <1>4, <1>5, <2>1
<1>7. StateInv'
  <2>1. \A s \in Stmts : types'[s] \in [1 .. Len(Nodes(s)) -> DataTypes]
    BY <1>2, <1>4, <1>6 DEF StateInv
  <2>2. stmt' \in Stmts
    BY <1>1, <1>4
  <2> QED
    BY <1>1, <1>2, <1>3, <1>5, <1>6, <2>1, <2>2 DEF StateInv
<1>8. ASSUME errors = {}
      PROVE  /\ r = ty[Root] /\ r # UNKNOWN /\ \A k \in 1 .. Root : NodeMeant(1, k)
             /\ symbol' = XType(prog) /\ symbol' # UNKNOWN
             /\ e.kind = "num" /\ (is_numeric(symbol') \/ r = symbol') => ty[Root] = symbol'
  <2>1. \A k \in 1 .. Root : checked[k] = ty[k] /\ NodeMeant(1, k)
    BY <1>1, <1>2, <1>4, <1>8 DEF CheckInv
  <2>2. r = ty[Root] /\ r # UNKNOWN
    BY <1>4, <2>1 DEF NodeMeant
  <2>3. symbol' = XType(prog)
    <3>1. CASE lhs_t = UNKNOWN
      <4>1. XType(prog) = ty[Len(prog.stmts[1].nodes)]
        BY <1>4, <3>1, XTypeInferred
      <4> QED
        BY <1>1, <1>4, <2>2, <3>1, <4>1 DEF Nodes
    <3>2. CASE lhs_t # UNKNOWN
      BY <1>1, <1>4, <3>2 DEF XType
    <3> QED
      BY <3>1, <3>2
  <2>4. ASSUME e.kind = "num", is_numeric(symbol') PROVE ty[Root] = symbol'
    <3>1. CASE lhs_t = UNKNOWN
      BY <1>1, <2>2, <3>1
    <3>2. CASE lhs_t # UNKNOWN
      <4>1. ty[Root] = NodeType(prog, e, ty, lhs_t, XType(prog))
        BY <1>2, <1>4, StmtFacts
      <4> QED
        BY <1>1, <2>4, <3>2, <4>1 DEF NodeType
    <3> QED
      BY <3>1, <3>2
  <2> QED
    BY <1>1, <2>1, <2>2, <2>3, <2>4
<1>9. ASSUME errors' # {} PROVE ~WellTyped(prog) \/ ~LiteralsFit(prog)
  <2>1. CASE errors # {}
    BY <1>2, <2>1 DEF CheckInv
  <2>2. CASE errors = {} /\ overflow
    <3>1. ty[Root] = symbol' /\ e.kind = "num" /\ ~literal_fits_type(e, symbol')
      BY <1>8, <2>2
    <3>2. LiteralFits(e, symbol') => literal_fits_type(e, symbol')
      <4> HIDE DEF e
      <4> QED
        BY DEF LiteralFits, literal_fits_type, in_range, is_integer
    <3>3. ~LiteralsFit(prog)
      <4>1. 1 \in 1 .. Len(prog.stmts) /\ Nodes(1) = prog.stmts[1].nodes
        BY <1>4 DEF Nodes
      <4> QED
        BY <1>4, <3>1, <3>2, <4>1 DEF LiteralsFit
    <3> QED
      BY <3>3
  <2>3. CASE errors = {} /\ ~fits
    BY <1>2, <1>4, <1>8, <2>3, Mismatched
  <2> QED
    BY <1>1, <1>9, <2>1, <2>2, <2>3
<1>10. ASSUME errors' = {} PROVE Meant(1)' /\ symbol' = XType(prog) /\ symbol' # UNKNOWN
  <2>1. errors = {} /\ fits
    BY <1>1, <1>10
  <2>2. \A k \in 1 .. Root : types'[1][k] = types[1][k] \/ types'[1][k] = ty[k]
    BY <1>4, <1>6, <1>8, <2>1
  <2>3. ASSUME NEW k \in 1 .. Root PROVE NodeMeant(1, k)'
    <3>1. NodeMeant(1, k)
      BY <1>8, <2>1
    <3> QED
      BY <1>1, <1>3, <2>2, <2>3, <3>1 DEF NodeMeant
  <2>4. ty[Root] = XType(prog) \/ (is_numeric(ty[Root]) /\ is_numeric(XType(prog)))
    BY <1>8, <2>1
  <2> QED
    BY <1>1, <1>3, <1>4, <1>8, <2>1, <2>3, <2>4 DEF Meant
<1>11. CheckInv'
  <2>1. ASSUME errors' = {}, Checked' PROVE \A s \in Stmts : Meant(s)'
    <3>1. Stmts = {1}
      BY <1>1, <1>4, <2>1 DEF Checked
    <3> QED
      BY <1>10, <2>1, <3>1
  <2> QED
    BY <1>1, <1>3, <1>9, <1>10, <2>1 DEF CheckInv
<1>12. RunInv'
  BY <1>1, <1>2, <1>3 DEF RunInv, MemoryFits
<1> QED
  BY <1>7, <1>11, <1>12 DEF NumInv

LEMMA ValidateAssignment == ASSUME NumInv, validate_assignment, Stays PROVE NumInv'
<1> DEFINE ok == checked[Root] = symbol \/ (is_numeric(checked[Root]) /\ is_numeric(symbol))
<1>1. /\ pc = "check" /\ node > Root /\ stmt = 2 /\ pc' = "HIRGen" /\ Test(ok, "SEM_ASSIGN_TYPE_MISMATCH")
      /\ prog' = prog /\ stmt' = stmt /\ node' = node /\ types' = types /\ checked' = checked /\ symbol' = symbol
      /\ path' = path /\ values' = values /\ mem' = mem /\ faults' = faults /\ outcome' = outcome
  BY DEF validate_assignment, Stays, codeVars, checkVars
<1>2. StateInv /\ CheckInv /\ RunInv
  BY DEF NumInv
<1>3. Stmts' = Stmts /\ (\A s : Nodes(s)' = Nodes(s)) /\ \A name : TypeOf(name)' = TypeOf(name)
  BY <1>1 DEF Stmts, Nodes, TypeOf
<1>4. errors \subseteq errors' /\ (errors' = {} => ok) /\ (errors = {} /\ errors' # {} => ~ok)
  <2> HIDE DEF ok
  <2> QED
    BY <1>1, Tested
<1>5. StateInv'
  BY <1>1, <1>2, <1>3 DEF StateInv
<1>6. 2 \in Stmts /\ Stmts \in {{1}, {1, 2}} /\ Root = Len(Nodes(2)) /\ Root \in Nat \ {0} /\ node = Root + 1
  <2>1. 2 \in Stmts /\ Stmts \in {{1}, {1, 2}}
    BY <1>1, <1>2, StmtFacts DEF StateInv
  <2>2. Root = Len(Nodes(2)) /\ Root \in Nat \ {0}
    BY <1>1, <1>2, <2>1, StmtFacts DEF Root
  <2>3. node \in 1 .. Root + 1
    BY <1>1, <1>2 DEF CheckInv
  <2> QED
    BY <1>1, <2>1, <2>2, <2>3
<1>7. ASSUME errors = {}
      PROVE  /\ symbol = XType(prog) /\ symbol # UNKNOWN /\ Meant(1)
             /\ checked[Root] = Types(prog, 2)[Root] /\ \A k \in 1 .. Root : NodeMeant(2, k)
  <2>1. \A k \in 1 .. Root : checked[k] = Types(prog, 2)[k] /\ NodeMeant(2, k)
    BY <1>1, <1>2, <1>6, <1>7 DEF CheckInv
  <2>2. symbol = XType(prog) /\ symbol # UNKNOWN /\ Meant(1)
    BY <1>1, <1>2, <1>7 DEF CheckInv
  <2> QED
    BY <1>6, <2>1, <2>2
<1>8. ASSUME errors' # {} PROVE ~WellTyped(prog) \/ ~LiteralsFit(prog)
  <2>1. CASE errors # {}
    BY <1>2, <2>1 DEF CheckInv
  <2>2. CASE errors = {}
    BY <1>2, <1>4, <1>6, <1>7, <1>8, <2>2, Mismatched
  <2> QED
    BY <2>1, <2>2
<1>9. ASSUME errors' = {} PROVE symbol = XType(prog) /\ symbol # UNKNOWN /\ \A s \in Stmts : Meant(s)'
  <2>1. errors = {} /\ ok
    BY <1>4, <1>9
  <2>2. Meant(1) /\ Meant(2)
    BY <1>6, <1>7, <2>1 DEF Meant
  <2>3. Meant(1)' /\ Meant(2)'
    BY <1>1, <2>2, MeantKept
  <2> QED
    BY <1>6, <1>7, <2>1, <2>3
<1>10. CheckInv'
  <2>1. errors' = {} => Meant(1)'
    BY <1>6, <1>9
  <2> QED
    BY <1>1, <1>3, <1>8, <1>9, <2>1 DEF CheckInv
<1>11. RunInv'
  BY <1>1, <1>2, <1>3 DEF RunInv, MemoryFits
<1> QED
  BY <1>5, <1>10, <1>11 DEF NumInv

-----------------------------------------------------------------------------
(* Steps of the code generator and of the interpreter *)

AfterChecks == {"HIRGen", "codegen", "emit", "eval", "verify", "stopped"}

\* What is checked is not changed afterwards.
LEMMA ChecksKept ==
  ASSUME NumInv, pc \in AfterChecks, pc' \in AfterChecks, UNCHANGED <<prog, checkVars>>,
         errors \subseteq errors',
         errors = {} /\ errors' # {} => ~WellTyped(prog) \/ ~LiteralsFit(prog)
  PROVE  CheckInv'
<1>1. prog' = prog /\ types' = types /\ symbol' = symbol /\ CheckInv /\ StateInv
  BY DEF checkVars, NumInv
<1>2. Stmts' = Stmts
  BY <1>1 DEF Stmts
<1>3. pc \notin {"assign", "check"} /\ pc' \notin {"assign", "check"}
  BY DEF AfterChecks
<1>4. ASSUME errors' = {}
      PROVE  symbol = XType(prog) /\ symbol # UNKNOWN /\ \A s \in Stmts : Meant(s)'
  <2>1. symbol = XType(prog) /\ symbol # UNKNOWN /\ \A s \in Stmts : Meant(s)
    BY <1>1, <1>3, <1>4 DEF CheckInv, Checked
  <2> QED
    BY <1>1, <2>1, MeantKept
<1>5. 1 \in Stmts
  BY <1>1, StmtFacts
<1>6. errors' # {} => ~WellTyped(prog) \/ ~LiteralsFit(prog)
  BY <1>1 DEF CheckInv
<1>7. errors' = {} => Meant(1)'
  BY <1>4, <1>5
<1> QED
  BY <1>1, <1>2, <1>3, <1>4, <1>6, <1>7 DEF CheckInv

LEMMA RunStep ==
  ASSUME NumInv, pc \in AfterChecks, pc' \in AfterChecks, UNCHANGED <<prog, checkVars>>,
         errors \subseteq errors',
         errors = {} /\ errors' # {} => ~WellTyped(prog) \/ ~LiteralsFit(prog),
         stmt' \in Stmts, node' \in Nat, MemoryFits(mem'),
         path' \in {"none", "compiled", "interpreted"}, path' = "none" => path = "none" /\ UNCHANGED <<values, mem>>,
         pc' = "HIRGen" => path' = "none",
         pc' \in {"codegen", "emit"} => path' = "compiled", pc' = "eval" => path' = "interpreted",
         pc' \in {"emit", "eval"} => errors' = {} /\ ValuesFit(values, stmt, node)',
         faults' \subseteq {"crash", "invalid", "overrun", "died", "RT_ASSIGN_UNSUPPORTED"},
         outcome'.verdict \in {"open", "rejected", "ran", "astray"}
  PROVE  NumInv'
<1>1. prog' = prog /\ types' = types /\ symbol' = symbol /\ StateInv /\ RunInv
  BY DEF checkVars, NumInv
<1>2. Stmts' = Stmts /\ (\A s : Nodes(s)' = Nodes(s)) /\ \A name : TypeOf(name)' = TypeOf(name)
  BY <1>1 DEF Stmts, Nodes, TypeOf
<1>3. StateInv'
  BY <1>1, <1>2 DEF StateInv, AfterChecks
<1>4. CheckInv'
  BY ChecksKept
<1>5. MemoryFits(mem)'
  BY <1>2 DEF MemoryFits
<1>6. RunInv'
  BY <1>1, <1>5 DEF RunInv, AfterChecks
<1> QED
  BY <1>3, <1>4, <1>6 DEF NumInv

LEMMA RunFacts ==
  ASSUME NumInv, errors = {}, pc \in AfterChecks
  PROVE  /\ StateInv /\ stmt \in Stmts /\ Root = Len(Nodes(stmt)) /\ Root \in Nat \ {0}
         /\ symbol = XType(prog) /\ symbol \in DataTypes /\ symbol # UNKNOWN
         /\ \A s \in Stmts :
              /\ Meant(s)
              /\ \A k \in 1 .. Len(Nodes(s)) : types[s][k] \in DataTypes /\ types[s][k] # UNKNOWN
<1>1. StateInv
  BY DEF NumInv
<1>2. stmt \in Stmts /\ Root = Len(Nodes(stmt)) /\ Root \in Nat \ {0} /\ symbol \in DataTypes
  BY <1>1, StmtFacts DEF StateInv, Root
<1>3. symbol = XType(prog) /\ symbol # UNKNOWN /\ \A s \in Stmts : Meant(s)
  BY DEF NumInv, CheckInv, Checked, AfterChecks
<1>4. ASSUME NEW s \in Stmts, NEW k \in 1 .. Len(Nodes(s))
      PROVE  types[s][k] \in DataTypes /\ types[s][k] # UNKNOWN
  <2>1. types[s][k] \in DataTypes
    BY <1>1 DEF StateInv
  <2>2. NodeMeant(s, k)
    BY <1>3 DEF Meant
  <2> QED
    BY <2>1, <2>2, TypeFacts DEF NodeMeant
<1> QED
  BY <1>1, <1>2, <1>3, <1>4

LEMMA UnopTyped ==
  ASSUME NEW e, NEW ty, e.kind = "unop", e.op \in Unary, NodeIsTyped(e, ty)
  PROVE  IF e.op = "OP_NOT" THEN ty[e.l] = BOOL ELSE is_numeric(ty[e.l])
BY DEF NodeIsTyped, Unary, Logic, Arithmetic, BitwiseOps, Comparisons, is_integer, is_float,
   is_numeric

\* The node whose turn it is, and its operands.
LEMMA NodeFacts ==
  ASSUME NumInv, pc \in {"emit", "eval"}, node <= Root
  PROVE  LET ty == Types(prog, stmt) IN
         /\ errors = {} /\ pc \in AfterChecks /\ node \in 1 .. Root /\ stmt \in Stmts /\ Root = Len(Nodes(stmt))
         /\ This \in Expressions /\ WellFormed(Nodes(stmt), node, Names)
         /\ This_type \in DataTypes /\ This_type # UNKNOWN
         /\ This.kind = "num" => ty[node] # BOOL
         /\ This.kind = "var" => This.name \in Names /\ TypeOf(This.name) = ty[node]
         /\ This.kind \in {"unop", "binop"} =>
              /\ This.l \in 1 .. node - 1 /\ types[stmt][This.l] \in DataTypes
              /\ IF path = "compiled" THEN NodeValue(L_value, ty[This.l]) ELSE L_value \in AnyValue
         /\ This.kind = "unop" => IF This.op = "OP_NOT" THEN ty[This.l] = BOOL ELSE ty[node] # BOOL
         /\ This.kind = "binop" =>
              /\ This.r \in 1 .. node - 1 /\ types[stmt][This.r] \in DataTypes
              /\ IF path = "compiled" THEN NodeValue(R_value, ty[This.r]) ELSE R_value \in AnyValue
              /\ IF This.op \in Arithmetic THEN ty[node] # BOOL ELSE This.op \in Comparisons \cup Logic
<1> DEFINE ty == Types(prog, stmt)
<1>1. errors = {} /\ ValuesFit(values, stmt, node) /\ pc \in AfterChecks
  BY DEF NumInv, RunInv, AfterChecks
<1>2. /\ StateInv /\ stmt \in Stmts /\ Root = Len(Nodes(stmt)) /\ Root \in Nat \ {0}
      /\ symbol = XType(prog) /\ Meant(stmt)
      /\ \A k \in 1 .. Root : types[stmt][k] \in DataTypes /\ types[stmt][k] # UNKNOWN
  BY <1>1, RunFacts
<1>3. node \in 1 .. Root /\ node \in Nat
  BY <1>1, <1>2 DEF ValuesFit
<1>4. /\ This \in Expressions /\ WellFormed(Nodes(stmt), node, Names)
      /\ ty[node] = NodeType(prog, This, ty, Assigned(prog, stmt), XType(prog))
      /\ \A k \in 1 .. Root : ty[k] \in DataTypes
  BY <1>2, <1>3, StmtFacts DEF This
<1>5. NodeIsTyped(This, ty)
  BY <1>2, <1>3 DEF Meant, NodeMeant, This
<1>6. This_type \in DataTypes /\ This_type # UNKNOWN
  BY <1>2, <1>3 DEF This_type
<1>7. ASSUME This.kind = "var" PROVE This.name \in Names /\ TypeOf(This.name) = ty[node]
  <2>1. This.name \in Names
    BY <1>4, <1>7 DEF WellFormed, This
  <2> QED
    BY <1>2, <1>4, <1>7, <2>1 DEF NodeType, TypeOf
<1>8. \A k \in 1 .. node - 1 :
        /\ IF path = "compiled" THEN NodeValue(values[k], ty[k]) ELSE values[k] \in AnyValue
        /\ types[stmt][k] \in DataTypes /\ ty[k] \in DataTypes
  BY <1>1, <1>2, <1>3, <1>4 DEF ValuesFit
<1>9. /\ This.kind \in {"unop", "binop"} => This.l \in 1 .. node - 1
      /\ This.kind = "binop" => This.r \in 1 .. node - 1
  BY <1>4 DEF WellFormed, This
<1>10. ASSUME This.kind = "unop"
       PROVE  IF This.op = "OP_NOT" THEN ty[This.l] = BOOL ELSE ty[node] # BOOL
  <2>1. This.op \in Unary
    BY <1>4, <1>10 DEF WellFormed, This
  <2>2. CASE This.op = "OP_NOT"
    BY <1>5, <1>10, <2>1, <2>2, UnopTyped
  <2>3. CASE This.op # "OP_NOT"
    <3>1. is_numeric(ty[This.l])
      BY <1>5, <1>10, <2>1, <2>3, UnopTyped
    <3>2. ty[node] = ty[This.l]
      BY <1>4, <1>10, <2>3 DEF NodeType
    <3> QED
      BY <2>3, <3>1, <3>2, TypeFacts
  <2> QED
    BY <2>2, <2>3
<1>11. ASSUME This.kind = "binop"
       PROVE  IF This.op \in Arithmetic THEN ty[node] # BOOL ELSE This.op \in Comparisons \cup Logic
  <2>1. This.op \in Arithmetic \cup Comparisons \cup Logic
    BY <1>4, <1>11 DEF WellFormed, This
  <2>2. ASSUME This.op \in Arithmetic PROVE ty[node] # BOOL
    <3>1. ty[node] = Promoted(ty[This.l], ty[This.r])
      BY <1>4, <1>11, <2>2 DEF NodeType
    <3>2. ty[This.l] \in DataTypes /\ ty[This.r] \in DataTypes
      BY <1>8, <1>9, <1>11
    <3>3. ty[node] \in NumericTypes
      BY <3>1, <3>2, PromotedType
    <3> QED
      BY <3>3, TypeFacts DEF DataTypes
  <2> QED
    BY <2>1, <2>2
<1>12. ASSUME This.kind = "num" PROVE ty[node] # BOOL
  <2>1. ~is_numeric(BOOL) /\ F32 # BOOL /\ I32 # BOOL
    BY TypeFacts DEF F32, I32, FloatOf, SignedOf, BOOL
  <2> QED
    BY <1>4, <1>12, <2>1 DEF NodeType
<1> QED
  BY <1>1, <1>2, <1>3, <1>4, <1>6, <1>7, <1>8, <1>9, <1>10, <1>11, <1>12 DEF L_value, R_value

\* The value of a node is added to those before.
LEMMA PushStep ==
  ASSUME NumInv, pc \in {"emit", "eval"}, node <= Root, NEW v, Push(v),
         IF path = "compiled" THEN NodeValue(v, Types(prog, stmt)[node]) ELSE v \in AnyValue,
         MemoryFits(mem'),
         faults' \subseteq {"crash", "invalid", "overrun", "died", "RT_ASSIGN_UNSUPPORTED"}
  PROVE  NumInv'
<1>1. /\ values' = Append(values, v) /\ node' = node + 1 /\ prog' = prog /\ pc' = pc /\ errors' = errors
      /\ stmt' = stmt /\ path' = path /\ outcome' = outcome /\ UNCHANGED checkVars
  BY DEF Push
<1>2. /\ errors = {} /\ pc \in AfterChecks /\ stmt \in Stmts /\ node \in 1 .. Root
      /\ Root = Len(Nodes(stmt)) /\ Root \in Nat \ {0}
  BY NodeFacts, RunFacts
<1>3. /\ ValuesFit(values, stmt, node) /\ outcome.verdict \in {"open", "rejected", "ran", "astray"}
      /\ path \in {"compiled", "interpreted"}
      /\ pc = "emit" => path = "compiled"
      /\ pc = "eval" => path = "interpreted"
  BY DEF NumInv, RunInv, StateInv
<1>4. ValuesFit(values, stmt, node)'
  <2>1. values \in Seq(AnyValue \cup {nullptr}) /\ Len(values) = node - 1 /\ v \in AnyValue \cup {nullptr}
    BY <1>3 DEF ValuesFit, NodeValue, StoredValue
  <2>2. values' \in Seq(AnyValue \cup {nullptr}) /\ Len(values') = node' - 1
    BY <1>1, <1>2, <2>1
  <2>3. ASSUME NEW k \in 1 .. node' - 1
        PROVE  IF path = "compiled" THEN NodeValue(values'[k], Types(prog, stmt)[k]) ELSE values'[k] \in AnyValue
    <3>1. CASE k = node
      BY <1>1, <1>2, <2>1, <3>1
    <3>2. CASE k # node
      <4>1. k \in 1 .. node - 1 /\ values'[k] = values[k]
        BY <1>1, <1>2, <2>1, <3>2
      <4> QED
        BY <1>3, <4>1 DEF ValuesFit
    <3> QED
      BY <3>1, <3>2
  <2>4. \A k : (NodeValue(values[k], Types(prog, stmt)[k]))' <=> NodeValue(values'[k], Types(prog, stmt)[k])
    BY <1>1 DEF NodeValue
  <2>5. Nodes(stmt)' = Nodes(stmt) /\ node' \in 1 .. Root + 1
    BY <1>1, <1>2 DEF Nodes
  <2> QED
    BY <1>1, <1>2, <2>2, <2>3, <2>4, <2>5 DEF ValuesFit
<1>5. /\ pc' \in AfterChecks /\ pc' # "HIRGen" /\ pc' # "codegen" /\ stmt' \in Stmts /\ node' \in Nat
      /\ errors' = errors /\ path' \in {"compiled", "interpreted"}
      /\ pc' = "emit" => path' = "compiled"
      /\ pc' = "eval" => path' = "interpreted"
      /\ outcome'.verdict \in {"open", "rejected", "ran", "astray"}
  <2>1. node' \in Nat
    BY <1>1, <1>2
  <2>2. pc' \in AfterChecks /\ pc' # "HIRGen" /\ pc' # "codegen"
    BY <1>1, <1>2
  <2>3. stmt' \in Stmts /\ errors' = errors
    BY <1>1, <1>2
  <2>4. path' \in {"compiled", "interpreted"} /\ (pc' = "emit" => path' = "compiled")
    BY <1>1, <1>3
  <2>5. pc' = "eval" => path' = "interpreted"
    BY <1>1, <1>3
  <2>6. outcome'.verdict \in {"open", "rejected", "ran", "astray"}
    BY <1>1, <1>3
  <2> QED
    BY <2>1, <2>2, <2>3, <2>4, <2>5, <2>6
<1> QED
  BY <1>1, <1>2, <1>4, <1>5, RunStep

-----------------------------------------------------------------------------
(* Values *)

LEMMA IrFacts ==
  /\ \A t \in DataTypes : Ir(t) \in Irs /\ Ir(t).float = is_float(t) /\ Modulus(Ir(t)) = Modulus(t)
  /\ \A ir \in Irs : ir.float \in BOOLEAN /\ Sized(ir) /\ Modulus(ir) \in Nat \ {0}
  /\ \A s, t : s.size = t.size => Modulus(s) = Modulus(t)
  /\ Ir(BOOL) \in Irs /\ ~Ir(BOOL).float /\ Modulus(Ir(BOOL)) = 2
  /\ Ir(UNKNOWN) = Ir(BOOL)
  /\ \A v \in AnyValue : v # nullptr
<1>1. \A s, t : s.size = t.size => Modulus(s) = Modulus(t)
  BY DEF Modulus, Width
<1>2. \A t \in DataTypes : Ir(t) \in Irs /\ Ir(t).float = is_float(t) /\ Modulus(Ir(t)) = Modulus(t)
  BY <1>1 DEF Ir, Irs
<1>3. \A t \in DataTypes : Sized(Ir(t)) /\ Ir(t).float \in BOOLEAN
  BY TypeFacts DEF Ir, Sized, is_float
<1>4. \A ir \in Irs : ir.float \in BOOLEAN /\ Sized(ir) /\ Modulus(ir) \in Nat \ {0}
  <2>1. ASSUME NEW ir \in Irs PROVE ir.float \in BOOLEAN /\ Sized(ir)
    <3>1. PICK t \in DataTypes : ir = Ir(t)
      BY DEF Irs
    <3> QED
      BY <1>3, <3>1
  <2> QED
    BY <2>1, WidthType
<1>5. Ir(BOOL) \in Irs /\ ~Ir(BOOL).float /\ Modulus(Ir(BOOL)) = 2 /\ Ir(UNKNOWN) = Ir(BOOL)
  <2>1. BOOL \in DataTypes
    BY DEF DataTypes
  <2>2. is_float(BOOL) = FALSE /\ is_float(UNKNOWN) = FALSE /\ BOOL.size = 0 /\ UNKNOWN.size = 0
    BY DEF is_float, BOOL, UNKNOWN
  <2>3. Modulus(BOOL) = 2
    BY <2>2, PowersOfTwo DEF Modulus, Width
  <2> QED
    BY <1>2, <2>1, <2>2, <2>3 DEF Ir
<1>6. ASSUME NEW v \in AnyValue PROVE v # nullptr
  <2>1. v.ir \in Irs
    BY DEF AnyValue
  <2>2. PICK t \in DataTypes : v.ir = [size |-> t.size, float |-> is_float(t)]
    BY <2>1 DEF Irs, Ir
  <2>3. v.ir.size = t.size /\ v.ir.float = is_float(t)
    BY <2>2
  <2>4. t.size = 0 => is_float(t) = FALSE
    BY DEF DataTypes, NumericTypes, IntTypes, FloatTypes, BOOL, UNKNOWN, is_float, Sizes
  <2>5. nullptr.ir.size = 0 /\ nullptr.ir.float
    BY DEF nullptr, Unknown
  <2> QED
    BY <2>3, <2>4, <2>5
<1> QED
  BY <1>1, <1>2, <1>4, <1>5, <1>6

LEMMA UnknownStored ==
  ASSUME NEW ir \in Irs
  PROVE  StoredValue(Unknown(ir)) /\ Unknown(ir).ir = ir
BY DEF StoredValue, Unknown, AnyValue, FitsIr

LEMMA KnownStored ==
  ASSUME NEW ir \in Irs, NEW n \in Int, ir.float \/ n \in 0 .. Modulus(ir) - 1
  PROVE  StoredValue(Known(n, ir)) /\ Known(n, ir).ir = ir
BY DEF StoredValue, Known, AnyValue, FitsIr

\* What is made of a number fits (SA_from_i128, and the constants of LLVM).
LEMMA MadeStored ==
  ASSUME NEW t \in DataTypes, NEW n \in Int
  PROVE  /\ StoredValue(SA_from(n, t)) /\ SA_from(n, t).ir = Ir(t)
         /\ StoredValue(ValueOf(n, t)) /\ ValueOf(n, t).ir = Ir(t)
<1> DEFINE m == IF is_float(t) THEN n ELSE Pattern(n, t)
<1>1. Ir(t) \in Irs /\ Ir(t).float = is_float(t) /\ Modulus(Ir(t)) = Modulus(t) /\ Sized(t)
  BY IrFacts, TypeFacts
<1>2. Pattern(n, t) \in 0 .. Modulus(t) - 1 /\ Modulus(t) \in Nat
  BY <1>1, PatternType, WidthType
<1>3. m \in Int /\ (Ir(t).float \/ m \in 0 .. Modulus(Ir(t)) - 1)
  BY <1>1, <1>2
<1>4. SA_from(n, t) = Known(m, Ir(t)) /\ ValueOf(n, t) = Known(m, Ir(t))
  BY DEF SA_from, ValueOf
<1> HIDE DEF m
<1> QED
  BY <1>1, <1>3, <1>4, KnownStored

LEMMA ReadType ==
  ASSUME NEW v \in AnyValue, NEW t
  PROVE  Read(v, t) \in Int
<1>1. v.n \in Int /\ v.ir \in Irs
  BY DEF AnyValue
<1>2. Sized(v.ir)
  BY <1>1, IrFacts
<1>3. Sized([class |-> t.class, size |-> v.ir.size])
  BY <1>2 DEF Sized
<1> QED
  BY <1>1, <1>3, WrapType DEF Read

LEMMA InstructionStored ==
  ASSUME NEW L, NEW R, StoredValue(L), StoredValue(R), NEW t \in DataTypes, NEW op \in Arithmetic \cup Comparisons,
         L.ir.float = is_float(t)
  PROVE  /\ StoredValue(Instruction(op, t, L, R))
         /\ Instruction(op, t, L, R).ir = IF op \in Comparisons THEN Ir(BOOL) ELSE L.ir
<1> DEFINE s == [class |-> IF is_unsigned_numeric(t) THEN "unsigned" ELSE "signed", size |-> L.ir.size]
           l == Read(L, s)
           r == Read(R, s)
           ir == IF op \in Comparisons THEN Ir(BOOL) ELSE L.ir
           b == Compare(op, l, r)
           u == IF L.ir.float THEN t ELSE s
           V == Instruction(op, t, L, R)
<1>1. L \in AnyValue /\ R \in AnyValue /\ L.ir \in Irs
  BY DEF StoredValue, AnyValue
<1>2. l \in Int /\ r \in Int
  BY <1>1, ReadType
<1>3. Sized(s) /\ Sized(t) /\ Sized(u) /\ Modulus(s) = Modulus(L.ir)
  <2>1. Sized(L.ir) /\ Sized(t)
    BY <1>1, IrFacts, TypeFacts
  <2>2. Sized(s)
    BY <2>1 DEF Sized
  <2>3. s.size = L.ir.size
    OBVIOUS
  <2>4. Modulus(s) = Modulus(L.ir)
    BY <2>3, IrFacts
  <2> QED
    BY <2>1, <2>2, <2>4
<1>4. ir \in Irs /\ Ir(BOOL) \in Irs
  BY <1>1, IrFacts
<1>5. V = IF ~L.known \/ ~R.known THEN Unknown(ir)
          ELSE IF op \in Comparisons THEN Known(Truth(b), Ir(BOOL))
          ELSE IF Undefined(op, l, r, u) THEN Unknown(L.ir)
          ELSE IF L.ir.float THEN Known(Apply(op, l, r, t), L.ir)
          ELSE Known(Pattern(Apply(op, l, r, s), s), L.ir)
  BY DEF Instruction
<1> SUFFICES StoredValue(V) /\ V.ir = ir
  OBVIOUS
<1> HIDE DEF V, l, r, s, b
<1>6. CASE ~L.known \/ ~R.known
  BY <1>4, <1>5, <1>6, UnknownStored
<1>7. CASE L.known /\ R.known /\ op \in Comparisons
  <2>1. Truth(b) \in {0, 1}
    BY CompareType
  <2>2. V = Known(Truth(b), Ir(BOOL))
    BY <1>5, <1>7
  <2>3. Truth(b) \in Int /\ Truth(b) \in 0 .. Modulus(Ir(BOOL)) - 1
    BY <2>1, IrFacts
  <2> QED
    BY <1>4, <1>7, <2>2, <2>3, KnownStored
<1>8. CASE L.known /\ R.known /\ op \notin Comparisons /\ Undefined(op, l, r, u)
  BY <1>1, <1>5, <1>8, UnknownStored
<1>9. CASE L.known /\ R.known /\ op \notin Comparisons /\ ~Undefined(op, l, r, u)
  <2>1. Apply(op, l, r, u) \in Int
    BY <1>2, <1>3, <1>9, ApplyType
  <2>2. CASE L.ir.float
    <3>1. V = Known(Apply(op, l, r, t), L.ir) /\ Apply(op, l, r, t) \in Int
      BY <1>5, <1>9, <2>1, <2>2
    <3> QED
      BY <1>1, <1>9, <2>2, <3>1, KnownStored
  <2>3. CASE ~L.ir.float
    <3> DEFINE n == Apply(op, l, r, s)
    <3>1. V = Known(Pattern(n, s), L.ir) /\ n \in Int
      BY <1>5, <1>9, <2>1, <2>3
    <3> HIDE DEF n
    <3>2. Pattern(n, s) \in 0 .. Modulus(s) - 1 /\ Modulus(s) \in Nat
      BY <1>3, <3>1, PatternType, WidthType
    <3>3. Pattern(n, s) \in Int /\ Pattern(n, s) \in 0 .. Modulus(L.ir) - 1
      BY <1>3, <3>2
    <3> QED
      BY <1>1, <1>9, <3>1, <3>3, KnownStored
  <2> QED
    BY <2>2, <2>3
<1> QED
  BY <1>6, <1>7, <1>8, <1>9

LEMMA BinopValueFits ==
  ASSUME NEW L, NEW R, L = nullptr \/ StoredValue(L), R = nullptr \/ StoredValue(R), NEW t \in DataTypes,
         NEW op \in Arithmetic \cup Comparisons \cup Logic
  PROVE  /\ BinopValue(op, t, L, R) = nullptr \/ StoredValue(BinopValue(op, t, L, R))
         /\ BinopValue(op, t, L, R) # nullptr /\ op \notin Arithmetic => BinopValue(op, t, L, R).ir = Ir(BOOL)
<1> DEFINE V == BinopValue(op, t, L, R)
           ir == IF op \in Comparisons THEN Ir(BOOL) ELSE L.ir
<1>1. CASE nullptr \in {L, R} \/ op \in Logic \cup {"OP_POW"}
  BY <1>1 DEF BinopValue
<1>2. CASE ~(nullptr \in {L, R} \/ op \in Logic \cup {"OP_POW"})
  <2>1. StoredValue(L) /\ StoredValue(R) /\ op \in Arithmetic \cup Comparisons /\ op \notin Logic
    BY <1>2
  <2>2. V = IF BinopFaults(op, t, L, R) # {} THEN Unknown(ir) ELSE Instruction(op, t, L, R)
    BY <1>2 DEF BinopValue
  <2>3. ir \in Irs /\ (op \notin Arithmetic => ir = Ir(BOOL))
    BY <2>1, IrFacts DEF StoredValue, AnyValue
  <2>4. CASE BinopFaults(op, t, L, R) # {}
    <3> HIDE DEF V, ir
    <3>1. StoredValue(Unknown(ir)) /\ Unknown(ir).ir = ir
      BY <2>3, UnknownStored
    <3> QED
      BY <2>2, <2>3, <2>4, <3>1 DEF V
  <2>5. CASE BinopFaults(op, t, L, R) = {}
    <3>1. L.ir.float = is_float(t)
      BY <1>2, <2>5 DEF BinopFaults
    <3> HIDE DEF V
    <3> QED
      BY <2>1, <2>2, <2>5, <3>1, InstructionStored DEF V
  <2> QED
    BY <2>4, <2>5
<1> QED
  BY <1>1, <1>2

LEMMA ParsedType ==
  ASSUME NEW e \in Expressions, NEW t
  PROVE  Parsed(e, t) \in Int
<1> DEFINE n == e.halves \div 2
           bits == Bits[4] - IF t.class = "signed" THEN 1 ELSE 0
           longest == 2 ^ bits - 1
<1>1. e.halves \in Nat /\ n \in Int
  BY DEF Expressions
<1>2. Bits[4] \in Nat \ {0} /\ Bits[5] \in Nat /\ Bits[4] < Bits[5]
  BY BitsAssumption DEF Sizes
<1>3. bits \in 0 .. Bits[5]
  BY <1>2
<1>4. longest \in Int
  BY <1>3, PowersOfTwo
<1>5. Parsed(e, t) \in {e.halves, n, Smaller(n, longest)}
  BY DEF Parsed, is_float
<1> HIDE DEF n, longest
<1> QED
  BY <1>1, <1>4, <1>5 DEF Smaller

LEMMA LiteralStored ==
  ASSUME NEW e \in Expressions, NEW t \in DataTypes
  PROVE  StoredValue(emit_number(e, t)) /\ StoredValue(SA_from(Parsed(e, t), t))
<1> DEFINE n == Parsed(e, t)
           four == [t EXCEPT !.size = 4]
           m == IF t.size = 5 /\ ~is_float(t) THEN Wrap(n, four) ELSE n
<1>1. n \in Int
  BY ParsedType
<1>2. t.size = 5 => Sized(four)
  BY DEF Sized, DataTypes, NumericTypes, IntTypes, FloatTypes, BOOL, UNKNOWN
<1>3. m \in Int
  <2> HIDE DEF n, four
  <2> QED
    BY <1>1, <1>2, WrapType
<1>4. emit_number(e, t) = ValueOf(m, t)
  BY DEF emit_number
<1> HIDE DEF n, m
<1> QED
  BY <1>1, <1>3, <1>4, MadeStored DEF n

LEMMA StoredAny ==
  ASSUME NEW v, StoredValue(v)
  PROVE  v \in AnyValue /\ v # nullptr /\ v.ir \in Irs
BY IrFacts DEF StoredValue, AnyValue

LEMMA MemoryStored ==
  ASSUME NumInv
  PROVE  MemoryFits(mem) /\ \A name \in Names : StoredValue(mem[name])
BY DEF NumInv, RunInv, MemoryFits, StoredValue

LEMMA MemoryUpdated ==
  ASSUME NumInv, NEW name \in Names, NEW v, StoredValue(v), v.ir = mem[name].ir
  PROVE  MemoryFits([mem EXCEPT ![name] = v])
<1>1. MemoryFits(mem) /\ v \in AnyValue /\ FitsIr(v)
  BY MemoryStored DEF StoredValue
<1> QED
  BY <1>1 DEF MemoryFits

LEMMA EmitFacts ==
  ASSUME NumInv, NEW kind, Emit(kind)
  PROVE  pc = "emit" /\ pc \in {"emit", "eval"} /\ path = "compiled" /\ node <= Root /\ This.kind = kind
BY DEF Emit, NumInv, RunInv

AllFaults == {"crash", "invalid", "overrun", "died", "RT_ASSIGN_UNSUPPORTED"}
LEMMA FaultsType == ASSUME NumInv PROVE faults \subseteq AllFaults
BY DEF NumInv, StateInv, AllFaults

LEMMA EmitLiteral == ASSUME NumInv, emit_literal PROVE NumInv'
<1> DEFINE v == emit_number(This, This_type)
<1>1. Emit("num") /\ Push(v) /\ mem' = mem /\ faults' = faults
  BY DEF emit_literal
<1>2. pc \in {"emit", "eval"} /\ path = "compiled" /\ node <= Root /\ This.kind = "num"
  BY <1>1, EmitFacts
<1>3. This \in Expressions /\ This_type \in DataTypes /\ Types(prog, stmt)[node] # BOOL
  BY <1>2, NodeFacts
<1>4. NodeValue(v, Types(prog, stmt)[node])
  BY <1>3, LiteralStored DEF NodeValue
<1> HIDE DEF v
<1> QED
  BY <1>1, <1>2, <1>4, MemoryStored, FaultsType, PushStep DEF AllFaults

LEMMA EmitLoad == ASSUME NumInv, Load PROVE NumInv'
<1> DEFINE v == mem[This.name]
<1>1. Emit("var") /\ Push(v) /\ mem' = mem /\ faults' = faults
  BY DEF Load
<1>2. pc \in {"emit", "eval"} /\ path = "compiled" /\ node <= Root /\ This.kind = "var"
  BY <1>1, EmitFacts
<1>3. This.name \in Names /\ TypeOf(This.name) = Types(prog, stmt)[node]
  BY <1>2, NodeFacts
<1>4. NodeValue(v, Types(prog, stmt)[node])
  BY <1>3, MemoryStored DEF NodeValue, MemoryFits
<1> HIDE DEF v
<1> QED
  BY <1>1, <1>2, <1>4, MemoryStored, FaultsType, PushStep DEF AllFaults

LEMMA EmitBinop == ASSUME NumInv, emit_binop PROVE NumInv'
<1> DEFINE v == BinopValue(This.op, This_type, L_value, R_value)
           ty == Types(prog, stmt)
<1>1. /\ Emit("binop") /\ Push(v) /\ mem' = mem
      /\ faults' = faults \cup BinopFaults(This.op, This_type, L_value, R_value)
  BY DEF emit_binop
<1>2. pc \in {"emit", "eval"} /\ path = "compiled" /\ node <= Root /\ This.kind = "binop"
  BY <1>1, EmitFacts
<1>3. /\ This_type \in DataTypes /\ NodeValue(L_value, ty[This.l]) /\ NodeValue(R_value, ty[This.r])
      /\ IF This.op \in Arithmetic THEN ty[node] # BOOL ELSE This.op \in Comparisons \cup Logic
  BY <1>2, NodeFacts
<1>4. /\ L_value = nullptr \/ StoredValue(L_value)
      /\ R_value = nullptr \/ StoredValue(R_value)
      /\ This.op \in Arithmetic \cup Comparisons \cup Logic
  BY <1>3 DEF NodeValue
<1>5. /\ v = nullptr \/ StoredValue(v)
      /\ v # nullptr /\ This.op \notin Arithmetic => v.ir = Ir(BOOL)
  BY <1>3, <1>4, BinopValueFits
<1>6. faults' \subseteq AllFaults
  BY <1>1, FaultsType DEF BinopFaults, AllFaults
<1> HIDE DEF v
<1>7. NodeValue(v, ty[node])
  BY <1>3, <1>5 DEF NodeValue
<1> QED
  BY <1>1, <1>2, <1>6, <1>7, MemoryStored, PushStep DEF AllFaults

LEMMA NegatedStored ==
  ASSUME NEW v, StoredValue(v)
  PROVE  StoredValue(Negated(v))
<1> DEFINE n == IF v.ir.float THEN -v.n ELSE (-v.n) % Modulus(v.ir)
<1>1. v \in AnyValue /\ v.ir \in Irs /\ v.n \in Int
  BY DEF StoredValue, AnyValue
<1>2. Modulus(v.ir) \in Nat \ {0}
  BY <1>1, IrFacts
<1>3. n \in Int /\ (v.ir.float \/ n \in 0 .. Modulus(v.ir) - 1)
  BY <1>1, <1>2
<1>4. Negated(v) = [v EXCEPT !.n = n]
  BY DEF Negated
<1> HIDE DEF n
<1>5. Negated(v) \in AnyValue /\ Negated(v).ir = v.ir /\ Negated(v).n = n
  BY <1>1, <1>3, <1>4 DEF AnyValue
<1> QED
  BY <1>1, <1>3, <1>5 DEF StoredValue, FitsIr

LEMMA NotStored ==
  ASSUME NEW v, StoredValue(v), v.ir = Ir(BOOL)
  PROVE  StoredValue([v EXCEPT !.n = 1 - v.n]) /\ [v EXCEPT !.n = 1 - v.n].ir = Ir(BOOL)
<1> DEFINE w == [v EXCEPT !.n = 1 - v.n]
<1>1. v \in AnyValue /\ v.n \in Int /\ (v.known => v.n \in 0 .. 1)
  BY IrFacts DEF StoredValue, AnyValue, FitsIr
<1>2. w \in AnyValue /\ w.ir = v.ir /\ w.known = v.known /\ w.n = 1 - v.n
  BY <1>1 DEF AnyValue
<1>3. w.known => w.n \in 0 .. Modulus(w.ir) - 1
  BY <1>1, <1>2, IrFacts
<1> HIDE DEF w
<1> QED
  BY <1>2, <1>3 DEF w, StoredValue, FitsIr

LEMMA EmitUnop == ASSUME NumInv, emit_unop PROVE NumInv'
<1> DEFINE ty == Types(prog, stmt)
           L == L_value
<1>1. /\ Emit("unop") /\ mem' = mem /\ faults' \subseteq faults \cup {"invalid"}
      /\ \/ This.op = "OP_NEG" /\ L # nullptr /\ Push(Negated(L))
         \/ This.op = "OP_NOT" /\ L # nullptr /\ Push([L EXCEPT !.n = 1 - L.n])
         \/ This.op = "OP_NOT" /\ L = nullptr /\ Push(L)
         \/ This.op # "OP_NOT" /\ Push(L)
  BY DEF emit_unop
<1>2. pc \in {"emit", "eval"} /\ path = "compiled" /\ node <= Root /\ This.kind = "unop"
  BY <1>1, EmitFacts
<1>3. NodeValue(L, ty[This.l]) /\ (IF This.op = "OP_NOT" THEN ty[This.l] = BOOL ELSE ty[node] # BOOL)
  BY <1>2, NodeFacts
<1>4. faults' \subseteq AllFaults
  BY <1>1, FaultsType DEF AllFaults
<1> HIDE DEF L
<1>5. ASSUME NEW v, Push(v), NodeValue(v, ty[node]) PROVE NumInv'
  BY <1>1, <1>2, <1>4, <1>5, MemoryStored, PushStep DEF AllFaults
<1>6. CASE This.op = "OP_NEG" /\ L # nullptr /\ Push(Negated(L))
  <2>1. StoredValue(Negated(L))
    BY <1>3, <1>6, NegatedStored DEF NodeValue
  <2> QED
    BY <1>3, <1>5, <1>6, <2>1 DEF NodeValue
<1>7. CASE This.op = "OP_NOT" /\ L # nullptr /\ Push([L EXCEPT !.n = 1 - L.n])
  <2> DEFINE v == [L EXCEPT !.n = 1 - L.n]
  <2>1. StoredValue(v) /\ v.ir = Ir(BOOL)
    BY <1>3, <1>7, NotStored DEF NodeValue
  <2>2. Push(v)
    BY <1>7
  <2> HIDE DEF v
  <2> QED
    BY <1>5, <2>1, <2>2 DEF NodeValue
<1>8. CASE This.op = "OP_NOT" /\ L = nullptr /\ Push(L)
  BY <1>5, <1>8 DEF NodeValue
<1>9. CASE This.op # "OP_NOT" /\ Push(L)
  BY <1>3, <1>5, <1>9 DEF NodeValue
<1> QED
  BY <1>1, <1>6, <1>7, <1>8, <1>9

LEMMA NumIncDec == ASSUME NumInv, num_inc_OR_dec PROVE NumInv'
<1> DEFINE name == Nodes(stmt)[This.l].name
           old == IF mem[name].ir = Ir(This_type) THEN mem[name] ELSE Unknown(Ir(This_type))
           n == (IF This.op = "OP_INC" THEN old.n + 1 ELSE old.n - 1) % Modulus(This_type)
           new == [old EXCEPT !.n = n]
           v == IF new.ir = mem[name].ir THEN new ELSE Unknown(mem[name].ir)
<1>1. /\ Emit("unop") /\ This.op \in {"OP_INC", "OP_DEC"} /\ Push(old)
      /\ mem' = [mem EXCEPT ![name] = IF new.ir = @.ir THEN new ELSE Unknown(@.ir)]
      /\ faults' \subseteq faults \cup {"crash", "overrun"}
  BY DEF num_inc_OR_dec
<1>2. pc \in {"emit", "eval"} /\ path = "compiled" /\ node <= Root /\ This.kind = "unop"
  BY <1>1, EmitFacts
<1>3. /\ This_type \in DataTypes /\ Types(prog, stmt)[node] # BOOL /\ WellFormed(Nodes(stmt), node, Names)
      /\ stmt \in Stmts /\ node \in 1 .. Root /\ Root = Len(Nodes(stmt)) /\ This.l \in 1 .. node - 1
  BY <1>1, <1>2, NodeFacts
<1>4. name \in Names
  <2>1. Nodes(stmt)[This.l].kind = "var"
    BY <1>1, <1>2, <1>3 DEF WellFormed, This
  <2>2. This.l \in 1 .. Len(Nodes(stmt)) /\ StateInv /\ Root \in Nat
    <3>1. StateInv
      BY DEF NumInv
    <3>2. Root \in Nat
      BY <1>3, <3>1, StmtFacts
    <3> QED
      BY <1>3, <3>1, <3>2
  <2>3. WellFormed(Nodes(stmt), This.l, Names)
    BY <1>3, <2>2, StmtFacts
  <2> QED
    BY <2>1, <2>3 DEF WellFormed
<1>5. Ir(This_type) \in Irs /\ Modulus(Ir(This_type)) = Modulus(This_type) /\ Modulus(This_type) \in Nat \ {0}
  BY <1>3, IrFacts
<1> HIDE DEF name
<1>6. StoredValue(mem[name]) /\ mem[name].ir \in Irs
  BY <1>4, MemoryStored, StoredAny
<1>7. StoredValue(old) /\ old.ir = Ir(This_type) /\ old \in AnyValue /\ old.n \in Int
  <2>1. StoredValue(old) /\ old.ir = Ir(This_type)
    BY <1>5, <1>6, UnknownStored
  <2> HIDE DEF old
  <2> QED
    BY <2>1 DEF StoredValue, AnyValue
<1> HIDE DEF old
<1>8. n \in 0 .. Modulus(This_type) - 1 /\ n \in Int
  <2>1. old.n + 1 \in Int /\ old.n - 1 \in Int
    BY <1>7
  <2> QED
    BY <1>5, <2>1
<1> HIDE DEF n
<1>9. StoredValue(new)
  <2>1. new \in AnyValue /\ new.ir = old.ir /\ new.n = n
    BY <1>7, <1>8 DEF AnyValue
  <2> HIDE DEF new
  <2> QED
    BY <1>5, <1>7, <1>8, <2>1 DEF StoredValue, FitsIr
<1> HIDE DEF new
<1>10. StoredValue(v) /\ v.ir = mem[name].ir
  BY <1>6, <1>9, UnknownStored
<1>11. mem' = [mem EXCEPT ![name] = v]
  BY <1>1
<1> HIDE DEF v
<1>12. MemoryFits(mem')
  BY <1>4, <1>10, <1>11, MemoryUpdated
<1>13. faults' \subseteq AllFaults
  BY <1>1, FaultsType DEF AllFaults
<1>14. NodeValue(old, Types(prog, stmt)[node])
  BY <1>3, <1>7 DEF NodeValue
<1> QED
  BY <1>1, <1>2, <1>12, <1>13, <1>14, PushStep DEF AllFaults

LEMMA MemorySet ==
  ASSUME NumInv, NEW v, StoredValue(v), symbol = BOOL => v.ir = Ir(BOOL)
  PROVE  MemoryFits([mem EXCEPT !.x = v])
<1>1. MemoryFits(mem) /\ v \in AnyValue /\ FitsIr(v)
  BY MemoryStored DEF StoredValue
<1>2. "x" \in Names /\ TypeOf("x") = symbol
  BY DEF Names, TypeOf
<1> QED
  BY <1>1, <1>2 DEF MemoryFits

\* The first node of an assignment that is compiled or interpreted.
LEMMA NoValuesYet ==
  ASSUME StateInv, NEW s \in Stmts, values' = << >>, stmt' = s, node' = 1, prog' = prog
  PROVE  ValuesFit(values, stmt, node)'
<1>1. Len(Nodes(s)) \in Nat \ {0} /\ Nodes(s)' = Nodes(s)
  BY StmtFacts DEF Nodes
<1>2. Nodes(stmt)' = Nodes(s)
  BY <1>1 DEF Nodes
<1>3. values' \in Seq(AnyValue \cup {nullptr}) /\ Len(values') = 0
  OBVIOUS
<1> QED
  BY <1>1, <1>2, <1>3 DEF ValuesFit

LEMMA CheckErr == ASSUME NumInv, check_err PROVE NumInv'
<1>1. /\ pc \in {"HIRGen", "codegen"} /\ pc' = "stopped" /\ outcome' = [Open EXCEPT !.verdict = "rejected"]
      /\ prog' = prog /\ errors' = errors /\ stmt' = stmt /\ node' = node /\ path' = path
      /\ mem' = mem /\ values' = values /\ faults' = faults /\ UNCHANGED checkVars
  BY DEF check_err, codeVars
<1>2. outcome'.verdict = "rejected"
  BY <1>1 DEF Open
<1>3. stmt \in Stmts /\ node \in Nat /\ path \in {"none", "compiled", "interpreted"}
  BY DEF NumInv, StateInv
<1>4. pc \in AfterChecks /\ pc' \in AfterChecks
  BY <1>1 DEF AfterChecks
<1> QED
  BY <1>1, <1>2, <1>3, <1>4, MemoryStored, FaultsType, RunStep DEF AllFaults

LEMMA Generate == ASSUME NumInv, generate PROVE NumInv'
<1> DEFINE ok == \A s \in Stmts : \A k \in DOMAIN types[s] : Nodes(s)[k].dot => types[s][k] \notin {I128, U128}
<1>1. /\ pc = "HIRGen" /\ errors = {} /\ path' = "compiled" /\ pc' = "codegen" /\ stmt' = 1 /\ node' = 1
      /\ Test(ok, "RT_NUM_LITERAL_UNSUPPORTED") /\ prog' = prog /\ UNCHANGED checkVars
      /\ mem' = mem /\ values' = values /\ faults' = faults /\ outcome' = outcome
  BY DEF generate, codeVars
<1>2. pc \in AfterChecks /\ pc' \in AfterChecks
  BY <1>1 DEF AfterChecks
<1>3. StateInv /\ 1 \in Stmts /\ outcome.verdict \in {"open", "rejected", "ran", "astray"}
  BY StmtFacts DEF NumInv, StateInv
<1>4. errors \subseteq errors' /\ (errors' # {} => ~ok)
  <2> HIDE DEF ok
  <2> QED
    BY <1>1, Tested
<1>5. ASSUME ~ok PROVE ~LiteralsFit(prog)
  <2>1. PICK s \in Stmts : \E k \in DOMAIN types[s] : Nodes(s)[k].dot /\ types[s][k] \in {I128, U128}
    BY <1>5
  <2>2. PICK k \in DOMAIN types[s] : Nodes(s)[k].dot /\ types[s][k] \in {I128, U128}
    BY <2>1
  <2>3. k \in 1 .. Len(Nodes(s))
    BY <1>3 DEF StateInv
  <2>4. /\ WellFormed(Nodes(s), k, Names) /\ NodeMeant(s, k) /\ s \in 1 .. Len(prog.stmts)
        /\ Nodes(s) = prog.stmts[s].nodes
    BY <1>1, <1>2, <1>3, <2>3, StmtFacts, RunFacts DEF Meant
  <2>5. Nodes(s)[k].kind = "num"
    BY <2>2, <2>4 DEF WellFormed
  <2>6. Types(prog, s)[k] \in {I128, U128}
    BY <2>2, <2>4, <2>5 DEF NodeMeant
  <2>7. is_integer(Types(prog, s)[k])
    BY <2>6 DEF is_integer, I128, U128, SignedOf, UnsignedOf
  <2>8. ~LiteralFits(Nodes(s)[k], Types(prog, s)[k])
    BY <2>2, <2>7 DEF LiteralFits
  <2> QED
    BY <2>3, <2>4, <2>5, <2>8 DEF LiteralsFit
<1> HIDE DEF ok
<1> QED
  BY <1>1, <1>2, <1>3, <1>4, <1>5, MemoryStored, FaultsType, RunStep DEF AllFaults

LEMMA GetOrCreateAlloca == ASSUME NumInv, get_or_create_alloca PROVE NumInv'
<1> DEFINE v == Unknown(Ir(types[1][Root]))
<1>1. /\ pc = "codegen" /\ errors = {} /\ pc' = "emit" /\ node' = 1 /\ values' = << >>
      /\ mem' = IF stmt = 1 THEN [mem EXCEPT !.x = v] ELSE mem
      /\ prog' = prog /\ errors' = errors /\ stmt' = stmt /\ path' = path /\ faults' = faults
      /\ outcome' = outcome /\ UNCHANGED checkVars
  BY DEF get_or_create_alloca
<1>2. pc \in AfterChecks /\ pc' \in AfterChecks
  BY <1>1 DEF AfterChecks
<1>3. /\ stmt \in Stmts /\ path = "compiled" /\ outcome.verdict \in {"open", "rejected", "ran", "astray"}
      /\ StateInv
  BY <1>1 DEF NumInv, StateInv, RunInv
<1>4. ValuesFit(values, stmt, node)'
  BY <1>1, <1>3, NoValuesYet
<1>5. MemoryFits(mem')
  <2>1. CASE stmt = 1
    <3>1. /\ Root \in 1 .. Root /\ Root = Len(Nodes(1)) /\ Meant(1) /\ symbol = XType(prog)
          /\ types[1][Root] \in DataTypes
      BY <1>1, <1>2, <1>3, <2>1, RunFacts
    <3>2. ASSUME symbol = BOOL PROVE types[1][Root] = BOOL
      <4>1. Types(prog, 1)[Root] = BOOL
        BY <3>1, <3>2, TypeFacts DEF Meant
      <4>2. NodeMeant(1, Root)
        BY <3>1 DEF Meant
      <4> QED
        BY <4>1, <4>2, TypeFacts DEF NodeMeant
    <3>3. StoredValue(v) /\ v.ir = Ir(types[1][Root])
      BY <3>1, IrFacts, UnknownStored
    <3> HIDE DEF v
    <3> QED
      BY <1>1, <2>1, <3>2, <3>3, MemorySet
  <2>2. CASE stmt # 1
    BY <1>1, <2>2, MemoryStored
  <2> QED
    BY <2>1, <2>2
<1> QED
  BY <1>1, <1>2, <1>3, <1>4, <1>5, FaultsType, RunStep DEF AllFaults

\* The last value of an assignment.
LEMMA RootValue ==
  ASSUME NumInv, pc \in {"emit", "eval"}, node > Root
  PROVE  /\ errors = {} /\ pc \in AfterChecks /\ stmt \in Stmts /\ StateInv
         /\ types[stmt][Root] \in DataTypes
         /\ IF path = "compiled" THEN values[Root] = nullptr \/ StoredValue(values[Root])
            ELSE values[Root] \in AnyValue
<1>1. errors = {} /\ pc \in AfterChecks /\ ValuesFit(values, stmt, node)
  BY DEF NumInv, RunInv, AfterChecks
<1>2. /\ StateInv /\ stmt \in Stmts /\ Root = Len(Nodes(stmt)) /\ Root \in Nat \ {0}
      /\ types[stmt][Root] \in DataTypes
  BY <1>1, RunFacts
<1>3. Root \in 1 .. node - 1
  BY <1>1, <1>2 DEF ValuesFit
<1> QED
  BY <1>1, <1>2, <1>3 DEF ValuesFit, NodeValue

LEMMA EmitAssign == ASSUME NumInv, emit_assing PROVE NumInv'
<1> DEFINE t == types[stmt][Root]
           op == prog.stmts[stmt].op
           b == BinopValue(op, t, mem.x, values[Root])
           rhs == IF Compound(prog, stmt) THEN b ELSE values[Root]
           v == IF rhs = nullptr THEN mem.x ELSE IF rhs.ir = mem.x.ir THEN rhs ELSE Unknown(mem.x.ir)
<1>1. /\ pc = "emit" /\ node > Root
      /\ mem' = CASE rhs = nullptr -> mem
                  [] rhs # nullptr /\ rhs.ir = mem.x.ir -> [mem EXCEPT !.x = rhs]
                  [] OTHER -> [mem EXCEPT !.x = Unknown(@.ir)]
      /\ faults' = faults
           \cup (IF Compound(prog, stmt) THEN BinopFaults(op, t, mem.x, values[Root]) ELSE {})
           \cup (IF rhs # nullptr /\ rhs.ir.size > mem.x.ir.size THEN {"overrun"} ELSE {})
      /\ pc' = IF stmt < Len(prog.stmts) THEN "codegen" ELSE "verify"
      /\ stmt' = IF stmt < Len(prog.stmts) THEN stmt + 1 ELSE stmt
      /\ prog' = prog /\ errors' = errors /\ node' = node /\ path' = path /\ outcome' = outcome
      /\ UNCHANGED checkVars
  BY DEF emit_assing
<1>2. /\ stmt \in Stmts /\ StateInv /\ path = "compiled" /\ pc \in AfterChecks /\ t \in DataTypes
      /\ values[Root] = nullptr \/ StoredValue(values[Root])
  BY <1>1, RootValue DEF NumInv, RunInv
<1>3. pc' \in AfterChecks /\ stmt' \in Stmts /\ pc' \in {"codegen", "verify"}
  <2>1. Stmts = 1 .. Len(prog.stmts) /\ Len(prog.stmts) \in {1, 2}
    BY <1>2, StmtFacts DEF Stmts
  <2> QED
    BY <1>1, <1>2, <2>1 DEF AfterChecks
<1>4. StoredValue(mem.x) /\ mem.x.ir \in Irs /\ "x" \in Names
  <2>1. "x" \in Names
    BY DEF Names
  <2> QED
    BY <2>1, MemoryStored, StoredAny
<1>5. rhs = nullptr \/ StoredValue(rhs)
  <2>1. CASE Compound(prog, stmt)
    <3>1. op \in Arithmetic
      <4>1. op \in AssignOps
        BY <1>2, StmtFacts
      <4> QED
        BY <2>1, <4>1 DEF Compound, AssignOps, Arithmetic
    <3> HIDE DEF op, t
    <3>2. b = nullptr \/ StoredValue(b)
      BY <1>2, <1>4, <3>1, BinopValueFits
    <3> HIDE DEF b
    <3> QED
      BY <2>1, <3>2
  <2>2. CASE ~Compound(prog, stmt)
    BY <1>2, <2>2
  <2> QED
    BY <2>1, <2>2
<1>6. faults' \subseteq AllFaults
  BY <1>1, FaultsType DEF BinopFaults, AllFaults
<1> HIDE DEF rhs
<1>7. StoredValue(v) /\ v.ir = mem.x.ir
  BY <1>4, <1>5, UnknownStored
<1>8. mem' = mem \/ mem' = [mem EXCEPT !.x = v]
  BY <1>1
<1> HIDE DEF v
<1>9. MemoryFits(mem')
  BY <1>4, <1>7, <1>8, MemoryStored, MemoryUpdated
<1>10. node \in Nat /\ outcome.verdict \in {"open", "rejected", "ran", "astray"}
  BY <1>2 DEF StateInv
<1> QED
  BY <1>1, <1>2, <1>3, <1>6, <1>9, <1>10, RunStep DEF AllFaults

LEMMA AstEvalMain == ASSUME NumInv, ast_eval_main PROVE NumInv'
<1>1. /\ pc = "HIRGen" /\ errors = {} /\ path' = "interpreted" /\ pc' = "eval" /\ stmt' = 1 /\ node' = 1
      /\ prog' = prog /\ errors' = errors /\ UNCHANGED checkVars
      /\ mem' = mem /\ values' = values /\ faults' = faults /\ outcome' = outcome
  BY DEF ast_eval_main, codeVars
<1>2. pc \in AfterChecks /\ pc' \in AfterChecks
  BY <1>1 DEF AfterChecks
<1>3. StateInv /\ 1 \in Stmts /\ outcome.verdict \in {"open", "rejected", "ran", "astray"} /\ values = << >>
  BY <1>1, StmtFacts DEF NumInv, StateInv, RunInv
<1>4. ValuesFit(values, stmt, node)'
  BY <1>1, <1>3, NoValuesYet
<1> QED
  BY <1>1, <1>2, <1>3, <1>4, MemoryStored, FaultsType, RunStep DEF AllFaults

LEMMA Finish == ASSUME NumInv, finish PROVE NumInv'
<1>1. /\ pc \in {"emit", "eval", "verify"} /\ pc' = "stopped"
      /\ outcome'.verdict \in {"ran", "astray"}
      /\ prog' = prog /\ errors' = errors /\ stmt' = stmt /\ node' = node /\ path' = path
      /\ mem' = mem /\ values' = values /\ faults' = faults /\ UNCHANGED checkVars
  BY DEF finish, codeVars, Open
<1>2. stmt \in Stmts /\ node \in Nat /\ path \in {"none", "compiled", "interpreted"}
  BY DEF NumInv, StateInv
<1>3. pc \in AfterChecks /\ pc' \in AfterChecks
  BY <1>1 DEF AfterChecks
<1> QED
  BY <1>1, <1>2, <1>3, MemoryStored, FaultsType, RunStep DEF AllFaults

-----------------------------------------------------------------------------
(* The interpreter *)

LEMMA AsType ==
  ASSUME NEW v \in AnyValue, NEW t \in DataTypes
  PROVE  SA_as_f128(v, t) \in Int /\ SA_as_i128(v, t) \in Int /\ SA_as_u128(v, t) \in Int /\ SA_as(v, t) \in Int
<1>1. v.n \in Int
  BY DEF AnyValue
<1>2. Sized(t) /\ Sized(I32) /\ Sized(UnsignedOf(t.size)) /\ Sized(IF t = I64 THEN I32 ELSE t)
  BY TypeFacts DEF Sized, I32, SignedOf, UnsignedOf
<1>3. Wrap(v.n, t) \in Int /\ Wrap(v.n, UnsignedOf(t.size)) \in Int /\ Wrap(v.n, IF t = I64 THEN I32 ELSE t) \in Int
  BY <1>1, <1>2, WrapType
<1>4. Truncated(v.n) \in Int
  BY <1>1 DEF Truncated
<1>5. SA_as_f128(v, t) \in Int
  BY <1>1, <1>3 DEF SA_as_f128
<1>6. SA_as_i128(v, t) \in Int
  BY <1>3, <1>4 DEF SA_as_i128
<1>7. SA_as_u128(v, t) \in {Truncated(v.n), 0, Wrap(v.n, UnsignedOf(t.size))}
  BY DEF SA_as_u128, is_float
<1>8. SA_as_u128(v, t) \in Int
  BY <1>3, <1>4, <1>7
<1>9. SA_as(v, t) \in {SA_as_f128(v, t), SA_as_i128(v, t), SA_as_u128(v, t)}
  BY DEF SA_as, is_float
<1> QED
  BY <1>5, <1>6, <1>8, <1>9

LEMMA CastType ==
  ASSUME NEW v \in AnyValue, NEW from \in DataTypes, NEW to \in DataTypes, to # UNKNOWN
  PROVE  SA_cast_typed(v, from, to) \in AnyValue
<1> DEFINE truth == SA_as_f128(v, from) # 0
           V == SA_cast_typed(v, from, to)
<1>1. \A n \in Int : SA_from(n, to) \in AnyValue
  BY MadeStored, StoredAny
<1>2. Unknown(Ir(to)) \in AnyValue
  BY IrFacts, UnknownStored, StoredAny
<1>3. Truth(truth) \in Int /\ SA_as_f128(v, from) \in Int /\ SA_as_i128(v, from) \in Int /\ SA_as_u128(v, from) \in Int
  BY AsType, CompareType
<1>4. to = BOOL \/ is_float(to) \/ to.class = "unsigned" \/ to.class = "signed"
  BY DEF DataTypes, NumericTypes, IntTypes, FloatTypes, is_float
<1>5. V \in {v, Unknown(Ir(to)), SA_from(Truth(truth), to), SA_from(SA_as_f128(v, from), to),
             SA_from(SA_as_u128(v, from), to), SA_from(SA_as_i128(v, from), to)}
  BY <1>4 DEF SA_cast_typed, is_float
<1> HIDE DEF V, truth
<1> QED
  BY <1>1, <1>2, <1>3, <1>5 DEF V

LEMMA BinopNumericType ==
  ASSUME NEW a \in AnyValue, NEW b \in AnyValue, NEW t \in DataTypes, NEW op \in Arithmetic
  PROVE  SA_eval_binop_numeric(op, t, a, b) \in AnyValue
<1> DEFINE x == SA_as(a, t)
           y == SA_as(b, t)
           wide == [t EXCEPT !.size = 5]
           V == SA_eval_binop_numeric(op, t, a, b)
<1>1. x \in Int /\ y \in Int
  BY AsType
<1>2. Sized(wide)
  BY DEF Sized, DataTypes, NumericTypes, IntTypes, FloatTypes, BOOL, UNKNOWN
<1>3. Unknown(Ir(t)) \in AnyValue
  BY IrFacts, UnknownStored, StoredAny
<1>4. V = Unknown(Ir(t)) \/ (~Undefined(op, x, y, wide) /\ V = SA_from(Apply(op, x, y, wide), t))
  BY DEF SA_eval_binop_numeric
<1> HIDE DEF V, x, y, wide
<1>5. ASSUME ~Undefined(op, x, y, wide) PROVE SA_from(Apply(op, x, y, wide), t) \in AnyValue
  <2>1. Apply(op, x, y, wide) \in Int
    BY <1>1, <1>2, <1>5, ApplyType
  <2> QED
    BY <2>1, MadeStored, StoredAny
<1> QED
  BY <1>3, <1>4, <1>5 DEF V

LEMMA PromoteRuntimeType ==
  ASSUME NEW a \in DataTypes, NEW b \in DataTypes
  PROVE  SA_promote_runtime(a, b) \in NumericTypes
<1> DEFINE narrow(t) == IF t = I64 THEN I32 ELSE t
           unsigned == {t \in {a, b} : t.class = "unsigned"}
           signed == {t \in {a, b} : t.class = "signed"}
           U == unsigned \cup (signed \ {I64})
           S == {narrow(t) : t \in signed}
<1>1. \A t \in {a, b} : t.class \in {"signed", "unsigned"} => t \in IntTypes
  BY DEF DataTypes, NumericTypes, IntTypes, FloatTypes, BOOL, UNKNOWN
<1>2. I32 \in IntTypes /\ IntTypes \subseteq DataTypes
  BY DEF I32, SignedOf, IntTypes, DataTypes, NumericTypes, Sizes
<1>3. ASSUME NEW T, T \subseteq IntTypes, NEW c, NEW d, T \subseteq {c, d} PROVE Largest(T) \in Sizes
  <2>1. CASE T = {}
    BY <2>1 DEF Largest, Sizes
  <2>2. CASE T # {}
    <3>1. T \subseteq DataTypes
      BY <1>2, <1>3
    <3>2. PICK t \in T : Largest(T) = t.size
      BY <1>3, <2>2, <3>1, LargestSize
    <3> QED
      BY <1>3, <3>2, TypeFacts
  <2> QED
    BY <2>1, <2>2
<1>4. U \subseteq IntTypes /\ U \subseteq {a, b}
  BY <1>1
<1>5. S \subseteq IntTypes /\ S \subseteq {narrow(a), narrow(b)}
  BY <1>1, <1>2
<1>6. SA_promote_runtime(a, b) =
        IF is_float(a) \/ is_float(b) THEN FloatPromotion(a, b)
        ELSE IF unsigned # {} THEN UnsignedOf(Largest(U)) ELSE SignedOf(Largest(S))
  BY DEF SA_promote_runtime
<1> HIDE DEF U, S
<1>7. Largest(U) \in Sizes /\ Largest(S) \in Sizes
  BY <1>3, <1>4, <1>5
<1>8. UnsignedOf(Largest(U)) \in IntTypes /\ SignedOf(Largest(S)) \in IntTypes
  BY <1>7 DEF UnsignedOf, SignedOf, IntTypes
<1> QED
  BY <1>6, <1>8, FloatPromotionType DEF NumericTypes

LEMMA EvalBoolType ==
  ASSUME NEW a \in AnyValue, NEW b \in AnyValue, NEW t, NEW op
  PROVE  eval_bool(op, t, a, b) \in AnyValue
<1> DEFINE truth == Compare(op, SA_as(a, t), SA_as(b, t))
           both == a.n * b.n
           either == a.n + b.n - a.n * b.n
           V == eval_bool(op, t, a, b)
<1>1. a.n \in Int /\ b.n \in Int /\ BOOL \in DataTypes
  BY DEF AnyValue, DataTypes
<1>2. both \in Int
  BY <1>1
<1>3. either \in Int
  <2>1. either = a.n + b.n - both
    OBVIOUS
  <2> HIDE DEF both, either
  <2> QED
    BY <1>1, <1>2, <2>1
<1>4. Truth(truth) \in Int
  BY CompareType
<1>5. \A n \in Int : SA_from(n, BOOL) \in AnyValue
  BY <1>1, MadeStored, StoredAny
<1>6. Unknown(Ir(BOOL)) \in AnyValue
  BY IrFacts, UnknownStored, StoredAny
<1>7. V \in {Unknown(Ir(BOOL)), SA_from(both, BOOL), SA_from(either, BOOL), SA_from(Truth(truth), BOOL)}
  BY DEF eval_bool
<1> HIDE DEF V, both, either, truth
<1> QED
  BY <1>2, <1>3, <1>4, <1>5, <1>6, <1>7 DEF V

LEMMA UnopType ==
  ASSUME NEW op \in Unary, NEW t \in DataTypes, NEW v \in AnyValue
  PROVE  do_unop_operation(op, t, v) \in AnyValue
<1> DEFINE n == SA_as(v, t)
           int == IF t = U128 \/ (is_float(t) /\ t.size = 5) THEN n
                  ELSE IF is_float(t) THEN 2 * Truncated(n) ELSE Wrap(n, I32)
           one == IF is_float(t) THEN 2 ELSE 1
           all == Pattern(-v.n - 1, I128)
           V == do_unop_operation(op, t, v)
<1>1. n \in Int /\ one \in Int /\ v.n \in Int
  BY AsType DEF AnyValue
<1> HIDE DEF n
<1>2. int \in Int
  <2>1. Truncated(n) \in Int
    BY <1>1 DEF Truncated
  <2>2. Sized(I32)
    BY DEF Sized, I32, SignedOf
  <2>3. Wrap(n, I32) \in Int
    BY <1>1, <2>2, WrapType
  <2> QED
    BY <1>1, <2>1, <2>3
<1>3. all \in Int
  <2>1. Sized(I128) /\ -v.n - 1 \in Int
    BY <1>1 DEF Sized, I128, SignedOf
  <2>2. all \in 0 .. Modulus(I128) - 1 /\ Modulus(I128) \in Nat
    BY <2>1, PatternType, WidthType
  <2> QED
    BY <2>2
<1>4. Ir(t) \in Irs
  BY IrFacts
<1>5. Known(all, Ir(t)) \in AnyValue
  BY <1>3, <1>4 DEF Known, AnyValue
<1>6. Unknown(Ir(t)) \in AnyValue
  BY <1>4, UnknownStored, StoredAny
<1>7. \A m \in Int : SA_from(m, t) \in AnyValue
  BY MadeStored, StoredAny
<1>8. V \in {Unknown(Ir(t)), SA_from(-n, t), SA_from(n, t), SA_from(int + one, t), SA_from(int - one, t),
             Known(all, Ir(t)), SA_from(1 - n, t)}
  BY DEF do_unop_operation, Unary, n
<1> HIDE DEF V, int, one, all
<1>9. -n \in Int /\ int + one \in Int /\ int - one \in Int /\ 1 - n \in Int
  BY <1>1, <1>2
<1> QED
  BY <1>1, <1>5, <1>6, <1>7, <1>8, <1>9 DEF V

LEMMA AssignedStored ==
  ASSUME NEW v \in AnyValue, symbol \in DataTypes
  PROVE  StoredValue(assign_value(v)) /\ assign_value(v).ir = Ir(symbol)
<1> DEFINE n == SA_as(v, symbol)
<1>1. n \in Int
  BY AsType
<1>2. StoredValue(Unknown(Ir(symbol))) /\ Unknown(Ir(symbol)).ir = Ir(symbol)
  BY IrFacts, UnknownStored
<1>3. assign_value(v) = SA_from(n, symbol) \/ assign_value(v) = Unknown(Ir(symbol))
  BY DEF assign_value
<1> HIDE DEF n
<1> QED
  BY <1>1, <1>2, <1>3, MadeStored

LEMMA EvalFacts ==
  ASSUME NumInv, NEW kind, Eval(kind)
  PROVE  pc \in {"emit", "eval"} /\ path # "compiled" /\ node <= Root /\ This.kind = kind
BY DEF Eval, NumInv, RunInv

LEMMA EvalNum == ASSUME NumInv, eval_num PROVE NumInv'
<1> DEFINE v == SA_from(Parsed(This, This_type), This_type)
<1>1. Eval("num") /\ Push(v) /\ mem' = mem /\ faults' \subseteq faults \cup {"crash"}
  BY DEF eval_num
<1>2. pc \in {"emit", "eval"} /\ path # "compiled" /\ node <= Root
  BY <1>1, EvalFacts
<1>3. This \in Expressions /\ This_type \in DataTypes
  BY <1>2, NodeFacts
<1>4. v \in AnyValue
  BY <1>3, LiteralStored, StoredAny
<1>5. faults' \subseteq AllFaults
  BY <1>1, FaultsType DEF AllFaults
<1> HIDE DEF v
<1> QED
  BY <1>1, <1>2, <1>4, <1>5, MemoryStored, PushStep DEF AllFaults

LEMMA EvalVar == ASSUME NumInv, SA_runtime_env_get PROVE NumInv'
<1> DEFINE v == mem[This.name]
<1>1. Eval("var") /\ Push(v) /\ mem' = mem /\ faults' = faults
  BY DEF SA_runtime_env_get
<1>2. pc \in {"emit", "eval"} /\ path # "compiled" /\ node <= Root /\ This.kind = "var"
  BY <1>1, EvalFacts
<1>3. This.name \in Names
  BY <1>2, NodeFacts
<1>4. v \in AnyValue
  BY <1>3, MemoryStored, StoredAny
<1> HIDE DEF v
<1> QED
  BY <1>1, <1>2, <1>4, MemoryStored, FaultsType, PushStep DEF AllFaults

LEMMA EvalBinop == ASSUME NumInv, eval_binop PROVE NumInv'
<1> DEFINE left == types[stmt][This.l]
           right == types[stmt][This.r]
           l == SA_cast_typed(L_value, left, This_type)
           r == SA_cast_typed(R_value, right, This_type)
           logic == eval_bool(This.op, BOOL, L_value, R_value)
           compared == eval_bool(This.op, SA_promote_runtime(left, right), L_value, R_value)
           number == SA_eval_binop_numeric(This.op, This_type, l, r)
<1>1. /\ Eval("binop") /\ mem' = mem /\ faults' \subseteq faults \cup {"died"}
      /\ \/ Push(logic) \/ Push(compared)
         \/ This.op \notin Logic \cup Comparisons /\ Push(number)
  BY DEF eval_binop
<1>2. pc \in {"emit", "eval"} /\ path # "compiled" /\ node <= Root /\ This.kind = "binop"
  BY <1>1, EvalFacts
<1>3. /\ This_type \in DataTypes /\ This_type # UNKNOWN /\ left \in DataTypes /\ right \in DataTypes
      /\ L_value \in AnyValue /\ R_value \in AnyValue
      /\ This.op \in Arithmetic \cup Comparisons \cup Logic
  BY <1>2, NodeFacts
<1>4. logic \in AnyValue /\ compared \in AnyValue
  BY <1>3, EvalBoolType
<1>5. This.op \notin Logic \cup Comparisons => number \in AnyValue
  <2>1. l \in AnyValue /\ r \in AnyValue
    BY <1>3, CastType
  <2> HIDE DEF l, r
  <2> QED
    BY <1>3, <2>1, BinopNumericType
<1>6. faults' \subseteq AllFaults
  BY <1>1, FaultsType DEF AllFaults
<1> HIDE DEF logic, compared, number
<1>7. ASSUME NEW v \in AnyValue, Push(v) PROVE NumInv'
  BY <1>1, <1>2, <1>6, <1>7, MemoryStored, PushStep DEF AllFaults
<1> QED
  BY <1>1, <1>4, <1>5, <1>7

LEMMA EvalUnop == ASSUME NumInv, eval_unop PROVE NumInv'
<1> DEFINE w == SA_cast_typed(L_value, types[stmt][This.l], This_type)
           v == do_unop_operation(This.op, This_type, w)
<1>1. Eval("unop") /\ Push(v) /\ mem' = mem /\ faults' \subseteq faults \cup {"died"}
  BY DEF eval_unop
<1>2. pc \in {"emit", "eval"} /\ path # "compiled" /\ node <= Root /\ This.kind = "unop"
  BY <1>1, EvalFacts
<1>3. /\ This_type \in DataTypes /\ This_type # UNKNOWN /\ types[stmt][This.l] \in DataTypes
      /\ L_value \in AnyValue /\ WellFormed(Nodes(stmt), node, Names)
  BY <1>2, NodeFacts
<1>4. This.op \in Unary
  BY <1>2, <1>3 DEF WellFormed, This
<1>5. w \in AnyValue
  BY <1>3, CastType
<1> HIDE DEF w
<1>6. v \in AnyValue
  BY <1>3, <1>4, <1>5, UnopType
<1>7. faults' \subseteq AllFaults
  BY <1>1, FaultsType DEF AllFaults
<1> HIDE DEF v
<1> QED
  BY <1>1, <1>2, <1>6, <1>7, MemoryStored, PushStep DEF AllFaults

\* An assignment is interpreted; x is left alone, or assigned v.
LEMMA EvaluatedStep ==
  ASSUME NumInv, Evaluated, faults' \subseteq AllFaults,
         mem' = mem \/ \E v \in AnyValue : mem' = [mem EXCEPT !.x = assign_value(v)]
  PROVE  NumInv'
<1>1. /\ pc = "eval" /\ node > Root
      /\ pc' = IF stmt < Len(prog.stmts) THEN "eval" ELSE "verify"
      /\ stmt' = IF stmt < Len(prog.stmts) THEN stmt + 1 ELSE stmt
      /\ node' = IF stmt < Len(prog.stmts) THEN 1 ELSE node
      /\ values' = IF stmt < Len(prog.stmts) THEN << >> ELSE values
      /\ prog' = prog /\ errors' = errors /\ path' = path /\ outcome' = outcome /\ UNCHANGED checkVars
  BY DEF Evaluated
<1>2. /\ errors = {} /\ stmt \in Stmts /\ StateInv /\ path = "interpreted" /\ pc \in AfterChecks
      /\ symbol \in DataTypes
  BY <1>1, RootValue DEF NumInv, RunInv, StateInv
<1>3. /\ pc' \in AfterChecks /\ pc' \in {"eval", "verify"} /\ stmt' \in Stmts
      /\ pc' = "eval" => stmt' = stmt + 1 /\ node' = 1 /\ values' = << >>
  <2>1. Stmts = 1 .. Len(prog.stmts) /\ Len(prog.stmts) \in {1, 2}
    BY <1>2, StmtFacts DEF Stmts
  <2> QED
    BY <1>1, <1>2, <2>1 DEF AfterChecks
<1>4. ASSUME pc' = "eval" PROVE ValuesFit(values, stmt, node)'
  <2>1. PICK s \in Stmts : s = stmt'
    BY <1>3
  <2> QED
    BY <1>1, <1>2, <1>3, <1>4, <2>1, NoValuesYet
<1>5. MemoryFits(mem')
  <2>1. ASSUME NEW v \in AnyValue PROVE MemoryFits([mem EXCEPT !.x = assign_value(v)])
    BY <1>2, AssignedStored, MemorySet
  <2> QED
    BY <2>1, MemoryStored
<1>6. node' \in Nat /\ outcome.verdict \in {"open", "rejected", "ran", "astray"}
  BY <1>1, <1>2 DEF StateInv
<1> QED
  BY <1>1, <1>2, <1>3, <1>4, <1>5, <1>6, RunStep DEF AllFaults

LEMMA RtType ==
  ASSUME NumInv, Evaluated
  PROVE  rt \in AnyValue /\ symbol \in DataTypes /\ stmt \in Stmts /\ StateInv
<1>1. pc \in {"emit", "eval"} /\ node > Root /\ path # "compiled"
  BY DEF Evaluated, NumInv, RunInv
<1>2. /\ values[Root] \in AnyValue /\ types[stmt][Root] \in DataTypes /\ stmt \in Stmts /\ StateInv
      /\ errors = {} /\ pc \in AfterChecks
  BY <1>1, RootValue
<1>3. symbol \in DataTypes /\ symbol # UNKNOWN
  BY <1>2, RunFacts
<1> QED
  BY <1>2, <1>3, CastType DEF rt

LEMMA EvalDeclaration == ASSUME NumInv, eval_declaration PROVE NumInv'
<1>1. Evaluated /\ mem' = [mem EXCEPT !.x = assign_value(rt)] /\ faults' = faults
  BY DEF eval_declaration
<1> QED
  BY <1>1, RtType, FaultsType, EvaluatedStep

LEMMA EvalAssign == ASSUME NumInv, eval_assign PROVE NumInv'
<1> DEFINE op == prog.stmts[2].op
           n == SA_eval_binop_numeric(op, symbol, mem.x, rt)
<1>1. /\ Evaluated /\ stmt = 2 /\ faults' \subseteq faults \cup {"RT_ASSIGN_UNSUPPORTED", "died"}
      /\ \/ mem' = mem \/ mem' = [mem EXCEPT !.x = assign_value(rt)]
         \/ op # "OP_ASSIGN" /\ mem' = [mem EXCEPT !.x = assign_value(n)]
  BY DEF eval_assign, Compound
<1>2. rt \in AnyValue /\ symbol \in DataTypes /\ op \in AssignOps
  BY <1>1, RtType, StmtFacts
<1>3. mem.x \in AnyValue
  <2>1. "x" \in Names
    BY DEF Names
  <2> QED
    BY <2>1, MemoryStored, StoredAny
<1>4. op # "OP_ASSIGN" => n \in AnyValue
  <2>1. op # "OP_ASSIGN" => op \in Arithmetic
    BY <1>2 DEF AssignOps, Arithmetic
  <2> HIDE DEF op
  <2> QED
    BY <1>2, <1>3, <2>1, BinopNumericType
<1>5. faults' \subseteq AllFaults
  BY <1>1, FaultsType DEF AllFaults
<1> HIDE DEF n
<1> QED
  BY <1>1, <1>2, <1>4, <1>5, EvaluatedStep

-----------------------------------------------------------------------------
(* Theorems *)

LEMMA NumInit == ASSUME Init PROVE NumInv
<1>1. /\ prog \in Programs /\ pc = "assign" /\ errors = {} /\ stmt = 1 /\ node = 1
      /\ types = [s \in Stmts |-> [k \in 1 .. Len(Nodes(s)) |-> UNKNOWN]] /\ symbol = UNKNOWN
      /\ path = "none" /\ values = << >> /\ faults = {} /\ outcome = Open
      /\ mem = [x |-> Unknown(Ir(UNKNOWN)), y |-> ValueOf(prog.y.n, prog.y.type), z |-> ValueOf(prog.z.n, prog.z.type)]
  BY DEF Init, CheckInit, InitCode
<1>2. 1 \in Stmts /\ prog.y \in Variables /\ prog.z \in Variables
  BY <1>1, ProgramFacts DEF Stmts
<1>3. UNKNOWN \in DataTypes /\ UNKNOWN # BOOL
  BY TypeFacts DEF DataTypes
<1>4. StateInv
  BY <1>1, <1>2, <1>3 DEF StateInv, Open
<1>5. CheckInv
  BY <1>1 DEF CheckInv, Checked
<1>6. /\ StoredValue(mem.x) /\ mem.x.ir = Ir(BOOL)
      /\ StoredValue(mem.y) /\ mem.y.ir = Ir(prog.y.type)
      /\ StoredValue(mem.z) /\ mem.z.ir = Ir(prog.z.type)
  <2>1. StoredValue(Unknown(Ir(UNKNOWN))) /\ Unknown(Ir(UNKNOWN)).ir = Ir(BOOL)
    BY IrFacts, UnknownStored
  <2>2. prog.y.n \in Int /\ prog.y.type \in DataTypes /\ prog.z.n \in Int /\ prog.z.type \in DataTypes
    BY <1>2 DEF Variables, DataTypes
  <2>3. /\ StoredValue(ValueOf(prog.y.n, prog.y.type)) /\ ValueOf(prog.y.n, prog.y.type).ir = Ir(prog.y.type)
        /\ StoredValue(ValueOf(prog.z.n, prog.z.type)) /\ ValueOf(prog.z.n, prog.z.type).ir = Ir(prog.z.type)
    BY <2>2, MadeStored
  <2> QED
    BY <1>1, <2>1, <2>3
<1>7. MemoryFits(mem)
  <2>1. mem \in [Names -> AnyValue]
    BY <1>1, <1>6 DEF Names, StoredValue
  <2>2. \A name \in Names : FitsIr(mem[name]) /\ (TypeOf(name) = BOOL => mem[name].ir = Ir(BOOL))
    BY <1>1, <1>6 DEF Names, StoredValue, TypeOf
  <2> QED
    BY <2>1, <2>2 DEF MemoryFits
<1>8. RunInv
  BY <1>1, <1>6, <1>7 DEF RunInv
<1> QED
  BY <1>4, <1>5, <1>8 DEF NumInv

LEMMA NumStutter == ASSUME NumInv, UNCHANGED vars PROVE NumInv'
<1>1. /\ prog' = prog /\ pc' = pc /\ errors' = errors /\ stmt' = stmt /\ node' = node /\ types' = types
      /\ checked' = checked /\ symbol' = symbol /\ path' = path /\ values' = values /\ mem' = mem
      /\ faults' = faults /\ outcome' = outcome
  BY DEF vars, checkVars, codeVars
<1>2. /\ Stmts' = Stmts /\ Root' = Root /\ (\A s : Nodes(s)' = Nodes(s))
      /\ (\A name : TypeOf(name)' = TypeOf(name)) /\ (Checked' <=> Checked)
      /\ \A k : force_numeric_type(k)' = force_numeric_type(k)
  BY <1>1 DEF Stmts, Root, Nodes, TypeOf, Checked, force_numeric_type, lhs_t
<1>3. StateInv'
  BY <1>1, <1>2 DEF NumInv, StateInv
<1>4. CheckInv'
  <2>1. \A s, k : NodeMeant(s, k)' <=> NodeMeant(s, k)
    BY <1>1, <1>2 DEF NodeMeant
  <2>2. \A s : Meant(s)' <=> Meant(s)
    BY <1>1, <1>2, <2>1 DEF Meant
  <2> QED
    BY <1>1, <1>2, <2>1, <2>2 DEF NumInv, CheckInv
<1>5. RunInv'
  BY <1>1, <1>2 DEF NumInv, RunInv, MemoryFits, ValuesFit, NodeValue
<1> QED
  BY <1>3, <1>4, <1>5 DEF NumInv

\* The nodes that are checked have the types they mean, and the values that are made fit.
THEOREM NumberInvariant == Spec => []NumInv
<1>1. Init => NumInv
  BY NumInit
<1>2. NumInv /\ [Next]_vars => NumInv'
  <2> SUFFICES ASSUME NumInv, [Next]_vars PROVE NumInv'
    OBVIOUS
  <2>1. CASE SemanticPass /\ UNCHANGED <<path, codeVars, outcome>>
    <3>1. Stays
      BY <2>1 DEF Stays
    <3> QED
      BY <2>1, <3>1, ResolveTargetType, HandleNum, CheckVar, CheckUnop, CheckCompare,
         CheckArithmetic,
         ProcessDeclaration, ValidateAssignment DEF SemanticPass
  <2>2. CASE check_err
    BY <2>2, CheckErr
  <2>3. CASE generate
    BY <2>3, Generate
  <2>4. CASE get_or_create_alloca
    BY <2>4, GetOrCreateAlloca
  <2>5. CASE emit_literal
    BY <2>5, EmitLiteral
  <2>6. CASE Load
    BY <2>6, EmitLoad
  <2>7. CASE emit_binop
    BY <2>7, EmitBinop
  <2>8. CASE emit_unop
    BY <2>8, EmitUnop
  <2>9. CASE num_inc_OR_dec
    BY <2>9, NumIncDec
  <2>10. CASE emit_assing
    BY <2>10, EmitAssign
  <2>11. CASE ast_eval_main
    BY <2>11, AstEvalMain
  <2>12. CASE eval_num
    BY <2>12, EvalNum
  <2>13. CASE SA_runtime_env_get
    BY <2>13, EvalVar
  <2>14. CASE eval_binop
    BY <2>14, EvalBinop
  <2>15. CASE eval_unop
    BY <2>15, EvalUnop
  <2>16. CASE eval_declaration
    BY <2>16, EvalDeclaration
  <2>17. CASE eval_assign
    BY <2>17, EvalAssign
  <2>18. CASE finish
    BY <2>18, Finish
  <2>19. CASE Done \/ UNCHANGED vars
    BY <2>19, NumStutter DEF Done
  <2> QED
    BY <2>1, <2>2, <2>3, <2>4, <2>5, <2>6, <2>7, <2>8, <2>9, <2>10, <2>11, <2>12, <2>13, <2>14,
       <2>15,
       <2>16, <2>17, <2>18, <2>19 DEF Next
<1> QED
  BY <1>1, <1>2, PTL DEF Spec

\* What variables hold fits their storage, in compiled programs and in the interpreter.
THEOREM ValuesFitStorage == Spec => []TypeOK
<1>1. NumInv => TypeOK
  BY DEF NumInv, StateInv, RunInv, MemoryFits, TypeOK
<1> QED
  BY <1>1, NumberInvariant, PTL

\* In a program without errors nodes have the types they mean, and so has x.
THEOREM TypesKept == Spec => []TypesAsMeant
<1>1. NumInv => TypesAsMeant
  <2> SUFFICES ASSUME NumInv, Checked PROVE TypesAsMeant
    BY DEF TypesAsMeant
  <2>1. StateInv /\ symbol = XType(prog) /\ \A s \in Stmts : Meant(s)
    BY DEF NumInv, CheckInv, Checked
  <2>2. ASSUME NEW s \in Stmts, NEW k \in DOMAIN types[s]
        PROVE  types[s][k] = Types(prog, s)[k] \/ Keeps(s, k)
    <3>1. NodeMeant(s, k)
      BY <2>1 DEF StateInv, Meant
    <3> QED
      BY <3>1 DEF NodeMeant, Keeps
  <2> QED
    BY <2>1, <2>2 DEF TypesAsMeant
<1> QED
  BY <1>1, NumberInvariant, PTL

\* Programs are accepted if, and only if, they are well typed, but for literals that do
\* not fit (process_declaration, handle_num).
THEOREM AcceptedAreWellTyped == Spec => []AcceptsWellTyped
<1>1. NumInv => AcceptsWellTyped
  <2> SUFFICES ASSUME NumInv PROVE AcceptsWellTyped
    OBVIOUS
  <2>1. errors # {} => ~WellTyped(prog) \/ ~LiteralsFit(prog)
    BY DEF NumInv, CheckInv
  <2>2. ASSUME Checked PROVE WellTyped(prog)
    <3>1. StateInv /\ \A s \in Stmts : Meant(s)
      BY <2>2 DEF NumInv, CheckInv, Checked
    <3>2. ASSUME NEW s \in 1 .. Len(prog.stmts)
          PROVE  LET nodes == prog.stmts[s].nodes
                     ty == Types(prog, s) IN
                 /\ \A k \in 1 .. Len(nodes) : NodeIsTyped(nodes[k], ty)
                 /\ ty[Len(nodes)] = XType(prog) \/ (is_numeric(ty[Len(nodes)]) /\ is_numeric(XType(prog)))
      <4>1. Meant(s) /\ Nodes(s) = prog.stmts[s].nodes
        BY <3>1 DEF Stmts, Nodes
      <4> QED
        BY <4>1 DEF Meant, NodeMeant
    <3> QED
      BY <3>2 DEF WellTyped
  <2> QED
    BY <2>1, <2>2 DEF AcceptsWellTyped
<1> QED
  BY <1>1, NumberInvariant, PTL

=============================================================================
