------------------------------ MODULE CallProofs ------------------------------
(***************************************************************************)
(* Proofs about CallLowering, for every set of calls: the variables keep   *)
(* their types, both passes deal the arguments of an accepted call out     *)
(* alike, and a call has the type of the value that LLVM's call returns.   *)
(***************************************************************************)
EXTENDS CallLowering, TLAPS, SequenceTheorems, WellFoundedInduction

-----------------------------------------------------------------------------
(* Numbers and sequences *)

LEMMA Least ==
  ASSUME NEW S, S \subseteq Nat, S # {}
  PROVE  \E m \in S : \A k \in S : m <= k
<1>1. PICK m \in S : \A k \in S : <<k, m>> \notin OpToRel(<, Nat)
  BY WFMin, NatLessThanWellFounded, Zenon
<1>2. \A k \in S : ~(k < m)
  BY <1>1 DEF OpToRel
<1> QED
  BY <1>2

\* The function that FlattenSeq is defined by exists.
Joined(ss, f, k) == IF k = 1 THEN ss[k] ELSE f[k - 1] \o ss[k]
FlattensTo(ss, m, f) == f = [k \in 1 .. m |-> Joined(ss, f, k)]

LEMMA FlatteningExists ==
  ASSUME NEW T, NEW ss \in Seq(Seq(T))
  PROVE  \E f : FlattensTo(ss, Len(ss), f)
<1> DEFINE Missing == {m \in Nat : m <= Len(ss) /\ ~\E f : FlattensTo(ss, m, f)}
<1>1. SUFFICES ASSUME Missing # {}
               PROVE  FALSE
  <2>1. Len(ss) \in Nat /\ Len(ss) <= Len(ss)
    OBVIOUS
  <2> QED
    BY <2>1
<1>2. /\ Missing \subseteq Nat
      /\ \A m \in Nat : m \in Missing <=> m <= Len(ss) /\ ~\E f : FlattensTo(ss, m, f)
  OBVIOUS
<1> HIDE DEF Missing
<1>3. PICK m \in Missing : \A k \in Missing : m <= k
  BY <1>1, <1>2, Least
<1>4. CASE m = 0
  <2> DEFINE f == [k \in 1 .. 0 |-> ss[k]]
  <2>1. f = [k \in 1 .. 0 |-> Joined(ss, f, k)]
    OBVIOUS
  <2> QED
    BY <1>2, <1>3, <1>4, <2>1 DEF FlattensTo
<1>5. CASE m # 0
  <2>1. m \in Nat \ {0} /\ m <= Len(ss) /\ m - 1 \in Nat /\ m - 1 <= Len(ss)
    BY <1>2, <1>5, <1>3
  <2>2. m - 1 \notin Missing
    BY <1>3, <2>1
  <2>3. PICK f : FlattensTo(ss, m - 1, f)
    BY <1>2, <2>1, <2>2
  <2> DEFINE g == [k \in 1 .. m |-> Joined(ss, f, k)]
  <2>4. \A k \in 1 .. m - 1 : g[k] = f[k]
    <3>1. \A k \in 1 .. m - 1 : f[k] = Joined(ss, f, k)
      BY <2>3 DEF FlattensTo
    <3>2. \A k \in 1 .. m : g[k] = Joined(ss, f, k)
      OBVIOUS
    <3>3. \A k \in 1 .. m - 1 : k \in 1 .. m
      BY <2>1
    <3> QED
      BY <3>1, <3>2, <3>3
  <2>5. ASSUME NEW k \in 1 .. m
        PROVE  Joined(ss, g, k) = Joined(ss, f, k)
    <3>1. CASE k = 1
      BY <3>1 DEF Joined
    <3>2. CASE k # 1
      <4> HIDE DEF g
      <4>1. g[k - 1] = f[k - 1]
        BY <2>1, <2>4, <3>2
      <4> QED
        BY <4>1, <3>2 DEF Joined
    <3> QED
      BY <3>1, <3>2
  <2>6. g = [k \in 1 .. m |-> Joined(ss, g, k)]
    <3>1. \A k \in 1 .. m : Joined(ss, g, k) = Joined(ss, f, k)
      BY <2>5
    <3> DEFINE h == [k \in 1 .. m |-> Joined(ss, g, k)]
    <3>2. DOMAIN g = 1 .. m /\ DOMAIN h = 1 .. m /\ \A k \in 1 .. m : g[k] = h[k]
      BY <3>1
    <3> QED
      BY <3>1
  <2>7. FlattensTo(ss, m, g)
    BY <2>6 DEF FlattensTo
  <2> QED
    BY <1>2, <1>3, <2>7
<1> QED
  BY <1>4, <1>5

\* FlattenSeq makes a sequence of what the sequences are of.
LEMMA FlattenType ==
  ASSUME NEW T, NEW ss \in Seq(Seq(T))
  PROVE  FlattenSeq(ss) \in Seq(T)
<1> DEFINE n == Len(ss)
           f == CHOOSE h : FlattensTo(ss, n, h)
<1>1. CASE n = 0
  <2>1. FlattenSeq(ss) = ss /\ ss = << >>
    BY <1>1 DEF FlattenSeq
  <2> QED
    BY <2>1
<1>2. CASE n # 0
  <2>1. FlattenSeq(ss) = f[n]
    BY <1>2 DEF FlattenSeq, FlattensTo, Joined
  <2>2. FlattensTo(ss, n, f)
    BY FlatteningExists
  <2> HIDE DEF f
  <2>3. n \in Nat \ {0}
    BY <1>2
  <2>4. \A k \in 1 .. n : ss[k] \in Seq(T) /\ f[k] = IF k = 1 THEN ss[k] ELSE f[k - 1] \o ss[k]
    <3>1. \A k \in 1 .. n : ss[k] \in Seq(T)
      OBVIOUS
    <3>2. \A k \in 1 .. n : f[k] = IF k = 1 THEN ss[k] ELSE f[k - 1] \o ss[k]
      BY <2>2 DEF FlattensTo, Joined
    <3> QED
      BY <3>1, <3>2
  <2> DEFINE Wrong == {k \in 1 .. n : f[k] \notin Seq(T)}
  <2> HIDE DEF n
  <2>5. Wrong = {}
    <3>1. SUFFICES ASSUME Wrong # {}
                   PROVE  FALSE
      OBVIOUS
    <3>2. PICK k \in Wrong : \A l \in Wrong : k <= l
      <4>1. Wrong \subseteq Nat
        BY <2>3
      <4> HIDE DEF Wrong
      <4> QED
        BY <3>1, <4>1, Least
    <3>3. k \in 1 .. n /\ f[k] \notin Seq(T)
      OBVIOUS
    <3>4. k # 1
      BY <2>4, <3>3
    <3>5. k - 1 \in 1 .. n /\ k - 1 \notin Wrong
      BY <2>3, <3>2, <3>3, <3>4
    <3>6. f[k - 1] \in Seq(T)
      BY <3>5
    <3>7. f[k] = f[k - 1] \o ss[k] /\ ss[k] \in Seq(T)
      BY <2>4, <3>3, <3>4
    <3>8. f[k - 1] \o ss[k] \in Seq(T)
      BY <3>6, <3>7
    <3> QED
      BY <3>3, <3>7, <3>8
  <2> QED
    BY <2>1, <2>3, <2>5
<1> QED
  BY <1>1, <1>2

\* Nothing gets lost: what is not empty is found again.
LEMMA FlattenNotEmpty ==
  ASSUME NEW T, NEW ss \in Seq(Seq(T)), NEW m \in 1 .. Len(ss), ss[m] # << >>
  PROVE  FlattenSeq(ss) # << >>
<1> DEFINE n == Len(ss)
           f == CHOOSE h : FlattensTo(ss, n, h)
<1>1. n \in Nat \ {0} /\ \A k \in 1 .. n : ss[k] \in Seq(T)
  OBVIOUS
<1>2. FlattenSeq(ss) = f[n]
  BY <1>1 DEF FlattenSeq, FlattensTo, Joined
<1>3. FlattensTo(ss, n, f)
  BY FlatteningExists
<1> HIDE DEF f
<1>4. \A k \in 1 .. n : f[k] = IF k = 1 THEN ss[k] ELSE f[k - 1] \o ss[k]
  BY <1>3 DEF FlattensTo, Joined
<1> DEFINE Wrong == {k \in 1 .. n : ~(f[k] \in Seq(T) /\ (k >= m => f[k] # << >>))}
<1> HIDE DEF n
<1>5. Wrong = {}
  <2>1. SUFFICES ASSUME Wrong # {}
                 PROVE  FALSE
    OBVIOUS
  <2>2. Wrong \subseteq Nat /\ Wrong \subseteq 1 .. n
    BY <1>1
  <2>3. PICK k \in Wrong : \A l \in Wrong : k <= l
    <3> HIDE DEF Wrong
    <3> QED
      BY <2>1, <2>2, Least
  <2>4. k \in 1 .. n /\ ~(f[k] \in Seq(T) /\ (k >= m => f[k] # << >>))
    OBVIOUS
  <2>5. m \in 1 .. n /\ ss[m] # << >>
    BY DEF n
  <2>6. k # 1
    BY <1>1, <1>4, <2>4, <2>5
  <2>7. k - 1 \in 1 .. n /\ k - 1 \notin Wrong
    BY <1>1, <2>3, <2>4, <2>6
  <2>8. f[k - 1] \in Seq(T) /\ (k - 1 >= m => f[k - 1] # << >>)
    BY <2>7
  <2>9. f[k] = f[k - 1] \o ss[k] /\ ss[k] \in Seq(T)
    BY <1>1, <1>4, <2>4, <2>6
  <2> DEFINE a == f[k - 1]
             b == ss[k]
  <2>10. a \in Seq(T) /\ b \in Seq(T) /\ f[k] = a \o b
    BY <2>8, <2>9
  <2>11. k >= m => a # << >> \/ b # << >>
    BY <1>1, <2>4, <2>5, <2>8
  <2> HIDE DEF a, b
  <2>12. a \o b \in Seq(T) /\ (a # << >> \/ b # << >> => a \o b # << >>)
    BY <2>10
  <2> QED
    BY <2>4, <2>10, <2>11, <2>12
<1>6. n \in 1 .. n /\ n >= m /\ n \notin Wrong
  BY <1>1, <1>5 DEF n
<1> QED
  BY <1>2, <1>6

-----------------------------------------------------------------------------
(* Signatures *)

LEMMA BeforeBounds ==
  ASSUME NEW params, Len(params) \in Nat, NEW marked \in SUBSET (1 .. Len(params))
  PROVE  Before(params, marked) \in 0 .. Len(params)
<1>1. CASE marked = {}
  BY <1>1 DEF Before
<1>2. CASE marked # {}
  <2>1. marked \subseteq Nat
    OBVIOUS
  <2>2. \E m \in marked : \A k \in marked : m <= k
    BY <1>2, <2>1, Least
  <2> DEFINE first == CHOOSE k \in marked : \A l \in marked : k <= l
  <2>3. first \in marked
    BY <2>2
  <2>4. Before(params, marked) = first - 1
    BY <1>2 DEF Before
  <2> HIDE DEF first
  <2> QED
    BY <2>3, <2>4
<1> QED
  BY <1>1, <1>2

LEMMA GroupsType ==
  ASSUME NEW params \in Seq(Params)
  PROVE  /\ variadic_inner_types(params) \in Seq(Bases \cup {"null"})
         /\ has_variadic_user_param(params) => variadic_inner_types(params) # << >>
<1> DEFINE S == Bases \cup {"null"}
           ss == [k \in 1 .. Len(params) |->
                    IF params[k].variadic THEN <<params[k].type.inner>> ELSE << >>]
<1>1. \A k \in 1 .. Len(params) : params[k] \in Params
  OBVIOUS
<1>2. \A k \in 1 .. Len(params) : params[k].type.inner \in S
  BY <1>1 DEF Params, Types
<1> HIDE DEF S
<1>3. \A k \in 1 .. Len(params) : ss[k] \in Seq(S)
  BY <1>2
<1>4. Len(params) \in Nat
  OBVIOUS
<1>5. ss \in Seq(Seq(S)) /\ Len(ss) = Len(params)
  BY <1>3, <1>4
<1>6. variadic_inner_types(params) = FlattenSeq(ss)
  BY DEF variadic_inner_types
<1>7. FlattenSeq(ss) \in Seq(S)
  BY <1>5, FlattenType
<1>8. ASSUME has_variadic_user_param(params)
      PROVE  FlattenSeq(ss) # << >>
  <2>1. PICK k \in 1 .. Len(params) : params[k].variadic
    BY <1>8 DEF has_variadic_user_param, VariadicParams
  <2>2. ss[k] # << >>
    BY <2>1
  <2> HIDE DEF ss
  <2> QED
    BY <2>2, <1>5, FlattenNotEmpty
<1> QED
  BY <1>6, <1>7, <1>8 DEF S

LEMMA LookupType ==
  ASSUME NEW name
  PROVE  /\ lookup(name).params \in Seq(Params) /\ lookup(name).ret \in Types
         /\ name \in BuiltinNames => lookup(name).ret # NoType
         /\ is_variadic_builtin(name) =>
              lookup(name).params # << >> /\ count_fixed_builtin_params(name) = 1
<1>1. \A t \in Types : Fixed(t) \in Params
  BY DEF Fixed, Params
<1>2. \A b \in {"U128", "STRINGS", "I64", "CHARACTER", "VOID", "UNKNOWN"} : Scalar(b) \in Types
  BY DEF Scalar, Types, Bases, Numeric, Signed, Floats
<1>3. PtrTo("VOID") \in Types /\ PtrTo("null") \in Types /\ NoType \in Types
  BY DEF PtrTo, NoType, Scalar, Types, Bases
<1>4. PtrTo("VOID") # NoType /\ PtrTo("null") # NoType /\ Scalar("VOID") # NoType
  BY DEF PtrTo, NoType, Scalar
<1>5. \A b \in {"U128", "STRINGS", "I64", "CHARACTER"} : Fixed(Scalar(b)).type.base # "UNKNOWN"
  BY DEF Fixed, Scalar
<1>6. CASE name \notin BuiltinNames
  <2>1. lookup(name) = NoBuiltin
    BY <1>6 DEF lookup
  <2>2. NoBuiltin.params = << >> /\ NoBuiltin.ret = NoType
    BY DEF NoBuiltin
  <2> QED
    BY <1>3, <1>6, <2>1, <2>2 DEF is_variadic_builtin, OpenEnded
<1>7. CASE name = "malloc"
  <2>1. lookup(name) = [params |-> <<Fixed(Scalar("U128"))>>, ret |-> PtrTo("VOID")]
    BY <1>7 DEF lookup, bootstrap, BuiltinNames
  <2> QED
    BY <2>1, <1>1, <1>2, <1>3, <1>4, <1>5 DEF is_variadic_builtin, OpenEnded
<1>8. CASE name = "_SA_getCharAt"
  <2>1. lookup(name)
          = [params |-> <<Fixed(Scalar("STRINGS")), Fixed(Scalar("I64"))>>, ret |-> PtrTo("null")]
    BY <1>8 DEF lookup, bootstrap, BuiltinNames
  <2> QED
    BY <2>1, <1>1, <1>2, <1>3, <1>4, <1>5 DEF is_variadic_builtin, OpenEnded
<1>9. CASE name = "SA_encode_cp"
  <2>1. lookup(name) = [params |-> <<Fixed(Scalar("CHARACTER"))>>, ret |-> PtrTo("null")]
    BY <1>9 DEF lookup, bootstrap, BuiltinNames
  <2> QED
    BY <2>1, <1>1, <1>2, <1>3, <1>4, <1>5 DEF is_variadic_builtin, OpenEnded
<1>10. CASE name = "printf"
  <2> DEFINE rest == [type |-> Unknown, variadic |-> TRUE]
             params == <<Fixed(Scalar("STRINGS")), rest>>
  <2>1. lookup(name).params = params /\ lookup(name).ret = Scalar("VOID")
    BY <1>10 DEF lookup, bootstrap, BuiltinNames
  <2>2. rest \in Params /\ rest.type.base = "UNKNOWN"
    BY <1>2 DEF Params, Unknown, Scalar
  <2> HIDE DEF rest
  <2>3. params \in Seq(Params) /\ Len(params) = 2 /\ params # << >>
    BY <1>1, <1>2, <2>2
  <2>4. OpenEnded(params) = {2}
    BY <1>5, <2>2, <2>3 DEF OpenEnded
  <2>5. Before(params, {2}) = 1
    BY DEF Before
  <2> QED
    BY <1>2, <1>4, <1>10, <2>1, <2>3, <2>4, <2>5 DEF count_fixed_builtin_params
<1> QED
  BY <1>6, <1>7, <1>8, <1>9, <1>10 DEF BuiltinNames

-----------------------------------------------------------------------------
(* Types of arguments *)

LEMMA CheckedType ==
  ASSUME NEW e, NEW t \in Types, NEW want \in Types
  PROVE  check_expr(e, t, want) \in Types
<1>1. \A b \in Bases \cup {"null"} : Scalar(b) \in Types
  BY DEF Scalar, Types
<1>2. want.base \in Bases \cup {"null"} /\ want.inner \in Bases \cup {"null"}
  BY DEF Types
<1>3. "F32" \in Bases /\ "I32" \in Bases
  BY DEF Bases, Numeric, Floats, Signed
<1>4. force_numeric_type(e, t, want) \in Types
  BY <1>1, <1>2 DEF force_numeric_type
<1>5. ASSUME NEW u \in Types
      PROVE  handle_num(e, u, want) \in Types
  <2>1. CASE e.literal = "none" \/ u.base # "UNKNOWN"
    BY <2>1 DEF handle_num
  <2>2. CASE ~(e.literal = "none" \/ u.base # "UNKNOWN")
    <3>1. /\ Scalar(want.inner) \in Types
          /\ Scalar(IF e.literal = "float" THEN "F32" ELSE "I32") \in Types
      BY <1>1, <1>2, <1>3
    <3> QED
      BY <2>2, <3>1 DEF handle_num
  <2> QED
    BY <2>1, <2>2
<1> QED
  BY <1>4, <1>5 DEF check_expr

\* A literal that has its type keeps it, whatever is wanted of it next.
LEMMA CheckedTwice ==
  ASSUME NEW e, NEW t \in Types, NEW want \in Types
  PROVE  check_expr(e, check_expr(e, t, NoType), want) = check_expr(e, t, NoType)
<1>1. NoType.base = "null" /\ ~is_numeric(NoType)
  BY DEF NoType, Scalar, is_numeric, Numeric, Signed, Floats
<1>2. check_expr(e, t, NoType) = handle_num(e, t, NoType)
  BY <1>1 DEF check_expr, force_numeric_type
<1>3. CASE e.literal = "none" \/ t.base # "UNKNOWN"
  <2>1. handle_num(e, t, NoType) = t
    BY <1>3 DEF handle_num
  <2>2. force_numeric_type(e, t, want) = t
    BY <1>3 DEF force_numeric_type
  <2>3. handle_num(e, t, want) = t
    BY <1>3 DEF handle_num
  <2> QED
    BY <1>2, <2>1, <2>2, <2>3 DEF check_expr
<1>4. CASE ~(e.literal = "none" \/ t.base # "UNKNOWN")
  <2> DEFINE u == Scalar(IF e.literal = "float" THEN "F32" ELSE "I32")
  <2>1. handle_num(e, t, NoType) = u
    BY <1>1, <1>4 DEF handle_num
  <2>2. u.base # "UNKNOWN"
    BY DEF Scalar
  <2> HIDE DEF u
  <2>3. force_numeric_type(e, u, want) = u /\ handle_num(e, u, want) = u
    BY <2>2 DEF force_numeric_type, handle_num
  <2> QED
    BY <1>2, <2>1, <2>3 DEF check_expr
<1> QED
  BY <1>3, <1>4

LEMMA FirstMatchRange ==
  ASSUME NEW groups, Len(groups) \in Nat, NEW current \in Nat, NEW base
  PROVE  /\ FirstMatch(groups, current, base) \in 0 .. Len(groups)
         /\ current > 0 /\ Len(groups) > 0 => FirstMatch(groups, current, base) > 0
<1> DEFINE matching == {g \in current .. Len(groups) : groups[g] = base}
<1>1. CASE matching = {}
  BY <1>1 DEF FirstMatch
<1>2. CASE matching # {}
  <2>1. matching \subseteq Nat
    OBVIOUS
  <2>2. \E g \in matching : \A h \in matching : g <= h
    BY <1>2, <2>1, Least
  <2>3. FirstMatch(groups, current, base) \in matching
    BY <1>2, <2>2 DEF FirstMatch
  <2> QED
    BY <2>3
<1> QED
  BY <1>1, <1>2

-----------------------------------------------------------------------------
(* Type correctness *)

Checking == {"register", "body", "call", "fixed", "rest", "groups", "HIRGen", "crashed"}
Lowered == PCs \ Checking
Codes ==
  {"SEM_INTERNAL_ERROR", "SEM_RETURN_TYPE_MISMATCH", "SEM_INDEX_NOT_ARRAY", "SEM_CALL_UNDEF_FN",
   "SEM_ARGC_MISMATCH", "SEM_ARG_TYPE_MISMATCH"}

\* The searches for a group begin at one, and every group has its sequence.
TypesInv ==
  /\ prog \in Programs
  /\ TypeOK
  /\ current_group > 0 /\ current_variadic_group > 0
  /\ pc = "rest" => VariadicBuiltin
  /\ pc = "groups" => VariadicUser
  /\ pc \in Lowered /\ VariadicUser => vararg_groups \in [1 .. Len(Groups) -> Seq(Args)]

LEMMA ProgFacts ==
  ASSUME prog \in Programs
  PROVE  /\ prog.params \in Seq(Params) /\ prog.ret \in Types /\ prog.body \in Seq(Expressions)
         /\ prog.args \in Seq(Expressions) /\ prog.defined \in BOOLEAN /\ prog.calleeFirst \in BOOLEAN
         /\ prog.body # << >> => prog.body[1].type # NoType
         /\ Argc \in Nat /\ Args = 1 .. Argc /\ Len(prog.params) \in Nat
         /\ \A a \in Args : prog.args[a] \in Expressions /\ prog.args[a].type \in Types
         /\ prog.body # << >> => prog.body[1] \in Expressions /\ prog.body[1].type \in Types
         /\ Groups \in Seq(Bases \cup {"null"}) /\ Len(Groups) \in Nat
         /\ VariadicUser => Len(Groups) > 0
<1>1. /\ prog.params \in Seq(Params) /\ prog.ret \in Types /\ prog.body \in Seq(Expressions)
      /\ prog.args \in Seq(Expressions) /\ prog.defined \in BOOLEAN /\ prog.calleeFirst \in BOOLEAN
      /\ prog.body # << >> => prog.body[1].type # NoType
  BY CallConstants
<1>2. \A e \in Expressions : e.type \in Types
  BY DEF Expressions
<1>3. \A a \in 1 .. Len(prog.args) : prog.args[a] \in Expressions
  BY <1>1
<1>4. prog.body # << >> => prog.body[1] \in Expressions
  BY <1>1
<1>5. Groups \in Seq(Bases \cup {"null"}) /\ (VariadicUser => Groups # << >>)
  BY <1>1, GroupsType DEF Groups, VariadicUser
<1>6. Len(Groups) \in Nat /\ (VariadicUser => Len(Groups) > 0)
  BY <1>5
<1> QED
  BY <1>1, <1>2, <1>3, <1>4, <1>5, <1>6 DEF Argc, Args

LEMMA WantedType ==
  ASSUME prog \in Programs
  PROVE  /\ Wanted \in Seq(Params) /\ Len(Wanted) \in Nat
         /\ \A k \in 1 .. Len(Wanted) : Wanted[k].type \in Types
         /\ VariadicUser /\ ~VariadicBuiltin => Len(Wanted) = fixed_user_param_count(prog.params)
         /\ VariadicBuiltin => Len(Wanted) = 1
<1>1. \A s \in Seq(Params), n \in Nat : n <= Len(s) => SubSeq(s, 1, n) \in Seq(Params) /\ Len(SubSeq(s, 1, n)) = n
  OBVIOUS
<1>2. \A s \in Seq(Params) : Len(s) \in Nat
  OBVIOUS
<1>3. /\ prog.params \in Seq(Params) /\ lookup(prog.name).params \in Seq(Params)
  BY ProgFacts, LookupType
<1>4. CASE VariadicBuiltin
  <2>1. lookup(prog.name).params # << >> /\ count_fixed_builtin_params(prog.name) = 1
    BY <1>4, LookupType DEF VariadicBuiltin
  <2>2. 1 \in Nat /\ 1 <= Len(lookup(prog.name).params)
    BY <1>3, <2>1
  <2>3. Wanted = SubSeq(lookup(prog.name).params, 1, 1)
    BY <1>4, <2>1 DEF Wanted
  <2>4. Wanted \in Seq(Params) /\ Len(Wanted) = 1
    BY <1>1, <1>3, <2>2, <2>3
  <2>5. \A k \in 1 .. Len(Wanted) : Wanted[k] \in Params
    BY <2>4
  <2> QED
    BY <1>4, <2>4, <2>5 DEF Params
<1>5. CASE ~VariadicBuiltin /\ VariadicUser
  <2>1. Wanted = SubSeq(prog.params, 1, fixed_user_param_count(prog.params))
    BY <1>5 DEF Wanted
  <2>2. fixed_user_param_count(prog.params) \in 0 .. Len(prog.params)
    <3>1. VariadicParams(prog.params) \in SUBSET (1 .. Len(prog.params))
      BY DEF VariadicParams
    <3> QED
      BY <3>1, <1>2, <1>3, BeforeBounds DEF fixed_user_param_count
  <2>3. Wanted \in Seq(Params) /\ Len(Wanted) = fixed_user_param_count(prog.params)
    BY <1>1, <1>2, <1>3, <2>1, <2>2
  <2>4. \A k \in 1 .. Len(Wanted) : Wanted[k] \in Params
    BY <2>3
  <2> QED
    BY <1>2, <1>5, <2>3, <2>4 DEF Params
<1>6. CASE ~VariadicBuiltin /\ ~VariadicUser
  <2>1. Wanted = IF FnSymbol THEN prog.params ELSE lookup(prog.name).params
    BY <1>6 DEF Wanted
  <2>2. Wanted \in Seq(Params)
    BY <1>3, <2>1
  <2>3. \A k \in 1 .. Len(Wanted) : Wanted[k] \in Params
    BY <2>2
  <2> QED
    BY <1>2, <1>6, <2>2, <2>3 DEF Params
<1> QED
  BY <1>4, <1>5, <1>6

LEMMA InitTypes ==
  ASSUME Init
  PROVE  TypesInv
<1>1. /\ prog \in Programs /\ pc = "register" /\ errors = {} /\ ret = prog.ret
      /\ types = [a \in Args |-> prog.args[a].type] /\ i = 1 /\ current_group = 1
      /\ group = [a \in Args |-> 0] /\ call_type = NoType
  BY DEF Init, CheckInit
<1>2. /\ arg_index = 1 /\ current_variadic_group = 1 /\ call_args = << >>
      /\ packed_varargs = << >> /\ vararg_groups = << >> /\ args = << >> /\ callee = NoCallee
  BY DEF Init
<1>3. /\ prog.ret \in Types /\ Argc \in Nat /\ Len(Groups) \in Nat
      /\ \A a \in Args : prog.args[a].type \in Types
  BY <1>1, ProgFacts
<1>4. types \in [Args -> Types] /\ group \in [Args -> 0 .. Len(Groups)]
  BY <1>1, <1>3
<1>5. NoType \in Types
  BY DEF NoType, Scalar, Types
<1>6. \A S : << >> \in Seq(S)
  OBVIOUS
<1>7. pc \in PCs /\ pc \notin Lowered
  BY <1>1 DEF PCs, Lowered, Checking
<1>8. TypeOK
  BY <1>1, <1>2, <1>3, <1>4, <1>5, <1>6, <1>7 DEF TypeOK
<1> QED
  BY <1>1, <1>2, <1>7, <1>8 DEF TypesInv

\* A step of the semantic pass keeps the types, if it keeps its own.
LEMMA CheckingKeepsTypes ==
  ASSUME TypesInv, prog' = prog, UNCHANGED <<hirVars, args, callee>>,
         pc' \in Checking, pc' = "rest" => VariadicBuiltin, pc' = "groups" => VariadicUser,
         errors' \subseteq Codes, ret' \in Types, call_type' \in Types, types' \in [Args -> Types],
         i' \in 1 .. Argc + 1, group' \in [Args -> 0 .. Len(Groups)], current_group' \in Nat \ {0}
  PROVE  TypesInv'
<1>1. /\ Argc' = Argc /\ Args' = Args /\ Groups' = Groups
      /\ VariadicBuiltin' = VariadicBuiltin /\ VariadicUser' = VariadicUser
  BY DEF Argc, Args, Groups, VariadicBuiltin, VariadicUser, FnSymbol
<1>2. /\ arg_index' = arg_index /\ call_args' = call_args /\ vararg_groups' = vararg_groups
      /\ packed_varargs' = packed_varargs /\ args' = args /\ callee' = callee
      /\ current_variadic_group' = current_variadic_group
  BY DEF hirVars
<1>3. prog \in Programs /\ TypeOK /\ current_variadic_group > 0
  BY DEF TypesInv
<1>4. pc' \in PCs /\ pc' \notin Lowered
  BY DEF PCs, Lowered, Checking, Ended
<1>5. TypeOK'
  BY <1>1, <1>2, <1>3, <1>4 DEF TypeOK, Codes
<1>6. current_group' > 0 /\ (current_variadic_group > 0)'
  BY <1>2, <1>3
<1> QED
  BY <1>1, <1>3, <1>4, <1>5, <1>6 DEF TypesInv

\* Where the semantic pass stands.
LEMMA CheckingFacts ==
  ASSUME TypesInv
  PROVE  /\ prog \in Programs /\ errors \subseteq Codes /\ ret \in Types /\ call_type \in Types
         /\ types \in [Args -> Types] /\ i \in 1 .. Argc + 1 /\ Argc \in Nat /\ i \in Nat
         /\ group \in [Args -> 0 .. Len(Groups)] /\ current_group \in Nat \ {0}
         /\ Len(Groups) \in Nat /\ NoType \in Types /\ Unknown \in Types
         /\ \A b \in Bases \cup {"null"} : Scalar(b) \in Types
         /\ AfterCall \in Checking \ {"rest", "groups"} /\ AfterBody \in Checking \ {"rest", "groups"}
         /\ AfterRegister \in Checking \ {"rest", "groups"}
<1>1. prog \in Programs /\ TypeOK /\ current_group > 0
  BY DEF TypesInv
<1>2. Argc \in Nat /\ Len(Groups) \in Nat
  BY <1>1, ProgFacts
<1>3. \A b \in Bases \cup {"null"} : Scalar(b) \in Types
  BY DEF Scalar, Types
<1>4. NoType \in Types /\ Unknown \in Types
  BY <1>3 DEF NoType, Unknown, Bases
<1>5. /\ AfterCall \in Checking \ {"rest", "groups"} /\ AfterBody \in Checking \ {"rest", "groups"}
      /\ AfterRegister \in Checking \ {"rest", "groups"}
  BY DEF AfterCall, AfterBody, AfterRegister, Checking
<1> QED
  BY <1>1, <1>2, <1>3, <1>4, <1>5 DEF TypeOK, Codes

\* What Checked does with an argument.
LEMMA CheckedTypes ==
  ASSUME TypesInv, NEW t \in Types, NEW want, i <= Argc, Checked(t, want)
  PROVE  /\ types' \in [Args -> Types] /\ i' \in 1 .. Argc + 1
         /\ errors' \subseteq Codes /\ call_type' \in Types
         /\ pc' \in Checking \/ pc' = pc
         /\ pc' # pc => pc' \notin {"rest", "groups"}
<1>1. types' = [types EXCEPT ![i] = t]
  BY DEF Checked
<1>2. \/ /\ errors' = errors \cup {"SEM_ARG_TYPE_MISMATCH"} /\ pc' = AfterCall
         /\ call_type' = call_type /\ i' = i
      \/ i' = i + 1 /\ pc' = pc /\ errors' = errors /\ call_type' = call_type
  BY DEF Checked, Error, Give_up
<1>3. types' \in [Args -> Types]
  BY <1>1, CheckingFacts
<1>4. i' \in 1 .. Argc + 1
  BY <1>2, CheckingFacts
<1>5. errors' \subseteq Codes /\ call_type' \in Types
  BY <1>2, CheckingFacts DEF Codes
<1> QED
  BY <1>2, <1>3, <1>4, <1>5, CheckingFacts

LEMMA AcceptTypes ==
  ASSUME TypesInv, Accept
  PROVE  pc' = AfterCall /\ call_type' \in Types /\ call_type' # NoType
<1>1. lookup(prog.name).ret \in Types
  BY LookupType
<1>2. Unknown # NoType
  BY DEF Unknown, NoType, Scalar
<1> QED
  BY <1>1, <1>2, CheckingFacts DEF Accept

LEMMA SemanticPassTypes ==
  ASSUME TypesInv, SemanticPass, UNCHANGED <<hirVars, args, callee>>
  PROVE  TypesInv'
<1>1. CASE register_global_var_and_fn
  <2>1. /\ prog' = prog /\ ret' = ret /\ types' = types /\ i' = i /\ current_group' = current_group
        /\ group' = group /\ call_type' = call_type
    BY <1>1 DEF register_global_var_and_fn, checkVars
  <2>2. pc' \in {"crashed", AfterRegister}
    BY <1>1 DEF register_global_var_and_fn
  <2>3. errors' = errors \/ errors' = errors \cup {"SEM_INTERNAL_ERROR"}
    BY <1>1 DEF register_global_var_and_fn, Error
  <2>4. errors' \subseteq Codes
    BY <2>3, CheckingFacts DEF Codes
  <2>5. pc' \in Checking /\ pc' \notin {"rest", "groups"}
    BY <2>2, CheckingFacts DEF Checking
  <2> QED
    BY <2>1, <2>4, <2>5, CheckingFacts, CheckingKeepsTypes
<1>2. CASE handle_fn
  <2>1. /\ prog' = prog /\ types' = types /\ i' = i /\ current_group' = current_group
        /\ group' = group /\ call_type' = call_type /\ pc' = AfterBody
    BY <1>2 DEF handle_fn
  <2>2. errors' = errors \/ errors' = errors \cup {"SEM_RETURN_TYPE_MISMATCH"}
    BY <1>2 DEF handle_fn, Error
  <2>3. errors' \subseteq Codes
    BY <2>2, CheckingFacts DEF Codes
  <2>4. ret' \in Types
    <3>1. CASE prog.body = << >>
      BY <1>2, <3>1, CheckingFacts DEF handle_fn
    <3>2. CASE prog.body # << >>
      <4> DEFINE rt == check_expr(prog.body[1], prog.body[1].type, prog.ret)
      <4>1. ret' = rt \/ ret' = ret
        BY <1>2, <3>2 DEF handle_fn
      <4>2. prog.body[1].type \in Types /\ prog.ret \in Types
        BY <3>2, CheckingFacts, ProgFacts
      <4>3. rt \in Types
        BY <4>2, CheckedType
      <4> QED
        BY <4>1, <4>3, CheckingFacts
    <3> QED
      BY <3>1, <3>2
  <2> QED
    BY <2>1, <2>3, <2>4, CheckingFacts, CheckingKeepsTypes
<1>3. CASE call_len
  <2>1. /\ prog' = prog /\ ret' = ret /\ i' = i /\ current_group' = current_group
        /\ group' = group /\ pc' = AfterCall
    BY <1>3 DEF call_len, Give_up
  <2>2. \/ errors' = errors \/ errors' = errors \cup {"SEM_INDEX_NOT_ARRAY"}
    BY <1>3 DEF call_len, Error
  <2>3. call_type' = call_type \/ call_type' = Scalar("I32")
    BY <1>3 DEF call_len, Give_up
  <2>4. errors' \subseteq Codes /\ call_type' \in Types
    BY <2>2, <2>3, CheckingFacts DEF Codes, Bases, Numeric, Signed
  <2>5. types' = [a \in Args |-> check_expr(prog.args[a], types[a], NoType)]
    BY <1>3 DEF call_len
  <2>6. \A a \in Args : check_expr(prog.args[a], types[a], NoType) \in Types
    <3> TAKE a \in Args
    <3>1. types[a] \in Types /\ NoType \in Types
      BY CheckingFacts
    <3> QED
      BY <3>1, CheckedType
  <2>7. types' \in [Args -> Types]
    BY <2>5, <2>6
  <2> QED
    BY <2>1, <2>4, <2>7, CheckingFacts, CheckingKeepsTypes
<1>4. CASE call
  <2>1. /\ prog' = prog /\ ret' = ret /\ i' = i /\ current_group' = current_group /\ types' = types
        /\ group' = group /\ call_type' = call_type /\ (pc' = AfterCall \/ pc' = "fixed")
    BY <1>4 DEF call, Give_up
  <2>2. errors' \in {errors, errors \cup {"SEM_CALL_UNDEF_FN"}, errors \cup {"SEM_ARGC_MISMATCH"}}
    BY <1>4 DEF call, Error
  <2>3. errors' \subseteq Codes
    BY <2>2, CheckingFacts DEF Codes
  <2>4. pc' \in Checking /\ pc' \notin {"rest", "groups"}
    BY <2>1, CheckingFacts DEF Checking
  <2> QED
    BY <2>1, <2>3, <2>4, CheckingFacts, CheckingKeepsTypes
<1>5. CASE check_fixed
  <2>1. prog' = prog /\ ret' = ret /\ current_group' = current_group /\ group' = group
    BY <1>5 DEF check_fixed
  <2>2. CASE i > Argc
    <3>1. pc' = AfterCall /\ call_type' = call_type /\ types' = types /\ i' = i /\ errors' = errors
      BY <1>5, <2>2 DEF check_fixed, Give_up
    <3> QED
      BY <2>1, <3>1, CheckingFacts, CheckingKeepsTypes
  <2>3. CASE ~(i > Argc)
    <3> DEFINE want == Wanted[i].type
               t == check_expr(prog.args[i], types[i], want)
    <3>1. Checked(t, want) /\ i <= Len(Wanted) /\ pc = "fixed"
      BY <1>5, <2>3 DEF check_fixed
    <3>2. i \in 1 .. Len(Wanted) /\ i \in Args /\ i <= Argc
      BY <2>3, <3>1, CheckingFacts, WantedType DEF Args
    <3>3. want \in Types /\ types[i] \in Types
      BY <3>2, CheckingFacts, WantedType
    <3>4. t \in Types
      BY <3>3, CheckedType
    <3> HIDE DEF t, want
    <3>5. /\ types' \in [Args -> Types] /\ i' \in 1 .. Argc + 1
          /\ errors' \subseteq Codes /\ call_type' \in Types
          /\ pc' \in Checking \/ pc' = pc
          /\ pc' # pc => pc' \notin {"rest", "groups"}
      BY <3>1, <3>2, <3>4, CheckedTypes
    <3>6. pc' \in Checking /\ pc' \notin {"rest", "groups"}
      BY <3>1, <3>5 DEF Checking
    <3> QED
      BY <2>1, <3>5, <3>6, CheckingFacts, CheckingKeepsTypes
  <2> QED
    BY <2>2, <2>3
<1>6. CASE fixed_end
  <2>1. /\ prog' = prog /\ errors' = errors /\ ret' = ret /\ types' = types /\ i' = i
        /\ current_group' = current_group /\ group' = group
    BY <1>6 DEF fixed_end
  <2>2. CASE VariadicBuiltin
    <3>1. pc' = "rest" /\ call_type' = call_type
      BY <1>6, <2>2 DEF fixed_end
    <3> QED
      BY <2>1, <2>2, <3>1, CheckingFacts, CheckingKeepsTypes DEF Checking
  <2>3. CASE ~VariadicBuiltin /\ VariadicUser
    <3>1. pc' = "groups" /\ call_type' = call_type
      BY <1>6, <2>3 DEF fixed_end
    <3> QED
      BY <2>1, <2>3, <3>1, CheckingFacts, CheckingKeepsTypes DEF Checking
  <2>4. CASE ~VariadicBuiltin /\ ~VariadicUser
    <3>1. Accept
      BY <1>6, <2>4 DEF fixed_end
    <3> QED
      BY <2>1, <3>1, AcceptTypes, CheckingFacts, CheckingKeepsTypes
  <2> QED
    BY <2>2, <2>3, <2>4
<1>7. CASE check_rest
  <2>1. /\ prog' = prog /\ ret' = ret /\ current_group' = current_group /\ group' = group
        /\ pc = "rest" /\ VariadicBuiltin
    BY <1>7 DEF check_rest, TypesInv
  <2>2. CASE i > Argc
    <3>1. Accept /\ errors' = errors /\ types' = types /\ i' = i
      BY <1>7, <2>2 DEF check_rest
    <3> QED
      BY <2>1, <3>1, AcceptTypes, CheckingFacts, CheckingKeepsTypes
  <2>3. CASE ~(i > Argc)
    <3> DEFINE params == lookup(prog.name).params
               want == params[Len(params)].type
               t == check_expr(prog.args[i], types[i], want)
    <3>1. Checked(t, want)
      BY <1>7, <2>3 DEF check_rest
    <3>2. i \in Args /\ i <= Argc
      BY <2>3, CheckingFacts DEF Args
    <3>3. params \in Seq(Params) /\ params # << >>
      BY <2>1, LookupType DEF VariadicBuiltin
    <3> HIDE DEF params
    <3>4. params[Len(params)] \in Params
      BY <3>3
    <3>5. want \in Types /\ types[i] \in Types
      BY <3>2, <3>4, CheckingFacts DEF Params
    <3>6. t \in Types
      BY <3>5, CheckedType
    <3> HIDE DEF t, want
    <3>7. /\ types' \in [Args -> Types] /\ i' \in 1 .. Argc + 1
          /\ errors' \subseteq Codes /\ call_type' \in Types
          /\ pc' \in Checking \/ pc' = pc
          /\ pc' # pc => pc' \notin {"rest", "groups"}
      BY <3>1, <3>2, <3>6, CheckedTypes
    <3>8. pc' \in Checking /\ pc' # "groups"
      BY <2>1, <3>7 DEF Checking
    <3> QED
      BY <2>1, <3>7, <3>8, CheckingFacts, CheckingKeepsTypes
  <2> QED
    BY <2>2, <2>3
<1>8. CASE check_group
  <2>1. prog' = prog /\ ret' = ret /\ pc = "groups" /\ VariadicUser /\ i <= Argc
    BY <1>8 DEF check_group, TypesInv
  <2> DEFINE at == check_expr(prog.args[i], types[i], NoType)
             g == FirstMatch(Groups, current_group, at.base)
             want == Scalar(Groups[g])
             t == check_expr(prog.args[i], at, want)
  <2>2. /\ Checked(t, want)
        /\ \/ current_group' = current_group /\ group' = group
           \/ current_group' = g /\ group' = [group EXCEPT ![i] = g]
    BY <1>8 DEF check_group
  <2>3. i \in Args
    BY <2>1, CheckingFacts DEF Args
  <2>4. at \in Types
    <3>1. types[i] \in Types /\ NoType \in Types
      BY <2>3, CheckingFacts
    <3> QED
      BY <3>1, CheckedType
  <2>5. Len(Groups) > 0 /\ Groups \in Seq(Bases \cup {"null"})
    BY <2>1, CheckingFacts, ProgFacts
  <2>6. g \in 1 .. Len(Groups)
    <3> HIDE DEF at
    <3>1. Len(Groups) \in Nat /\ current_group \in Nat /\ current_group > 0
      BY CheckingFacts
    <3> QED
      BY <2>5, <3>1, FirstMatchRange
  <2> HIDE DEF g
  <2>7. want \in Types
    <3>1. Groups[g] \in Bases \cup {"null"}
      BY <2>5, <2>6
    <3> QED
      BY <3>1, CheckingFacts
  <2>8. t \in Types
    <3> HIDE DEF at, want
    <3> QED
      BY <2>4, <2>7, CheckedType
  <2> HIDE DEF t, want
  <2>9. /\ types' \in [Args -> Types] /\ i' \in 1 .. Argc + 1
        /\ errors' \subseteq Codes /\ call_type' \in Types
        /\ pc' \in Checking \/ pc' = pc
        /\ pc' # pc => pc' \notin {"rest", "groups"}
    BY <2>1, <2>2, <2>8, CheckedTypes
  <2>10. pc' \in Checking /\ pc' # "rest"
    BY <2>1, <2>9 DEF Checking
  <2>11. group' \in [Args -> 0 .. Len(Groups)] /\ current_group' \in Nat \ {0}
    BY <2>2, <2>6, CheckingFacts
  <2> QED
    BY <2>1, <2>9, <2>10, <2>11, CheckingFacts, CheckingKeepsTypes
<1>9. CASE groups_end
  <2>1. /\ prog' = prog /\ ret' = ret /\ types' = types /\ i' = i
        /\ current_group' = current_group /\ group' = group
    BY <1>9 DEF groups_end
  <2>2. CASE Accept /\ errors' = errors
    BY <2>1, <2>2, AcceptTypes, CheckingFacts, CheckingKeepsTypes
  <2>3. CASE ~(Accept /\ errors' = errors)
    <3>1. pc' = AfterCall /\ call_type' = call_type /\ errors' = errors \cup {"SEM_ARGC_MISMATCH"}
      BY <1>9, <2>3 DEF groups_end, Error, Give_up
    <3>2. errors' \subseteq Codes
      BY <3>1, CheckingFacts DEF Codes
    <3> QED
      BY <2>1, <3>1, <3>2, CheckingFacts, CheckingKeepsTypes
  <2> QED
    BY <2>2, <2>3
<1> QED
  BY <1>1, <1>2, <1>3, <1>4, <1>5, <1>6, <1>7, <1>8, <1>9 DEF SemanticPass

\* A step behind the semantic pass keeps the types, if it keeps its own.
LEMMA LoweringKeepsTypes ==
  ASSUME TypesInv, prog' = prog, UNCHANGED checkVars, errors' = errors, pc' \in Lowered,
         arg_index' \in 1 .. Argc + 1, current_variadic_group' \in Nat \ {0},
         call_args' \in Seq(HIRNodes), packed_varargs' \in Seq(Args),
         vararg_groups' \in Seq(Seq(Args)),
         VariadicUser => vararg_groups' \in [1 .. Len(Groups) -> Seq(Args)],
         args' \in Seq([node : HIRNodes, type : IrTypes, intact : BOOLEAN]),
         callee' \in Prototypes \cup {NoCallee}
  PROVE  TypesInv'
<1>1. /\ Argc' = Argc /\ Args' = Args /\ Groups' = Groups
      /\ VariadicBuiltin' = VariadicBuiltin /\ VariadicUser' = VariadicUser
  BY DEF Argc, Args, Groups, VariadicBuiltin, VariadicUser, FnSymbol
<1>2. /\ ret' = ret /\ types' = types /\ i' = i /\ current_group' = current_group
      /\ group' = group /\ call_type' = call_type
  BY DEF checkVars
<1>3. prog \in Programs /\ TypeOK /\ current_group > 0
  BY DEF TypesInv
<1>4. pc' \in PCs /\ pc' # "rest" /\ pc' # "groups"
  BY DEF Lowered, Checking
<1>5. TypeOK'
  BY <1>1, <1>2, <1>3, <1>4 DEF TypeOK
<1>6. (current_group > 0)' /\ current_variadic_group' > 0
  BY <1>2, <1>3
<1> QED
  BY <1>1, <1>3, <1>4, <1>5, <1>6 DEF TypesInv

LEMMA LoweringFacts ==
  ASSUME TypesInv
  PROVE  /\ prog \in Programs /\ ret \in Types /\ types \in [Args -> Types]
         /\ Argc \in Nat /\ Len(Groups) \in Nat /\ Args = 1 .. Argc
         /\ arg_index \in 1 .. Argc + 1 /\ current_variadic_group \in Nat \ {0}
         /\ call_args \in Seq(HIRNodes) /\ packed_varargs \in Seq(Args)
         /\ vararg_groups \in Seq(Seq(Args))
         /\ pc \in Lowered /\ VariadicUser => vararg_groups \in [1 .. Len(Groups) -> Seq(Args)]
         /\ args \in Seq([node : HIRNodes, type : IrTypes, intact : BOOLEAN])
         /\ callee \in Prototypes \cup {NoCallee}
         /\ {"lower", "varargs", "check_err", "codegen", "emit", "call.cast", "rejected", "called",
             "constant", "bad signature", "no function", "no type"} \subseteq Lowered
<1>1. /\ prog \in Programs /\ TypeOK /\ current_variadic_group > 0
      /\ pc \in Lowered /\ VariadicUser => vararg_groups \in [1 .. Len(Groups) -> Seq(Args)]
  BY DEF TypesInv
<1>2. Argc \in Nat /\ Len(Groups) \in Nat /\ Args = 1 .. Argc
  BY <1>1, ProgFacts
<1>3. {"lower", "varargs", "check_err", "codegen", "emit", "call.cast", "rejected", "called",
       "constant", "bad signature", "no function", "no type"} \subseteq Lowered
  BY DEF Lowered, Checking, PCs, Ended
<1>4. /\ ret \in Types /\ types \in [Args -> Types] /\ arg_index \in 1 .. Argc + 1
      /\ current_variadic_group \in Nat
  BY <1>1 DEF TypeOK
<1>5. call_args \in Seq(HIRNodes) /\ packed_varargs \in Seq(Args) /\ vararg_groups \in Seq(Seq(Args))
  BY <1>1, Zenon DEF TypeOK
<1>6. /\ args \in Seq([node : HIRNodes, type : IrTypes, intact : BOOLEAN])
      /\ callee \in Prototypes \cup {NoCallee}
  BY <1>1, Zenon DEF TypeOK
<1>7. current_variadic_group \in Nat \ {0}
  BY <1>1, <1>4
<1> QED
  BY <1>1, <1>2, <1>3, <1>4, <1>5, <1>6, <1>7, Zenon

LEMMA LoweringNumbers ==
  ASSUME TypesInv
  PROVE  /\ Argc \in Nat /\ Len(Groups) \in Nat /\ Args = 1 .. Argc
         /\ arg_index \in 1 .. Argc + 1 /\ arg_index \in Nat \ {0}
         /\ current_variadic_group \in Nat /\ current_variadic_group > 0
<1>1. prog \in Programs /\ TypeOK /\ current_variadic_group > 0
  BY DEF TypesInv
<1>2. Argc \in Nat /\ Len(Groups) \in Nat /\ Args = 1 .. Argc
  BY <1>1, ProgFacts
<1>3. arg_index \in 1 .. Argc + 1 /\ current_variadic_group \in Nat
  BY <1>1 DEF TypeOK
<1> QED
  BY <1>1, <1>2, <1>3

LEMMA SubsetSequences ==
  ASSUME NEW S, NEW T, S \subseteq T, NEW s \in Seq(S)
  PROVE  s \in Seq(T)
OBVIOUS

LEMMA NodeTypes ==
  /\ \A a \in Nat \ {0} : Arg(a) \in HIRNodes
  /\ \A es \in Seq(Nat \ {0}) : Count(es) \in HIRNodes /\ List(es, "null") \in HIRNodes
  /\ \A es \in Seq(Nat \ {0}), b \in Bases \cup {"null"} : List(es, b) \in HIRNodes
<1>1. \A a \in Nat \ {0} : <<a>> \in Seq(Nat \ {0})
  OBVIOUS
<1> QED
  BY <1>1 DEF Arg, Count, List, HIRNodes

LEMMA IrTypeType ==
  ASSUME NEW t
  PROVE  ir_type(t) \in IrTypes
BY DEF ir_type, IrTypes

LEMMA LoweringTypes ==
  ASSUME TypesInv, generate \/ distribute_lowered_arg \/ lower_end \/ emit_varargs_to_call \/ check_err
  PROVE  TypesInv'
<1>1. CASE generate
  <2>1. /\ prog' = prog /\ errors' = errors /\ UNCHANGED checkVars /\ pc' = "lower"
        /\ arg_index' = arg_index /\ call_args' = call_args /\ packed_varargs' = packed_varargs
        /\ current_variadic_group' = current_variadic_group /\ args' = args /\ callee' = callee
        /\ vararg_groups' = IF VariadicUser THEN [g \in 1 .. Len(Groups) |-> << >>] ELSE << >>
    BY <1>1 DEF generate
  <2>2. << >> \in Seq(Args) /\ << >> \in Seq(Seq(Args))
    OBVIOUS
  <2>3. [g \in 1 .. Len(Groups) |-> << >>] \in [1 .. Len(Groups) -> Seq(Args)]
    BY <2>2
  <2>4. \A f \in [1 .. Len(Groups) -> Seq(Args)] : f \in Seq(Seq(Args))
    <3>1. Len(Groups) \in Nat
      BY LoweringFacts
    <3> QED
      BY <3>1
  <2>5. /\ vararg_groups' \in Seq(Seq(Args))
        /\ VariadicUser => vararg_groups' \in [1 .. Len(Groups) -> Seq(Args)]
    BY <2>1, <2>2, <2>3, <2>4
  <2>6. pc' \in Lowered
    BY <2>1, LoweringFacts
  <2> QED
    BY <2>1, <2>5, <2>6, LoweringFacts, LoweringKeepsTypes
<1>2. CASE distribute_lowered_arg
  <2> DEFINE packed == VariadicBuiltin /\ arg_index > count_fixed_builtin_params(prog.name)
             grouped == VariadicUser /\ arg_index > fixed_user_param_count(prog.params)
  <2>1. /\ prog' = prog /\ errors' = errors /\ UNCHANGED checkVars /\ pc' = pc
        /\ args' = args /\ callee' = callee /\ arg_index' = arg_index + 1
        /\ pc = "lower" /\ arg_index <= Argc
    BY <1>2 DEF distribute_lowered_arg
  <2>2. arg_index \in Args /\ arg_index \in Nat \ {0} /\ arg_index' \in 1 .. Argc + 1
    BY <2>1, LoweringNumbers
  <2>3. pc \in Lowered /\ pc' \in Lowered
    BY <2>1, LoweringFacts
  <2>4. CASE packed
    <3>1. /\ packed_varargs' = Append(packed_varargs, arg_index) /\ call_args' = call_args
          /\ vararg_groups' = vararg_groups
          /\ current_variadic_group' = current_variadic_group
      BY <1>2, <2>4 DEF distribute_lowered_arg
    <3>2. \A s \in Seq(Args), a \in Args : Append(s, a) \in Seq(Args)
      OBVIOUS
    <3>3. packed_varargs' \in Seq(Args)
      BY <2>2, <3>1, <3>2, LoweringFacts
    <3> QED
      BY <2>1, <2>2, <2>3, <3>1, <3>3, LoweringFacts, LoweringKeepsTypes
  <2>5. CASE ~packed /\ grouped
    <3> DEFINE g == FirstMatch(Groups, current_variadic_group, lowered(arg_index).base)
    <3>1. /\ vararg_groups' = [vararg_groups EXCEPT ![g] = Append(@, arg_index)]
          /\ current_variadic_group' = g
          /\ call_args' = call_args /\ packed_varargs' = packed_varargs
      BY <1>2, <2>5 DEF distribute_lowered_arg
    <3>2. Len(Groups) > 0 /\ vararg_groups \in [1 .. Len(Groups) -> Seq(Args)]
      BY <2>3, <2>5, LoweringFacts, ProgFacts
    <3>3. g \in 1 .. Len(Groups)
      <4>1. Len(Groups) \in Nat /\ current_variadic_group \in Nat /\ current_variadic_group > 0
        BY LoweringNumbers
      <4> QED
        BY <3>2, <4>1, FirstMatchRange
    <3> HIDE DEF g
    <3>4. \A s \in Seq(Args), a \in Args : Append(s, a) \in Seq(Args)
      OBVIOUS
    <3>5. Append(vararg_groups[g], arg_index) \in Seq(Args)
      BY <2>2, <3>2, <3>3, <3>4
    <3>6. vararg_groups' \in [1 .. Len(Groups) -> Seq(Args)]
      BY <3>1, <3>2, <3>3, <3>5
    <3>7. \A f \in [1 .. Len(Groups) -> Seq(Args)] : f \in Seq(Seq(Args))
      <4>1. Len(Groups) \in Nat
        BY LoweringFacts
      <4> QED
        BY <4>1
    <3>8. vararg_groups' \in Seq(Seq(Args)) /\ g \in Nat \ {0}
      BY <3>3, <3>6, <3>7
    <3> QED
      BY <2>1, <2>2, <2>3, <3>1, <3>6, <3>8, LoweringFacts, LoweringKeepsTypes
  <2>6. CASE ~packed /\ ~grouped
    <3>1. /\ call_args' = Append(call_args, Arg(arg_index)) /\ packed_varargs' = packed_varargs
          /\ vararg_groups' = vararg_groups
          /\ current_variadic_group' = current_variadic_group
      BY <1>2, <2>6 DEF distribute_lowered_arg
    <3>2. \A s \in Seq(HIRNodes), a \in HIRNodes : Append(s, a) \in Seq(HIRNodes)
      OBVIOUS
    <3>3. call_args' \in Seq(HIRNodes)
      BY <2>2, <3>1, <3>2, LoweringFacts, NodeTypes
    <3> QED
      BY <2>1, <2>2, <2>3, <3>1, <3>3, LoweringFacts, LoweringKeepsTypes
  <2> QED
    BY <2>4, <2>5, <2>6
<1>3. CASE lower_end
  <2>1. /\ prog' = prog /\ errors' = errors /\ UNCHANGED checkVars /\ UNCHANGED hirVars
        /\ args' = args /\ callee' = callee /\ pc = "lower" /\ pc' = "varargs"
    BY <1>3 DEF lower_end
  <2>2. /\ arg_index' = arg_index /\ call_args' = call_args /\ packed_varargs' = packed_varargs
        /\ current_variadic_group' = current_variadic_group /\ vararg_groups' = vararg_groups
    BY <2>1 DEF hirVars
  <2>3. pc \in Lowered /\ pc' \in Lowered
    BY <2>1, LoweringFacts
  <2> QED
    BY <2>1, <2>2, <2>3, LoweringFacts, LoweringKeepsTypes
<1>4. CASE emit_varargs_to_call
  <2> DEFINE pairs == [g \in 1 .. Len(Groups) |->
                         <<List(vararg_groups[g], Groups[g]), Count(vararg_groups[g])>>]
             more == IF VariadicUser THEN FlattenSeq(pairs)
                     ELSE IF packed_varargs # << >> THEN <<List(packed_varargs, "null")>> ELSE << >>
  <2>1. /\ prog' = prog /\ errors' = errors /\ UNCHANGED checkVars
        /\ arg_index' = arg_index /\ packed_varargs' = packed_varargs
        /\ current_variadic_group' = current_variadic_group /\ vararg_groups' = vararg_groups
        /\ args' = args /\ callee' = callee /\ pc = "varargs" /\ pc' = "check_err"
        /\ call_args' = call_args \o more
    BY <1>4 DEF emit_varargs_to_call
  <2>2. pc \in Lowered /\ pc' \in Lowered
    BY <2>1, LoweringFacts
  <2>3. \A s \in Seq(Args) : s \in Seq(Nat \ {0})
    <3>1. Args \subseteq Nat \ {0}
      BY DEF Args
    <3> QED
      BY <3>1, SubsetSequences
  <2>4. more \in Seq(HIRNodes)
    <3>1. CASE VariadicUser
      <4>1. /\ vararg_groups \in [1 .. Len(Groups) -> Seq(Args)]
            /\ Groups \in Seq(Bases \cup {"null"}) /\ Len(Groups) \in Nat
        BY <2>2, <3>1, LoweringFacts, ProgFacts
      <4>2. ASSUME NEW g \in 1 .. Len(Groups)
            PROVE  pairs[g] \in Seq(HIRNodes)
        <5>1. vararg_groups[g] \in Seq(Nat \ {0}) /\ Groups[g] \in Bases \cup {"null"}
          BY <2>3, <4>1
        <5>2. List(vararg_groups[g], Groups[g]) \in HIRNodes /\ Count(vararg_groups[g]) \in HIRNodes
          BY <5>1, NodeTypes
        <5>3. <<List(vararg_groups[g], Groups[g]), Count(vararg_groups[g])>> \in Seq(HIRNodes)
          BY <5>2
        <5> QED
          BY <5>3
      <4>3. pairs \in Seq(Seq(HIRNodes))
        <5>1. pairs = [g \in 1 .. Len(Groups) |-> pairs[g]]
          OBVIOUS
        <5> HIDE DEF pairs
        <5> QED
          BY <4>1, <4>2, <5>1
      <4> HIDE DEF pairs
      <4> QED
        BY <3>1, <4>3, FlattenType
    <3>2. CASE ~VariadicUser
      <4>1. List(packed_varargs, "null") \in HIRNodes
        BY <2>3, LoweringFacts, NodeTypes
      <4> QED
        BY <3>2, <4>1
    <3> QED
      BY <3>1, <3>2
  <2>5. call_args' \in Seq(HIRNodes)
    <3> HIDE DEF more
    <3>1. \A s, t \in Seq(HIRNodes) : s \o t \in Seq(HIRNodes)
      OBVIOUS
    <3> QED
      BY <2>1, <2>4, <3>1, LoweringFacts
  <2> QED
    BY <2>1, <2>2, <2>5, LoweringFacts, LoweringKeepsTypes
<1>5. CASE check_err
  <2>1. /\ prog' = prog /\ errors' = errors /\ UNCHANGED checkVars /\ UNCHANGED hirVars
        /\ args' = args /\ callee' = callee /\ pc = "check_err" /\ pc' \in {"codegen", "rejected"}
    BY <1>5 DEF check_err
  <2>2. /\ arg_index' = arg_index /\ call_args' = call_args /\ packed_varargs' = packed_varargs
        /\ current_variadic_group' = current_variadic_group /\ vararg_groups' = vararg_groups
    BY <2>1 DEF hirVars
  <2>3. pc \in Lowered /\ pc' \in Lowered
    BY <2>1, LoweringFacts
  <2> QED
    BY <2>1, <2>2, <2>3, LoweringFacts, LoweringKeepsTypes
<1> QED
  BY <1>1, <1>2, <1>3, <1>4, <1>5

LEMMA PrototypeTypes ==
  ASSUME TypesInv
  PROVE  /\ get_or_create_prototype \in Prototypes
         /\ get_or_create_symbol_prototype \in Prototypes
         /\ VariadicBuiltin \/ prog.name \in BuiltinNames => builtin_prototype \in Prototypes
<1>1. prog \in Programs /\ prog.params \in Seq(Params) /\ Len(prog.params) \in Nat
  BY ProgFacts DEF TypesInv
<1>2. \A t : ir_type(t) \in IrTypes
  BY IrTypeType
<1>3. "i64" \in IrTypes /\ "void" \in IrTypes /\ "i32" \in IrTypes
  BY DEF IrTypes
<1>4. get_or_create_prototype \in Prototypes
  <2> DEFINE ss == [k \in 1 .. Len(prog.params) |->
                      IF prog.params[k].variadic THEN <<ir_type(prog.params[k].type), "i64">>
                      ELSE <<ir_type(prog.params[k].type)>>]
  <2>1. ASSUME NEW k \in 1 .. Len(prog.params)
        PROVE  ss[k] \in Seq(IrTypes)
    <3> DEFINE u == ir_type(prog.params[k].type)
    <3>1. u \in IrTypes
      BY <1>2
    <3> HIDE DEF u
    <3>2. <<u, "i64">> \in Seq(IrTypes) /\ <<u>> \in Seq(IrTypes)
      BY <1>3, <3>1
    <3> QED
      BY <3>2 DEF u
  <2>2. ss \in Seq(Seq(IrTypes))
    <3>1. ss = [k \in 1 .. Len(prog.params) |-> ss[k]]
      OBVIOUS
    <3> HIDE DEF ss
    <3> QED
      BY <1>1, <2>1, <3>1, SMTT(30)
  <2>3. FlattenSeq(ss) \in Seq(IrTypes)
    <3> HIDE DEF ss
    <3> QED
      BY <2>2, FlattenType
  <2>4. HiddenCounts(prog.params) \in Seq(IrTypes)
    BY <2>3 DEF HiddenCounts
  <2> QED
    BY <1>2, <1>3, <2>4 DEF get_or_create_prototype, Prototypes
<1>5. get_or_create_symbol_prototype \in Prototypes
  <2>1. [k \in 1 .. Len(prog.params) |-> ir_type(prog.params[k].type)] \in Seq(IrTypes)
    BY <1>1, <1>2
  <2> QED
    BY <1>2, <1>3, <2>1 DEF get_or_create_symbol_prototype, Prototypes
<1>6. builtin_prototype \in Prototypes
  <2> DEFINE params == lookup(prog.name).params
             fixed == count_fixed_builtin_params(prog.name)
  <2>1. params \in Seq(Params)
    BY LookupType
  <2>2. Len(params) \in Nat
    BY <2>1
  <2>3. fixed \in 0 .. Len(params)
    <3>1. OpenEnded(params) \in SUBSET (1 .. Len(params))
      BY DEF OpenEnded
    <3> QED
      BY <2>2, <3>1, BeforeBounds DEF count_fixed_builtin_params
  <2> HIDE DEF params, fixed
  <2>4. fixed \in Nat
    BY <2>2, <2>3
  <2>5. [k \in 1 .. fixed |-> ir_type(params[k].type)] \in Seq(IrTypes)
    BY <1>2, <2>4
  <2>6. builtin_prototype = [params |-> [k \in 1 .. fixed |-> ir_type(params[k].type)],
                             ret |-> ir_type(lookup(prog.name).ret), vararg |-> fixed < Len(params)]
    BY DEF builtin_prototype, params, fixed
  <2>7. (fixed < Len(params)) \in BOOLEAN
    OBVIOUS
  <2> QED
    BY <1>2, <2>5, <2>6, <2>7 DEF Prototypes
<1> QED
  BY <1>4, <1>5, <1>6

\* What the nodes are emitted as.
LEMMA UnpackedTypes ==
  ASSUME NEW node \in HIRNodes
  PROVE  Unpacked(node) \in Seq([node : HIRNodes, type : IrTypes, intact : BOOLEAN])
<1> DEFINE V == [node : HIRNodes, type : IrTypes, intact : BOOLEAN]
<1>1. ASSUME NEW m \in HIRNodes
      PROVE  Value(m) \in V
  <2>1. "ptr" \in IrTypes /\ "i64" \in IrTypes /\ ir_type(types[m.elements[1]]) \in IrTypes
    BY IrTypeType DEF IrTypes
  <2>2. (m.kind = "list" => generateList(m)) \in BOOLEAN
    BY DEF generateList
  <2> QED
    BY <2>1, <2>2 DEF Value
<1>2. \A e \in 1 .. Len(node.elements) : node.elements[e] \in Nat \ {0}
  <2>1. node.elements \in Seq(Nat \ {0})
    BY DEF HIRNodes
  <2> QED
    BY <2>1
<1>3. \A e \in 1 .. Len(node.elements) : Value(Arg(node.elements[e])) \in V
  BY <1>1, <1>2, NodeTypes
<1>4. Len(node.elements) \in Nat
  <2>1. node.elements \in Seq(Nat \ {0})
    BY DEF HIRNodes
  <2> QED
    BY <2>1
<1> HIDE DEF V
<1>5. [e \in 1 .. Len(node.elements) |-> Value(Arg(node.elements[e]))] \in Seq(V)
  BY <1>3, <1>4
<1>6. <<Value(node)>> \in Seq(V)
  BY <1>1
<1> QED
  BY <1>5, <1>6 DEF Unpacked, V

LEMMA CodegenTypes ==
  ASSUME TypesInv, pre_declare_all_user_functions \/ emit_args \/ emit_call
  PROVE  TypesInv'
<1> DEFINE V == [node : HIRNodes, type : IrTypes, intact : BOOLEAN]
<1>1. CASE pre_declare_all_user_functions
  <2>1. /\ prog' = prog /\ errors' = errors /\ UNCHANGED checkVars /\ UNCHANGED hirVars
        /\ args' = args /\ pc = "codegen"
    BY <1>1 DEF pre_declare_all_user_functions
  <2>2. /\ pc' \in {"emit", "no type"}
        /\ callee' \in {callee, get_or_create_prototype}
    <3>1. CASE ~(prog.defined /\ prog.linkage # "sibling")
      BY <1>1, <3>1 DEF pre_declare_all_user_functions
    <3>2. CASE prog.defined /\ prog.linkage # "sibling" /\ NullType
      BY <1>1, <3>2 DEF pre_declare_all_user_functions
    <3>3. CASE prog.defined /\ prog.linkage # "sibling" /\ ~NullType
      BY <1>1, <3>3 DEF pre_declare_all_user_functions
    <3> QED
      BY <3>1, <3>2, <3>3
  <2>3. /\ arg_index' = arg_index /\ call_args' = call_args /\ packed_varargs' = packed_varargs
        /\ current_variadic_group' = current_variadic_group /\ vararg_groups' = vararg_groups
    BY <2>1 DEF hirVars
  <2>4. pc \in Lowered /\ pc' \in Lowered
    BY <2>1, <2>2, LoweringFacts
  <2>5. callee' \in Prototypes \cup {NoCallee}
    BY <2>2, LoweringFacts, PrototypeTypes
  <2> QED
    BY <2>1, <2>3, <2>4, <2>5, LoweringFacts, LoweringKeepsTypes
<1>2. CASE emit_args
  <2> DEFINE ss == [n \in 1 .. Len(call_args) |-> Unpacked(call_args[n])]
  <2>1. /\ prog' = prog /\ errors' = errors /\ UNCHANGED checkVars /\ UNCHANGED hirVars
        /\ pc = "emit" /\ args' = FlattenSeq(ss)
    BY <1>2 DEF emit_args
  <2>2. /\ pc' \in {"constant", "call.cast", "no function", "no type"}
        /\ \/ callee' = callee
           \/ prog.name \in BuiltinNames /\ callee' = builtin_prototype
           \/ callee' = get_or_create_symbol_prototype
    BY <1>2 DEF emit_args
  <2>3. /\ arg_index' = arg_index /\ call_args' = call_args /\ packed_varargs' = packed_varargs
        /\ current_variadic_group' = current_variadic_group /\ vararg_groups' = vararg_groups
    BY <2>1 DEF hirVars
  <2>4. pc \in Lowered /\ pc' \in Lowered
    BY <2>1, <2>2, LoweringFacts
  <2>5. callee' \in Prototypes \cup {NoCallee}
    BY <2>2, LoweringFacts, PrototypeTypes
  <2>6. args' \in Seq(V)
    <3>1. call_args \in Seq(HIRNodes)
      BY LoweringFacts
    <3>2. Len(call_args) \in Nat /\ \A n \in 1 .. Len(call_args) : call_args[n] \in HIRNodes
      BY <3>1
    <3>3. \A n \in 1 .. Len(call_args) : Unpacked(call_args[n]) \in Seq(V)
      BY <3>2, UnpackedTypes
    <3> HIDE DEF V
    <3>4. ss \in Seq(Seq(V))
      BY <3>2, <3>3
    <3> HIDE DEF ss
    <3> QED
      BY <2>1, <3>4, FlattenType
  <2> QED
    BY <2>1, <2>3, <2>4, <2>5, <2>6, LoweringFacts, LoweringKeepsTypes
<1>3. CASE emit_call
  <2> DEFINE cast(v) == IF v <= Len(callee.params)
                        THEN [args[v] EXCEPT !.type = Cast(@, callee.params[v])] ELSE args[v]
  <2>1. /\ prog' = prog /\ errors' = errors /\ UNCHANGED checkVars /\ UNCHANGED hirVars
        /\ callee' = callee /\ pc = "call.cast" /\ pc' \in {"called", "bad signature"}
        /\ args' = [v \in 1 .. Len(args) |-> cast(v)]
    BY <1>3 DEF emit_call
  <2>2. /\ arg_index' = arg_index /\ call_args' = call_args /\ packed_varargs' = packed_varargs
        /\ current_variadic_group' = current_variadic_group /\ vararg_groups' = vararg_groups
    BY <2>1 DEF hirVars
  <2>3. pc \in Lowered /\ pc' \in Lowered
    BY <2>1, LoweringFacts
  <2>4. callee.params \in Seq(IrTypes)
    <3>1. callee \in Prototypes \cup {NoCallee}
      BY LoweringFacts
    <3>2. NoCallee.params \in Seq(IrTypes)
      BY DEF NoCallee
    <3>3. \A f \in Prototypes : f.params \in Seq(IrTypes)
      BY DEF Prototypes
    <3> QED
      BY <3>1, <3>2, <3>3
  <2>5. Len(args) \in Nat /\ \A v \in 1 .. Len(args) : args[v] \in V
    <3>1. args \in Seq(V)
      BY LoweringFacts
    <3> HIDE DEF V
    <3> QED
      BY <3>1
  <2>6. ASSUME NEW v \in 1 .. Len(args)
        PROVE  cast(v) \in V
    <3>1. CASE v <= Len(callee.params)
      <4>1. v \in 1 .. Len(callee.params)
        BY <2>4, <2>5, <3>1
      <4>2. callee.params[v] \in IrTypes
        BY <2>4, <4>1
      <4>3. Cast(args[v].type, callee.params[v]) \in IrTypes
        BY <2>5, <4>2 DEF Cast
      <4> QED
        BY <2>5, <3>1, <4>3
    <3>2. CASE ~(v <= Len(callee.params))
      BY <2>5, <3>2
    <3> QED
      BY <3>1, <3>2
  <2>7. args' \in Seq(V)
    <3> DEFINE cs == [v \in 1 .. Len(args) |-> cast(v)]
    <3>1. \A v \in 1 .. Len(args) : cs[v] = cast(v)
      OBVIOUS
    <3>2. \A v \in 1 .. Len(args) : cs[v] \in V
      BY <2>6, <3>1
    <3>3. cs = [v \in 1 .. Len(args) |-> cs[v]]
      OBVIOUS
    <3> HIDE DEF V, cs
    <3>4. cs \in Seq(V)
      BY <2>5, <3>2, <3>3
    <3> QED
      BY <2>1, <3>4 DEF cs
  <2> QED
    BY <2>1, <2>2, <2>3, <2>7, LoweringFacts, LoweringKeepsTypes
<1> QED
  BY <1>1, <1>2, <1>3

LEMMA TypesStep ==
  ASSUME TypesInv, [Next]_vars
  PROVE  TypesInv'
<1>1. CASE UNCHANGED vars
  <2>1. /\ prog' = prog /\ pc' = pc /\ errors' = errors /\ args' = args /\ callee' = callee
        /\ checkVars' = checkVars /\ hirVars' = hirVars
    BY <1>1 DEF vars
  <2>2. /\ ret' = ret /\ types' = types /\ i' = i /\ current_group' = current_group
        /\ group' = group /\ call_type' = call_type
    BY <2>1 DEF checkVars
  <2>3. /\ arg_index' = arg_index /\ call_args' = call_args /\ packed_varargs' = packed_varargs
        /\ current_variadic_group' = current_variadic_group /\ vararg_groups' = vararg_groups
    BY <2>1 DEF hirVars
  <2>4. /\ Argc' = Argc /\ Args' = Args /\ Groups' = Groups
        /\ VariadicBuiltin' = VariadicBuiltin /\ VariadicUser' = VariadicUser
    BY <2>1 DEF Argc, Args, Groups, VariadicBuiltin, VariadicUser, FnSymbol
  <2>5. TypeOK'
    BY <2>1, <2>2, <2>3, <2>4 DEF TypesInv, TypeOK
  <2> QED
    BY <2>1, <2>2, <2>3, <2>4, <2>5 DEF TypesInv
<1>2. CASE Next /\ ~UNCHANGED vars
  <2>1. \/ SemanticPass /\ UNCHANGED <<hirVars, args, callee>>
        \/ generate \/ distribute_lowered_arg \/ lower_end \/ emit_varargs_to_call \/ check_err
        \/ pre_declare_all_user_functions \/ emit_args \/ emit_call
    BY <1>2 DEF Next, Compile, Finished
  <2> QED
    BY <2>1, SemanticPassTypes, LoweringTypes, CodegenTypes
<1> QED
  BY <1>1, <1>2

\* Type correctness, whatever is called with what: the searches of both passes find a
\* group, every group is a sequence of arguments, and every value and declaration has
\* the types of LLVM.
THEOREM TypesAreKept == Spec => []TypeOK
<1>1. Init => TypesInv
  BY InitTypes
<1>2. TypesInv /\ [Next]_vars => TypesInv'
  BY TypesStep
<1>3. TypesInv => TypeOK
  BY DEF TypesInv
<1> QED
  BY <1>1, <1>2, <1>3, PTL DEF Spec

-----------------------------------------------------------------------------
(* The two deals of the arguments *)

\* The variadic groups of a user function decide about the call.
Dealing == prog.name # "len" /\ VariadicUser /\ ~VariadicBuiltin
FixedArgs == fixed_user_param_count(prog.params)

\* Where the search for argument a's group begins.
Begin(a) == IF a <= FixedArgs + 1 THEN 1 ELSE group[a - 1]
\* The arguments in front of a have their groups, and no others.
DealtTo(a) ==
  \A b \in Args :
    group[b] = IF FixedArgs < b /\ b < a THEN FirstMatch(Groups, Begin(b), types[b].base) ELSE 0

InFront == pc \in {"register", "call"} \/ (pc = "body" /\ prog.calleeFirst)
Behind == pc \in {"HIRGen"} \cup Lowered \/ (pc = "body" /\ ~prog.calleeFirst)

\* The groups hold the arguments in front of arg_index that were checked for them.
Collected ==
  \A a \in Args, g \in 1 .. Len(Groups) :
    (\E e \in 1 .. Len(vararg_groups[g]) : vararg_groups[g][e] = a) <=> a < arg_index /\ group[a] = g

NothingLowered ==
  pc \notin Lowered => vararg_groups = << >> /\ arg_index = 1 /\ current_variadic_group = 1
DealtWithoutErrors ==
  errors = {} /\ Dealing =>
    /\ InFront => i = 1 /\ current_group = 1 /\ DealtTo(1)
    /\ pc = "fixed" => FixedArgs <= Argc /\ i <= FixedArgs + 1 /\ current_group = 1 /\ DealtTo(1)
    /\ pc = "groups" => FixedArgs < i /\ current_group = Begin(i) /\ DealtTo(i)
    /\ Behind => DealtTo(Argc + 1)
    /\ pc \in Lowered => current_variadic_group = Begin(arg_index) /\ Collected
DealInv == NothingLowered /\ DealtWithoutErrors

LEMMA FixedArgsType ==
  ASSUME TypesInv
  PROVE  FixedArgs \in Nat
<1>1. Len(prog.params) \in Nat
  BY ProgFacts DEF TypesInv
<1>2. VariadicParams(prog.params) \in SUBSET (1 .. Len(prog.params))
  BY DEF VariadicParams
<1>3. Before(prog.params, VariadicParams(prog.params)) \in 0 .. Len(prog.params)
  BY <1>1, <1>2, BeforeBounds
<1> QED
  BY <1>1, <1>3 DEF FixedArgs, fixed_user_param_count

LEMMA InitDeal ==
  ASSUME Init
  PROVE  DealInv
<1>1. /\ pc = "register" /\ i = 1 /\ current_group = 1 /\ group = [a \in Args |-> 0]
      /\ arg_index = 1 /\ current_variadic_group = 1 /\ vararg_groups = << >>
  BY DEF Init, CheckInit
<1>2. FixedArgs \in Nat
  BY InitTypes, FixedArgsType
<1>3. Args \subseteq Nat /\ \A b \in Args : b >= 1
  BY DEF Args
<1>4. DealtTo(1)
  BY <1>1, <1>2, <1>3 DEF DealtTo
<1>5. pc \notin Lowered /\ ~Behind
  BY <1>1 DEF Lowered, Checking, Behind
<1> QED
  BY <1>1, <1>4, <1>5 DEF DealInv, NothingLowered, DealtWithoutErrors


\* The steps of the semantic pass in front of the variadic arguments.
LEMMA DealBefore ==
  ASSUME TypesInv, DealtWithoutErrors, UNCHANGED <<hirVars, args, callee>>,
         register_global_var_and_fn \/ handle_fn \/ call_len \/ call \/ check_fixed \/ fixed_end
  PROVE  DealtWithoutErrors'
<1> SUFFICES ASSUME errors' = {}, Dealing'
             PROVE  /\ InFront' => (i = 1 /\ current_group = 1 /\ DealtTo(1))'
                    /\ (pc = "fixed" => FixedArgs <= Argc /\ i <= FixedArgs + 1 /\ current_group = 1
                          /\ DealtTo(1))'
                    /\ (pc = "groups" => FixedArgs < i /\ current_group = Begin(i) /\ DealtTo(i))'
                    /\ Behind' => DealtTo(Argc + 1)'
                    /\ (pc \in Lowered => current_variadic_group = Begin(arg_index) /\ Collected)'
  BY DEF DealtWithoutErrors
<1>1. prog' = prog
  BY DEF register_global_var_and_fn, handle_fn, call_len, call, check_fixed, fixed_end
<1>2. /\ Argc' = Argc /\ Args' = Args /\ Groups' = Groups /\ FixedArgs' = FixedArgs
      /\ Dealing
  BY <1>1 DEF Argc, Args, Groups, VariadicBuiltin, VariadicUser, FnSymbol, FixedArgs, Dealing
<1>3. /\ i \in Nat \ {0} /\ i <= Argc + 1 /\ Argc \in Nat /\ FixedArgs \in Nat
      /\ types \in [Args -> Types] /\ group \in [Args -> 0 .. Len(Groups)] /\ Args = 1 .. Argc
  BY CheckingFacts, FixedArgsType DEF Args
<1>4. errors = {}
  BY DEF register_global_var_and_fn, handle_fn, call_len, call, check_fixed, fixed_end, Error, Checked
<1>5. Len(Wanted) = FixedArgs
  BY <1>2, WantedType DEF TypesInv, Dealing, FixedArgs
<1>6. CASE register_global_var_and_fn
  <2>1. /\ i' = i /\ current_group' = current_group /\ group' = group /\ types' = types
        /\ pc = "register"
    BY <1>6 DEF register_global_var_and_fn, checkVars
  <2>2. pc' = "crashed" \/ (pc' = "body" /\ prog.calleeFirst) \/ pc' = "call"
    BY <1>6 DEF register_global_var_and_fn, AfterRegister
  <2>3. i = 1 /\ current_group = 1 /\ DealtTo(1)
    BY <1>2, <1>4, <2>1 DEF DealtWithoutErrors, InFront
  <2>4. DealtTo(1)'
    BY <1>2, <2>1, <2>3 DEF DealtTo, Begin
  <2> QED
    BY <1>1, <2>1, <2>2, <2>3, <2>4 DEF Behind, Lowered, Checking
<1>7. CASE handle_fn
  <2>1. /\ i' = i /\ current_group' = current_group /\ group' = group /\ types' = types
        /\ pc = "body" /\ pc' = IF prog.calleeFirst THEN "call" ELSE "HIRGen"
    BY <1>7 DEF handle_fn, AfterBody
  <2>2. CASE prog.calleeFirst
    <3>1. i = 1 /\ current_group = 1 /\ DealtTo(1)
      BY <1>2, <1>4, <2>1, <2>2 DEF DealtWithoutErrors, InFront
    <3>2. DealtTo(1)'
      BY <1>2, <2>1, <3>1 DEF DealtTo, Begin
    <3> QED
      BY <2>1, <2>2, <3>1, <3>2 DEF Behind, Lowered, Checking
  <2>3. CASE ~prog.calleeFirst
    <3>1. DealtTo(Argc + 1)
      BY <1>2, <1>4, <2>1, <2>3 DEF DealtWithoutErrors, Behind
    <3>2. DealtTo(Argc + 1)'
      BY <1>2, <2>1, <3>1 DEF DealtTo, Begin
    <3> QED
      BY <2>1, <2>3, <3>2 DEF InFront, Lowered, Checking
  <2> QED
    BY <2>2, <2>3
<1>8. CASE call_len
  BY <1>2, <1>8 DEF call_len, Dealing
<1>9. CASE call
  <2>1. /\ i' = i /\ current_group' = current_group /\ group' = group /\ types' = types
        /\ pc = "call" /\ pc' = "fixed" /\ ~(Argc < Len(Wanted))
    BY <1>2, <1>9 DEF call, Error, Dealing
  <2>2. i = 1 /\ current_group = 1 /\ DealtTo(1)
    BY <1>2, <1>4, <2>1 DEF DealtWithoutErrors, InFront
  <2>3. DealtTo(1)'
    BY <1>2, <2>1, <2>2 DEF DealtTo, Begin
  <2> QED
    BY <1>2, <1>3, <1>5, <2>1, <2>2, <2>3 DEF InFront, Behind, Lowered, Checking
<1>10. CASE check_fixed
  <2>1. /\ pc = "fixed" /\ i <= Len(Wanted) /\ current_group' = current_group /\ group' = group
    BY <1>10 DEF check_fixed
  <2>2. FixedArgs <= Argc /\ i <= FixedArgs + 1 /\ current_group = 1 /\ DealtTo(1)
    BY <1>2, <1>4, <2>1 DEF DealtWithoutErrors
  <2>3. ~(i > Argc)
    BY <1>3, <1>5, <2>1, <2>2
  <2>4. i' = i + 1 /\ pc' = pc
    BY <1>10, <2>3 DEF check_fixed, Checked, Error
  <2>5. DealtTo(1)'
    <3>1. \A b \in Args : group[b] = 0
      BY <1>3, <2>2 DEF DealtTo
    <3> QED
      BY <1>2, <1>3, <2>1, <3>1 DEF DealtTo
  <2> QED
    BY <1>2, <1>3, <1>5, <2>1, <2>2, <2>4, <2>5 DEF InFront, Behind, Lowered, Checking
<1>11. CASE fixed_end
  <2>1. /\ i' = i /\ current_group' = current_group /\ group' = group /\ types' = types
        /\ pc = "fixed" /\ pc' = "groups" /\ i > Len(Wanted)
    BY <1>2, <1>11 DEF fixed_end, Dealing
  <2>2. FixedArgs <= Argc /\ i <= FixedArgs + 1 /\ current_group = 1 /\ DealtTo(1)
    BY <1>2, <1>4, <2>1 DEF DealtWithoutErrors
  <2>3. i = FixedArgs + 1
    BY <1>3, <1>5, <2>1, <2>2
  <2>4. DealtTo(i)'
    <3>1. \A b \in Args : group[b] = 0
      BY <1>3, <2>2 DEF DealtTo
    <3> QED
      BY <1>2, <1>3, <2>1, <2>3, <3>1 DEF DealtTo
  <2>5. Begin(i)' = 1
    BY <1>2, <2>1, <2>3 DEF Begin
  <2> QED
    BY <1>2, <1>3, <2>1, <2>2, <2>3, <2>4, <2>5 DEF InFront, Behind, Lowered, Checking
<1> QED
  BY <1>6, <1>7, <1>8, <1>9, <1>10, <1>11

\* The steps of the semantic pass over the variadic arguments: a literal that has got
\* its type keeps it, so the group that was searched for its type stays the right one.
LEMMA DealVariadic ==
  ASSUME TypesInv, DealtWithoutErrors, UNCHANGED <<hirVars, args, callee>>,
         check_rest \/ check_group \/ groups_end
  PROVE  DealtWithoutErrors'
<1> SUFFICES ASSUME errors' = {}, Dealing'
             PROVE  /\ InFront' => (i = 1 /\ current_group = 1 /\ DealtTo(1))'
                    /\ (pc = "fixed" => FixedArgs <= Argc /\ i <= FixedArgs + 1 /\ current_group = 1
                          /\ DealtTo(1))'
                    /\ (pc = "groups" => FixedArgs < i /\ current_group = Begin(i) /\ DealtTo(i))'
                    /\ Behind' => DealtTo(Argc + 1)'
                    /\ (pc \in Lowered => current_variadic_group = Begin(arg_index) /\ Collected)'
  BY DEF DealtWithoutErrors
<1>1. prog' = prog
  BY DEF check_rest, check_group, groups_end
<1>2. /\ Argc' = Argc /\ Args' = Args /\ Groups' = Groups /\ FixedArgs' = FixedArgs
      /\ Dealing
  BY <1>1 DEF Argc, Args, Groups, VariadicBuiltin, VariadicUser, FnSymbol, FixedArgs, Dealing
<1>3. /\ i \in Nat \ {0} /\ i <= Argc + 1 /\ Argc \in Nat /\ FixedArgs \in Nat
      /\ types \in [Args -> Types] /\ group \in [Args -> 0 .. Len(Groups)] /\ Args = 1 .. Argc
  BY CheckingFacts, FixedArgsType DEF Args
<1>4. errors = {}
  BY DEF check_rest, check_group, groups_end, Error, Checked
<1>5. pc = "groups"
  BY <1>2 DEF check_rest, check_group, groups_end, Dealing, TypesInv
<1>6. FixedArgs < i /\ current_group = Begin(i) /\ DealtTo(i)
  BY <1>2, <1>4, <1>5 DEF DealtWithoutErrors
<1>7. CASE groups_end
  <2>1. /\ i' = i /\ current_group' = current_group /\ group' = group /\ types' = types
        /\ pc' = AfterCall /\ i > Argc
    BY <1>7, <1>4 DEF groups_end, Accept, Error
  <2>2. i = Argc + 1
    BY <1>3, <2>1
  <2>3. DealtTo(Argc + 1)'
    BY <1>2, <1>6, <2>1, <2>2 DEF DealtTo, Begin
  <2>4. (pc' = "body" /\ ~prog.calleeFirst) \/ pc' = "HIRGen"
    BY <2>1 DEF AfterCall
  <2> QED
    BY <1>1, <2>1, <2>3, <2>4 DEF InFront, Lowered, Checking
<1>8. CASE check_group
  <2> DEFINE at == check_expr(prog.args[i], types[i], NoType)
             g == FirstMatch(Groups, current_group, at.base)
             want == Scalar(Groups[g])
             t == check_expr(prog.args[i], at, want)
  <2>1. /\ i <= Argc /\ Checked(t, want)
        /\ IF Mismatch(t, want) THEN current_group' = current_group /\ group' = group
           ELSE current_group' = g /\ group' = [group EXCEPT ![i] = g]
    BY <1>8 DEF check_group
  <2>2. i \in Args
    BY <1>3, <2>1
  <2>3. t = at
    <3>1. types[i] \in Types /\ NoType \in Types
      BY <2>2, CheckingFacts
    <3>2. Len(Groups) > 0 /\ Groups \in Seq(Bases \cup {"null"}) /\ Len(Groups) \in Nat
      BY <1>2, ProgFacts DEF Dealing, TypesInv
    <3>3. g \in 1 .. Len(Groups)
      <4> HIDE DEF at
      <4>1. current_group \in Nat /\ current_group > 0
        BY CheckingFacts
      <4> QED
        BY <3>2, <4>1, FirstMatchRange
    <3> HIDE DEF g
    <3>4. Groups[g] \in Bases \cup {"null"}
      BY <3>2, <3>3
    <3>5. want \in Types
      BY <3>4, CheckingFacts
    <3> HIDE DEF want
    <3> QED
      BY <3>1, <3>5, CheckedTwice
  <2> HIDE DEF at, want
  <2>4. /\ ~Mismatch(t, want) /\ i' = i + 1 /\ pc' = pc
        /\ types' = [types EXCEPT ![i] = t]
    BY <1>4, <2>1 DEF Checked, Error
  <2> HIDE DEF t
  <2>5. types' = [types EXCEPT ![i] = at] /\ current_group' = g /\ group' = [group EXCEPT ![i] = g]
    BY <2>1, <2>3, <2>4
  <2>6. /\ group'[i] = g /\ types'[i] = at
        /\ \A b \in Args : b # i => group'[b] = group[b] /\ types'[b] = types[b]
    BY <1>3, <2>2, <2>5
  <2> HIDE DEF g
  <2>7. Begin(i)' = g
    BY <1>2, <1>3, <1>6, <2>4, <2>6 DEF Begin
  <2>8. \A b \in Args : FixedArgs < b /\ b <= i => Begin(b)' = Begin(b)
    <3> SUFFICES ASSUME NEW b \in Args, FixedArgs < b, b <= i
                 PROVE  Begin(b)' = Begin(b)
      OBVIOUS
    <3>1. CASE b <= FixedArgs + 1
      BY <1>2, <3>1 DEF Begin
    <3>2. CASE ~(b <= FixedArgs + 1)
      <4>1. b - 1 \in Args /\ b - 1 # i
        BY <1>3, <3>2
      <4> QED
        BY <1>2, <2>6, <3>2, <4>1 DEF Begin
    <3> QED
      BY <3>1, <3>2
  <2>9. DealtTo(i)'
    <3> SUFFICES ASSUME NEW b \in Args
                 PROVE  group'[b] = IF FixedArgs < b /\ b < i + 1
                                    THEN FirstMatch(Groups, Begin(b)', types'[b].base) ELSE 0
      BY <1>2, <2>4 DEF DealtTo
    <3>1. group[b] = IF FixedArgs < b /\ b < i THEN FirstMatch(Groups, Begin(b), types[b].base) ELSE 0
      BY <1>6 DEF DealtTo
    <3>2. CASE b = i
      <4>1. group'[b] = FirstMatch(Groups, current_group, at.base)
        BY <2>6, <3>2 DEF g
      <4>2. Begin(b)' = current_group
        BY <1>6, <2>8, <3>2, <1>3
      <4> QED
        BY <1>3, <1>6, <2>6, <3>2, <4>1, <4>2
    <3>3. CASE b < i
      BY <1>3, <2>6, <2>8, <3>1, <3>3
    <3>4. CASE b > i
      BY <1>3, <2>6, <3>1, <3>4
    <3> QED
      BY <1>3, <3>2, <3>3, <3>4
  <2>10. pc' = "groups"
    BY <1>5, <2>4
  <2> QED
    BY <1>2, <1>3, <1>6, <2>4, <2>5, <2>7, <2>9, <2>10 DEF InFront, Behind, Lowered, Checking
<1>9. CASE check_rest
  BY <1>5, <1>9 DEF check_rest
<1> QED
  BY <1>7, <1>8, <1>9

\* HIRGen finds the group that the semantic pass found, as it searches from the same
\* group for the same type.
LEMMA DealLowered ==
  ASSUME TypesInv, DealInv, generate \/ distribute_lowered_arg
  PROVE  DealtWithoutErrors'
<1> SUFFICES ASSUME errors' = {}, Dealing'
             PROVE  /\ InFront' => (i = 1 /\ current_group = 1 /\ DealtTo(1))'
                    /\ (pc = "fixed" => FixedArgs <= Argc /\ i <= FixedArgs + 1 /\ current_group = 1
                          /\ DealtTo(1))'
                    /\ (pc = "groups" => FixedArgs < i /\ current_group = Begin(i) /\ DealtTo(i))'
                    /\ Behind' => DealtTo(Argc + 1)'
                    /\ (pc \in Lowered => current_variadic_group = Begin(arg_index) /\ Collected)'
  BY DEF DealtWithoutErrors
<1>1. prog' = prog /\ types' = types /\ group' = group /\ errors' = errors /\ pc' = "lower"
  BY DEF generate, distribute_lowered_arg, checkVars
<1>2. /\ Argc' = Argc /\ Args' = Args /\ Groups' = Groups /\ FixedArgs' = FixedArgs
      /\ Dealing
  BY <1>1 DEF Argc, Args, Groups, VariadicBuiltin, VariadicUser, FnSymbol, FixedArgs, Dealing
<1>3. /\ arg_index \in Nat \ {0} /\ arg_index <= Argc + 1 /\ Argc \in Nat /\ FixedArgs \in Nat
      /\ group \in [Args -> 0 .. Len(Groups)] /\ Args = 1 .. Argc /\ Len(Groups) \in Nat
  BY CheckingFacts, LoweringNumbers, FixedArgsType
<1>4. Behind
  BY LoweringFacts DEF generate, distribute_lowered_arg, Behind
<1>5. DealtTo(Argc + 1)
  BY <1>1, <1>2, <1>4 DEF DealInv, DealtWithoutErrors
<1>6. DealtTo(Argc + 1)'
  BY <1>1, <1>2, <1>5 DEF DealtTo, Begin
<1>7. SUFFICES (current_variadic_group = Begin(arg_index) /\ Collected)'
  BY <1>1, <1>6 DEF InFront
<1>8. CASE generate
  <2>1. /\ arg_index' = arg_index /\ current_variadic_group' = current_variadic_group
        /\ vararg_groups' = [g \in 1 .. Len(Groups) |-> << >>] /\ pc = "HIRGen"
    BY <1>2, <1>8 DEF generate, Dealing
  <2>2. arg_index = 1 /\ current_variadic_group = 1
    BY <2>1 DEF DealInv, NothingLowered, Lowered, Checking
  <2>3. (current_variadic_group = Begin(arg_index))'
    BY <1>2, <1>3, <2>1, <2>2 DEF Begin
  <2>4. Collected'
    <3>1. \A a \in Args : ~(a < 1)
      BY <1>3
    <3>2. \A g \in 1 .. Len(Groups) : Len(vararg_groups'[g]) = 0
      BY <2>1
    <3> QED
      BY <1>2, <1>3, <2>1, <2>2, <3>1, <3>2 DEF Collected
  <2> QED
    BY <2>3, <2>4
<1>9. CASE distribute_lowered_arg
  <2>1. /\ pc = "lower" /\ arg_index <= Argc /\ arg_index' = arg_index + 1
    BY <1>9 DEF distribute_lowered_arg
  <2>2. arg_index \in Args /\ pc \in Lowered
    <3>1. arg_index \in Args
      BY <1>3, <2>1
    <3> QED
      BY <2>1, <3>1, LoweringFacts
  <2>3. current_variadic_group = Begin(arg_index) /\ Collected
    BY <1>1, <1>2, <2>2 DEF DealInv, DealtWithoutErrors
  <2>4. vararg_groups \in [1 .. Len(Groups) -> Seq(Args)]
    BY <1>2, <2>2, LoweringFacts DEF Dealing
  <2>5. CASE arg_index <= FixedArgs
    <3>1. /\ vararg_groups' = vararg_groups /\ current_variadic_group' = current_variadic_group
      BY <1>2, <1>3, <1>9, <2>5 DEF distribute_lowered_arg, Dealing, FixedArgs
    <3>2. group[arg_index] = 0
      BY <1>3, <1>5, <2>2, <2>5 DEF DealtTo
    <3>3. (current_variadic_group = Begin(arg_index))'
      BY <1>2, <1>3, <2>1, <2>3, <2>5, <3>1 DEF Begin
    <3>4. \A a \in Args, g \in 1 .. Len(Groups) :
            a < arg_index /\ group[a] = g <=> a < arg_index + 1 /\ group[a] = g
      BY <1>3, <3>2
    <3>5. Collected'
      BY <1>1, <1>2, <2>1, <2>3, <3>1, <3>4 DEF Collected
    <3> QED
      BY <3>3, <3>5
  <2>6. CASE ~(arg_index <= FixedArgs)
    <3> DEFINE g == FirstMatch(Groups, current_variadic_group, lowered(arg_index).base)
    <3>1. /\ vararg_groups' = [vararg_groups EXCEPT ![g] = Append(@, arg_index)]
          /\ current_variadic_group' = g
      <4>1. arg_index > fixed_user_param_count(prog.params)
        BY <1>3, <2>6 DEF FixedArgs
      <4> QED
        BY <1>2, <1>9, <4>1 DEF distribute_lowered_arg, Dealing
    <3>2. group[arg_index] = g
      BY <1>3, <1>5, <2>1, <2>2, <2>3, <2>6 DEF DealtTo, lowered
    <3> HIDE DEF g
    <3>3. (current_variadic_group = Begin(arg_index))'
      BY <1>1, <1>2, <1>3, <2>1, <2>6, <3>1, <3>2 DEF Begin
    <3>4. g \in 0 .. Len(Groups)
      BY <1>3, <2>2, <3>2
    <3>5. SUFFICES ASSUME NEW a \in Args, NEW h \in 1 .. Len(Groups)
                   PROVE  (\E e \in 1 .. Len(vararg_groups'[h]) : vararg_groups'[h][e] = a)
                            <=> a < arg_index + 1 /\ group[a] = h
      BY <1>1, <1>2, <2>1, <3>3 DEF Collected
    <3>6. (\E e \in 1 .. Len(vararg_groups[h]) : vararg_groups[h][e] = a)
            <=> a < arg_index /\ group[a] = h
      BY <2>3 DEF Collected
    <3>7. CASE h # g
      <4>1. vararg_groups'[h] = vararg_groups[h]
        BY <2>4, <3>1, <3>7
      <4>2. a = arg_index => group[a] # h
        BY <3>2, <3>7
      <4> QED
        BY <1>3, <3>6, <4>1, <4>2
    <3>8. CASE h = g
      <4> DEFINE s == vararg_groups[h]
      <4>1. s \in Seq(Args) /\ vararg_groups'[h] = Append(s, arg_index)
        BY <2>4, <3>1, <3>8
      <4> HIDE DEF s
      <4>2. (\E e \in 1 .. Len(Append(s, arg_index)) : Append(s, arg_index)[e] = a)
              <=> (\E e \in 1 .. Len(s) : s[e] = a) \/ a = arg_index
        <5>1. /\ Len(Append(s, arg_index)) = Len(s) + 1 /\ Len(s) \in Nat
              /\ Append(s, arg_index)[Len(s) + 1] = arg_index
              /\ \A e \in 1 .. Len(s) : Append(s, arg_index)[e] = s[e]
          BY <4>1
        <5>2. \A e \in 1 .. Len(s) + 1 : e \in 1 .. Len(s) \/ e = Len(s) + 1
          BY <5>1
        <5>3. Len(s) + 1 \in 1 .. Len(s) + 1 /\ \A e \in 1 .. Len(s) : e \in 1 .. Len(s) + 1
          BY <5>1
        <5> QED
          BY <5>1, <5>2, <5>3
      <4>3. (\E e \in 1 .. Len(s) : s[e] = a) <=> a < arg_index /\ group[a] = h
        BY <3>6 DEF s
      <4>4. a = arg_index => group[a] = h
        BY <3>2, <3>8
      <4>5. (\E e \in 1 .. Len(vararg_groups'[h]) : vararg_groups'[h][e] = a)
              <=> (\E e \in 1 .. Len(s) : s[e] = a) \/ a = arg_index
        BY <4>1, <4>2
      <4>6. a < arg_index + 1 <=> a < arg_index \/ a = arg_index
        BY <1>3
      <4> QED
        BY <4>3, <4>4, <4>5, <4>6, Zenon
    <3> QED
      BY <3>7, <3>8
  <2> QED
    BY <2>5, <2>6
<1> QED
  BY <1>8, <1>9

\* The steps behind the last argument.
LEMMA DealKept ==
  ASSUME TypesInv, DealInv, prog' = prog, errors' = errors, types' = types, group' = group,
         pc \in Lowered, pc' \in Lowered, arg_index' = arg_index, vararg_groups' = vararg_groups,
         current_variadic_group' = current_variadic_group
  PROVE  DealInv'
<1>1. /\ Argc' = Argc /\ Args' = Args /\ Groups' = Groups /\ FixedArgs' = FixedArgs
      /\ Dealing' = Dealing
  BY DEF Argc, Args, Groups, VariadicBuiltin, VariadicUser, FnSymbol, FixedArgs, Dealing
<1>2. NothingLowered'
  BY DEF NothingLowered
<1>3. SUFFICES ASSUME errors = {}, Dealing
               PROVE  DealtWithoutErrors'
  BY <1>1, <1>2 DEF DealInv, DealtWithoutErrors
<1>4. DealtTo(Argc + 1) /\ current_variadic_group = Begin(arg_index) /\ Collected
  BY <1>3 DEF DealInv, DealtWithoutErrors, Behind
<1>5. DealtTo(Argc + 1)'
  BY <1>1, <1>4 DEF DealtTo, Begin
<1>6. (current_variadic_group = Begin(arg_index))'
  BY <1>1, <1>4 DEF Begin
<1>7. Collected'
  BY <1>1, <1>4 DEF Collected
<1> QED
  BY <1>5, <1>6, <1>7 DEF DealtWithoutErrors, InFront, Lowered, Checking

LEMMA DealStep ==
  ASSUME TypesInv, DealInv, [Next]_vars
  PROVE  DealInv'
<1>1. CASE SemanticPass /\ UNCHANGED <<hirVars, args, callee>>
  <2>1. pc \notin Lowered
    BY <1>1 DEF SemanticPass, register_global_var_and_fn, handle_fn, call_len, call, check_fixed,
                fixed_end, check_rest, check_group, groups_end, Lowered, Checking
  <2>2. /\ vararg_groups' = vararg_groups /\ arg_index' = arg_index
        /\ current_variadic_group' = current_variadic_group
    BY <1>1 DEF hirVars
  <2>3. NothingLowered'
    BY <2>1, <2>2 DEF DealInv, NothingLowered
  <2>4. DealtWithoutErrors'
    BY <1>1, DealBefore, DealVariadic DEF SemanticPass, DealInv
  <2> QED
    BY <2>3, <2>4 DEF DealInv
<1>2. CASE generate \/ distribute_lowered_arg
  <2>1. pc' = "lower"
    BY <1>2 DEF generate, distribute_lowered_arg
  <2>2. NothingLowered'
    BY <2>1, LoweringFacts DEF NothingLowered
  <2> QED
    BY <1>2, <2>2, DealLowered DEF DealInv
<1>3. CASE \/ lower_end \/ emit_varargs_to_call \/ check_err \/ pre_declare_all_user_functions
           \/ emit_args \/ emit_call
  <2>1. /\ prog' = prog /\ errors' = errors /\ types' = types /\ group' = group
        /\ arg_index' = arg_index /\ vararg_groups' = vararg_groups
        /\ current_variadic_group' = current_variadic_group
    BY <1>3 DEF lower_end, emit_varargs_to_call, check_err, pre_declare_all_user_functions, emit_args,
                emit_call, checkVars, hirVars
  <2>2. pc \in {"lower", "varargs", "check_err", "codegen", "emit", "call.cast"}
    BY <1>3 DEF lower_end, emit_varargs_to_call, check_err, pre_declare_all_user_functions, emit_args,
                emit_call
  <2>3. pc' \in {"varargs", "check_err", "codegen", "rejected", "emit", "no type", "constant", "call.cast",
                 "no function", "called", "bad signature"}
    BY <1>3 DEF lower_end, emit_varargs_to_call, check_err, pre_declare_all_user_functions, emit_args,
                emit_call
  <2>4. pc \in Lowered /\ pc' \in Lowered
    BY <2>2, <2>3, LoweringFacts
  <2> QED
    BY <2>1, <2>4, DealKept
<1>4. CASE UNCHANGED vars
  <2>1. /\ prog' = prog /\ pc' = pc /\ errors' = errors /\ types' = types /\ i' = i
        /\ current_group' = current_group /\ group' = group /\ arg_index' = arg_index
        /\ vararg_groups' = vararg_groups /\ current_variadic_group' = current_variadic_group
    BY <1>4 DEF vars, checkVars, hirVars
  <2>2. /\ Argc' = Argc /\ Args' = Args /\ Groups' = Groups /\ FixedArgs' = FixedArgs
        /\ Dealing' = Dealing /\ InFront' = InFront /\ Behind' = Behind
    BY <2>1 DEF Argc, Args, Groups, VariadicBuiltin, VariadicUser, FnSymbol, FixedArgs, Dealing,
                InFront, Behind
  <2>3. NothingLowered'
    BY <2>1 DEF DealInv, NothingLowered
  <2>4. /\ DealtTo(1)' = DealtTo(1) /\ DealtTo(i)' = DealtTo(i) /\ DealtTo(Argc + 1)' = DealtTo(Argc + 1)
        /\ Begin(i)' = Begin(i) /\ Begin(arg_index)' = Begin(arg_index) /\ Collected' = Collected
    BY <2>1, <2>2 DEF DealtTo, Begin, Collected
  <2>5. DealtWithoutErrors'
    BY <2>1, <2>2, <2>4 DEF DealInv, DealtWithoutErrors
  <2> QED
    BY <2>3, <2>5 DEF DealInv
<1> QED
  BY <1>1, <1>2, <1>3, <1>4 DEF Next, Compile, Finished

\* Whatever is called: the lowering deals the arguments of an accepted call out to the
\* groups that the semantic pass checked them for, though each pass searches on its own
\* and the types are inferred in between.
THEOREM BothPassesDealAlike == Spec => []GroupsAgree
<1>1. Init => TypesInv /\ DealInv
  BY InitTypes, InitDeal
<1>2. (TypesInv /\ DealInv) /\ [Next]_vars => (TypesInv /\ DealInv)'
  BY TypesStep, DealStep
<1>3. TypesInv /\ DealInv => GroupsAgree
  <2> SUFFICES ASSUME TypesInv, DealInv, errors = {}, Dealing, vararg_groups # << >>,
                      NEW a \in 1 .. arg_index - 1, NEW g \in 1 .. Len(Groups)
               PROVE  group[a] = g <=> \E e \in 1 .. Len(vararg_groups[g]) : vararg_groups[g][e] = a
    BY DEF GroupsAgree, Dealing
  <2>1. pc \in Lowered
    BY DEF DealInv, NothingLowered
  <2>2. Collected
    BY <2>1 DEF DealInv, DealtWithoutErrors
  <2>3. a \in Args /\ a < arg_index
    BY LoweringNumbers
  <2> QED
    BY <2>2, <2>3 DEF Collected
<1> QED
  BY <1>1, <1>2, <1>3, PTL DEF Spec

-----------------------------------------------------------------------------
(* The type of a call *)

\* The callee's return type is the declared one, or not known, or that of its body.
ReturnInv ==
  /\ prog.ret # NoType => ret = prog.ret
  /\ /\ prog.ret = NoType /\ ~prog.calleeFirst
     /\ pc \in {"register", "body", "call", "fixed", "rest", "groups"}
     => ret = NoType
  /\ ret = NoType /\ pc \notin {"register", "body", "crashed"} =>
       prog.ret = NoType /\ (~prog.calleeFirst \/ prog.body = << >> \/ ~prog.defined)

\* The call is checked against a signature that exists.
SignatureInv ==
  /\ pc \in {"fixed", "rest", "groups"} => prog.name # "len" /\ (FnSymbol \/ prog.name \in BuiltinNames)
  /\ pc = "fixed" /\ ~VariadicBuiltin => Len(Wanted) <= Argc

\* The call was accepted, or a variadic builtin is called without an argument.
Accepted ==
  \/ FnSymbol /\ ret # NoType /\ call_type = ret
  \/ /\ FnSymbol /\ call_type = Unknown /\ prog.ret = NoType
     /\ ~prog.calleeFirst \/ prog.body = << >>
  \/ ~FnSymbol /\ call_type = lookup(prog.name).ret
  \/ VariadicBuiltin /\ Argc = 0
AcceptInv == errors = {} /\ prog.name # "len" /\ Behind => Accepted

NothingIsPassed ==
  ~FnSymbol /\ Argc = 0 => call_args = << >> /\ packed_varargs = << >> /\ args = << >>

Compiled ==
  {"codegen", "emit", "call.cast", "called", "constant", "bad signature", "no function", "no type"}
OwnPrototype == prog.defined /\ prog.linkage # "sibling"
CalleeInv ==
  /\ pc \in Compiled => errors = {}
  /\ pc \notin Compiled \ {"codegen"} => callee = NoCallee
  /\ pc = "emit" => callee = IF OwnPrototype THEN get_or_create_prototype ELSE NoCallee
  /\ pc \in {"call.cast", "called"} =>
       /\ OwnPrototype => callee = get_or_create_prototype
       /\ ~OwnPrototype /\ prog.name \in BuiltinNames => callee = builtin_prototype
       /\ ~OwnPrototype /\ prog.name \notin BuiltinNames =>
            FnSymbol /\ callee = get_or_create_symbol_prototype
  /\ pc = "called" => Len(callee.params) <= Len(args)

\* What every step but those of the callee's body does to its return type.
LEMMA ReturnTypeStays ==
  ASSUME [Next]_vars, ~handle_fn
  PROVE  prog' = prog /\ ret' = ret
BY DEF Next, Compile, Finished, vars, checkVars, SemanticPass, register_global_var_and_fn, call_len,
       call, check_fixed, fixed_end, check_rest, check_group, groups_end, generate,
       distribute_lowered_arg, lower_end, emit_varargs_to_call, check_err,
       pre_declare_all_user_functions, emit_args, emit_call

LEMMA TypedStays ==
  ASSUME NEW e, NEW t, t # NoType
  PROVE  check_expr(e, t, NoType) # NoType
<1>1. NoType.base = "null" /\ ~is_numeric(NoType)
  BY DEF NoType, Scalar, is_numeric, Numeric, Signed, Floats
<1>2. check_expr(e, t, NoType) = handle_num(e, t, NoType)
  BY <1>1 DEF check_expr, force_numeric_type
<1>3. Scalar("F32") # NoType /\ Scalar("I32") # NoType
  BY DEF Scalar, NoType
<1>4. CASE e.literal = "none" \/ t.base # "UNKNOWN"
  BY <1>2, <1>4 DEF handle_num
<1>5. CASE ~(e.literal = "none" \/ t.base # "UNKNOWN")
  BY <1>1, <1>2, <1>3, <1>5 DEF handle_num
<1> QED
  BY <1>4, <1>5

\* Where a step behind the registration leads.
LEMMA PcSteps ==
  ASSUME [Next]_vars
  PROVE  \/ pc' = pc
         \/ pc = "register" /\ pc' \in {"crashed", AfterRegister} /\ register_global_var_and_fn
         \/ pc = "body" /\ pc' = AfterBody /\ handle_fn
         \/ pc = "call" /\ pc' \in {AfterCall, "fixed"} /\ (call_len \/ call)
         \/ pc = "fixed" /\ pc' \in {AfterCall, "rest", "groups"} /\ (check_fixed \/ fixed_end)
         \/ pc \in {"rest", "groups"} /\ pc' = AfterCall /\ (check_rest \/ check_group \/ groups_end)
         \/ pc \in {"HIRGen"} \cup Lowered /\ pc' \in Lowered /\ ~SemanticPass
<1>1. CASE UNCHANGED vars
  <2>1. pc' = pc
    BY <1>1 DEF vars
  <2> QED
    BY <2>1
<1>2. CASE SemanticPass
  <2>1. register_global_var_and_fn => pc = "register" /\ pc' \in {"crashed", AfterRegister}
    BY DEF register_global_var_and_fn
  <2>2. handle_fn => pc = "body" /\ pc' = AfterBody
    BY DEF handle_fn
  <2>3. call_len => pc = "call" /\ pc' = AfterCall
    BY DEF call_len, Give_up
  <2>4. call => pc = "call" /\ pc' \in {AfterCall, "fixed"}
    BY DEF call, Give_up
  <2>5. check_fixed => pc = "fixed" /\ pc' \in {AfterCall, pc}
    BY DEF check_fixed, Checked, Give_up
  <2>6. fixed_end => pc = "fixed" /\ pc' \in {AfterCall, "rest", "groups"}
    BY DEF fixed_end, Accept
  <2>7. check_rest => pc = "rest" /\ pc' \in {AfterCall, pc}
    BY DEF check_rest, Checked, Give_up, Accept
  <2>8. check_group => pc = "groups" /\ pc' \in {AfterCall, pc}
    BY DEF check_group, Checked, Give_up
  <2>9. groups_end => pc = "groups" /\ pc' = AfterCall
    BY DEF groups_end, Give_up, Accept
  <2> QED
    BY <1>2, <2>1, <2>2, <2>3, <2>4, <2>5, <2>6, <2>7, <2>8, <2>9 DEF SemanticPass
<1>3. CASE ~SemanticPass /\ ~UNCHANGED vars
  <2>1. /\ pc \in {"HIRGen", "lower", "varargs", "check_err", "codegen", "emit", "call.cast"}
        /\ pc' \in {"lower", "varargs", "check_err", "codegen", "rejected", "emit", "no type",
                    "constant", "call.cast", "no function", "called", "bad signature"} \cup {pc}
        /\ pc = "HIRGen" => pc' = "lower"
    BY <1>3 DEF Next, Compile, Finished, generate, distribute_lowered_arg, lower_end,
                emit_varargs_to_call, check_err, pre_declare_all_user_functions, emit_args, emit_call
  <2> QED
    BY <1>3, <2>1 DEF Lowered, Checking, PCs, Ended
<1> QED
  BY <1>1, <1>2, <1>3

LEMMA ReturnStep ==
  ASSUME TypesInv, ReturnInv, [Next]_vars
  PROVE  ReturnInv'
<1>1. CASE ~handle_fn
  <2>1. prog' = prog /\ ret' = ret
    BY <1>1, ReturnTypeStays
  <2>2. /\ \/ pc' = pc
           \/ pc = "register" /\ pc' \in {"crashed", AfterRegister}
           \/ pc \in {"call", "fixed", "rest", "groups"}
                /\ pc' \in {AfterCall, "fixed", "rest", "groups"}
           \/ pc \in {"HIRGen"} \cup Lowered /\ pc' \in Lowered
    BY <1>1, PcSteps
  <2>3. /\ AfterRegister \in {"body", "call"} /\ AfterCall \in {"body", "HIRGen"}
        /\ AfterRegister = "call" => ~prog.calleeFirst \/ ~prog.defined
    BY DEF AfterRegister, AfterCall
  <2>4. prog.ret # NoType => ret = prog.ret
    BY DEF ReturnInv
  <2> QED
    BY <2>1, <2>2, <2>3, <2>4 DEF ReturnInv, Lowered, Checking
<1>2. CASE handle_fn
  <2>1. prog' = prog /\ pc = "body" /\ pc' = IF prog.calleeFirst THEN "call" ELSE "HIRGen"
    BY <1>2 DEF handle_fn, AfterBody
  <2>2. CASE prog.ret # NoType
    <3>1. ret' = ret /\ ret = prog.ret
      BY <1>2, <2>2 DEF handle_fn, ReturnInv
    <3> QED
      BY <2>1, <2>2, <3>1 DEF ReturnInv
  <2>3. CASE prog.ret = NoType
    <3>1. CASE prog.body = << >>
      BY <2>1, <2>3, <3>1 DEF ReturnInv
    <3>2. CASE prog.body # << >>
      <4>1. ret' = check_expr(prog.body[1], prog.body[1].type, NoType)
        BY <1>2, <2>3, <3>2 DEF handle_fn
      <4>2. prog.body[1].type # NoType
        BY <3>2, ProgFacts DEF TypesInv
      <4>3. ret' # NoType
        BY <4>1, <4>2, TypedStays
      <4> QED
        BY <2>1, <2>3, <4>3 DEF ReturnInv
    <3> QED
      BY <3>1, <3>2
  <2> QED
    BY <2>2, <2>3
<1> QED
  BY <1>1, <1>2

LEMMA ProgStays ==
  ASSUME [Next]_vars
  PROVE  /\ prog' = prog /\ Argc' = Argc /\ FnSymbol' = FnSymbol /\ VariadicBuiltin' = VariadicBuiltin
         /\ VariadicUser' = VariadicUser /\ Wanted' = Wanted /\ OwnPrototype' = OwnPrototype
<1>1. prog' = prog
  BY ReturnTypeStays DEF handle_fn
<1> QED
  BY <1>1 DEF Argc, FnSymbol, VariadicBuiltin, VariadicUser, Wanted, OwnPrototype

LEMMA SignatureStep ==
  ASSUME TypesInv, SignatureInv, [Next]_vars
  PROVE  SignatureInv'
<1>1. CASE pc = "call" /\ pc' = "fixed"
  <2>1. call
    BY <1>1, PcSteps DEF AfterCall, call_len, Give_up, Lowered, Checking
  <2>2. prog.name # "len" /\ (FnSymbol \/ prog.name \in BuiltinNames)
    BY <1>1, <2>1 DEF call, Give_up, AfterCall
  <2>3. ~VariadicBuiltin => ~(IF VariadicUser THEN Argc < Len(Wanted) ELSE Argc # Len(Wanted))
    BY <1>1, <2>1, <2>2 DEF call, Give_up, AfterCall
  <2>4. Argc \in Nat /\ Len(Wanted) \in Nat
    BY CheckingFacts, WantedType
  <2>5. ~VariadicBuiltin => Len(Wanted) <= Argc
    BY <2>3, <2>4
  <2> QED
    BY <1>1, <2>2, <2>5, ProgStays DEF SignatureInv
<1>2. CASE ~(pc = "call" /\ pc' = "fixed")
  <2>1. pc' \in {"fixed", "rest", "groups"} =>
          pc \in {"fixed", "rest", "groups"} /\ (pc' = "fixed" => pc = "fixed")
    BY <1>2, PcSteps DEF AfterRegister, AfterBody, AfterCall, Lowered, Checking
  <2> QED
    BY <2>1, ProgStays DEF SignatureInv
<1> QED
  BY <1>1, <1>2

LEMMA AcceptStep ==
  ASSUME TypesInv, ReturnInv, SignatureInv, AcceptInv, [Next]_vars
  PROVE  AcceptInv'
<1> SUFFICES ASSUME errors' = {}, prog'.name # "len", Behind'
             PROVE  Accepted'
  BY DEF AcceptInv
<1>1. /\ prog' = prog /\ Argc' = Argc /\ FnSymbol' = FnSymbol /\ VariadicBuiltin' = VariadicBuiltin
      /\ VariadicUser' = VariadicUser
  BY ProgStays
<1>2. CASE handle_fn
  <2>1. /\ pc = "body" /\ call_type' = call_type /\ errors = {} /\ pc' = AfterBody
    BY <1>2 DEF handle_fn, Error
  <2>2. ~prog.calleeFirst
    BY <1>1, <2>1 DEF AfterBody, Behind, Lowered, Checking
  <2>3. Accepted
    BY <1>1, <2>1, <2>2 DEF AcceptInv, Behind
  <2>4. prog.ret # NoType => ret' = ret
    BY <1>2 DEF handle_fn
  <2>5. prog.ret = NoType => ret = NoType
    BY <2>1, <2>2 DEF ReturnInv
  <2> QED
    BY <1>1, <2>1, <2>3, <2>4, <2>5 DEF Accepted
<1>3. CASE ~SemanticPass
  <2>1. call_type' = call_type /\ ret' = ret /\ errors' = errors
    BY <1>3 DEF Next, Compile, Finished, vars, checkVars, generate, distribute_lowered_arg, lower_end,
                emit_varargs_to_call, check_err, pre_declare_all_user_functions, emit_args, emit_call
  <2>2. pc' = pc \/ pc \in {"HIRGen"} \cup Lowered
    BY <1>3, PcSteps DEF SemanticPass
  <2>3. Behind
    BY <1>1, <2>2 DEF Behind
  <2> QED
    BY <1>1, <2>1, <2>3 DEF AcceptInv, Accepted
<1>4. ASSUME Accept, pc \in {"fixed", "rest", "groups"}, ret' = ret
      PROVE  Accepted'
  <2>1. call_type' = LET t == IF FnSymbol THEN ret ELSE lookup(prog.name).ret IN
                     IF t = NoType THEN Unknown ELSE t
    BY <1>4 DEF Accept
  <2>2. CASE FnSymbol /\ ret # NoType
    BY <1>1, <1>4, <2>1, <2>2 DEF Accepted
  <2>3. CASE FnSymbol /\ ret = NoType
    <3>1. prog.ret = NoType /\ (~prog.calleeFirst \/ prog.body = << >>)
      BY <1>4, <2>3 DEF ReturnInv, FnSymbol
    <3> QED
      BY <1>1, <2>1, <2>3, <3>1 DEF Accepted
  <2>4. CASE ~FnSymbol
    <3>1. lookup(prog.name).ret # NoType
      BY <1>4, <2>4, LookupType DEF SignatureInv
    <3> QED
      BY <1>1, <2>1, <2>4, <3>1 DEF Accepted
  <2> QED
    BY <2>2, <2>3, <2>4
<1>5. CASE SemanticPass /\ ~handle_fn
  <2>1. ret' = ret
    BY <1>5, ReturnTypeStays
  <2>2. pc' = "HIRGen" \/ (pc' = "body" /\ ~prog.calleeFirst) \/ pc' \in Lowered
    BY <1>1 DEF Behind
  <2>3. pc' \notin {"call", "fixed", "rest", "groups", "crashed"}
    BY <2>2 DEF Lowered, Checking
  <2>4. ~register_global_var_and_fn
    BY <2>2, <2>3 DEF register_global_var_and_fn, AfterRegister, Lowered, Checking
  <2>5. ~call_len /\ ~call
    BY <1>1, <2>3 DEF call_len, call, Error
  <2>6. CASE check_fixed
    <3>1. pc = "fixed" /\ i <= Len(Wanted)
      BY <2>6 DEF check_fixed
    <3>2. i > Argc
      BY <2>3, <2>6, <3>1 DEF check_fixed, Checked, Error
    <3>3. i \in Nat \ {0} /\ Argc \in Nat /\ Len(Wanted) \in Nat
      BY CheckingFacts, WantedType
    <3>4. VariadicBuiltin
      BY <3>1, <3>2, <3>3 DEF SignatureInv
    <3>5. Len(Wanted) = 1
      BY <3>4, CheckingFacts, WantedType
    <3>6. Argc = 0
      BY <3>1, <3>2, <3>3, <3>5
    <3> QED
      BY <1>1, <3>4, <3>6 DEF Accepted
  <2>7. CASE fixed_end
    <3>1. Accept /\ pc = "fixed"
      BY <2>3, <2>7 DEF fixed_end
    <3> QED
      BY <1>4, <2>1, <3>1
  <2>8. CASE check_rest
    <3>1. Accept /\ pc = "rest"
      BY <2>3, <2>8 DEF check_rest, Checked, Error
    <3> QED
      BY <1>4, <2>1, <3>1
  <2>9. ~check_group
    BY <2>3 DEF check_group, Checked, Error
  <2>10. CASE groups_end
    <3>1. Accept /\ pc = "groups"
      BY <2>10 DEF groups_end, Error
    <3> QED
      BY <1>4, <2>1, <3>1
  <2> QED
    BY <1>5, <2>4, <2>5, <2>6, <2>7, <2>8, <2>9, <2>10 DEF SemanticPass
<1> QED
  BY <1>2, <1>3, <1>5

LEMMA NothingStep ==
  ASSUME TypesInv, NothingIsPassed, [Next]_vars
  PROVE  NothingIsPassed'
<1> SUFFICES ASSUME ~FnSymbol, Argc = 0
             PROVE  call_args' = << >> /\ packed_varargs' = << >> /\ args' = << >>
  BY ProgStays DEF NothingIsPassed
<1>1. call_args = << >> /\ packed_varargs = << >> /\ args = << >>
  BY DEF NothingIsPassed
<1>2. CASE \/ SemanticPass /\ UNCHANGED <<hirVars, args, callee>>
           \/ generate \/ lower_end \/ check_err \/ pre_declare_all_user_functions \/ UNCHANGED vars
  BY <1>1, <1>2 DEF hirVars, vars, generate, lower_end, check_err, pre_declare_all_user_functions
<1>3. ~distribute_lowered_arg
  BY LoweringNumbers DEF distribute_lowered_arg
<1>4. CASE emit_varargs_to_call
  <2>1. ~VariadicUser
    BY DEF VariadicUser
  <2>2. call_args' = << >> \o << >>
    BY <1>1, <1>4, <2>1 DEF emit_varargs_to_call
  <2> QED
    BY <1>1, <1>4, <2>2 DEF emit_varargs_to_call
<1>5. CASE emit_args
  <2> DEFINE ss == [n \in 1 .. Len(call_args) |-> Unpacked(call_args[n])]
  <2>1. ss = << >>
    BY <1>1
  <2>2. args' = FlattenSeq(ss)
    BY <1>5 DEF emit_args
  <2>3. args' = << >>
    BY <2>1, <2>2 DEF FlattenSeq
  <2> QED
    BY <1>1, <1>5, <2>3 DEF emit_args, hirVars
<1>6. CASE emit_call
  <2> DEFINE cast(v) == IF v <= Len(callee.params)
                        THEN [args[v] EXCEPT !.type = Cast(@, callee.params[v])] ELSE args[v]
  <2>1. args' = [v \in 1 .. Len(args) |-> cast(v)] /\ UNCHANGED hirVars
    BY <1>6 DEF emit_call
  <2> HIDE DEF cast
  <2>2. args' = << >>
    BY <1>1, <2>1
  <2> QED
    BY <1>1, <2>1, <2>2 DEF hirVars
<1> QED
  BY <1>2, <1>3, <1>4, <1>5, <1>6 DEF Next, Compile, Finished

LEMMA CalleeStep ==
  ASSUME TypesInv, CalleeInv, [Next]_vars
  PROVE  CalleeInv'
<1>1. prog' = prog /\ OwnPrototype' = OwnPrototype /\ FnSymbol' = FnSymbol
  BY ProgStays
<1>2. get_or_create_prototype # NoCallee
  <2>1. \A f \in Prototypes : f.ret \in IrTypes
    BY DEF Prototypes
  <2>2. NoCallee.ret \notin IrTypes
    BY DEF NoCallee, IrTypes
  <2> QED
    BY <2>1, <2>2, PrototypeTypes
<1>3. CASE SemanticPass /\ UNCHANGED <<hirVars, args, callee>>
  <2>1. pc \notin Lowered /\ pc' \notin Lowered
    BY <1>3 DEF SemanticPass, register_global_var_and_fn, handle_fn, call_len, call, check_fixed,
                fixed_end, check_rest, check_group, groups_end, Checked, Give_up, Accept,
                AfterRegister, AfterBody, AfterCall, Lowered, Checking
  <2>2. pc \notin Compiled /\ pc' \notin Compiled
    BY <2>1 DEF Compiled, Lowered, Checking, PCs, Ended
  <2>3. callee' = NoCallee
    BY <1>3, <2>2 DEF CalleeInv
  <2> QED
    BY <2>2, <2>3 DEF CalleeInv, Compiled
<1>4. CASE \/ UNCHANGED vars
           \/ generate \/ distribute_lowered_arg \/ lower_end \/ emit_varargs_to_call \/ check_err
           \/ pre_declare_all_user_functions \/ emit_args \/ emit_call
  <2>1. ret' = ret /\ errors' = errors
    BY <1>4 DEF vars, checkVars, generate, distribute_lowered_arg, lower_end, emit_varargs_to_call,
                check_err, pre_declare_all_user_functions, emit_args, emit_call
  <2>2. /\ get_or_create_prototype' = get_or_create_prototype
        /\ get_or_create_symbol_prototype' = get_or_create_symbol_prototype
        /\ builtin_prototype' = builtin_prototype
    BY <1>1, <2>1 DEF get_or_create_prototype, get_or_create_symbol_prototype, builtin_prototype
  <2>3. CASE UNCHANGED vars
    <3>1. pc' = pc /\ callee' = callee /\ args' = args
      BY <2>3 DEF vars
    <3> QED
      BY <1>1, <2>1, <2>2, <3>1 DEF CalleeInv
  <2>4. CASE generate \/ distribute_lowered_arg \/ lower_end \/ emit_varargs_to_call \/ check_err
    <3>1. /\ callee' = callee /\ pc \notin Compiled
          /\ pc' \notin Compiled \/ (pc' = "codegen" /\ errors = {})
      BY <2>4 DEF generate, distribute_lowered_arg, lower_end, emit_varargs_to_call, check_err, Compiled
    <3>2. callee = NoCallee
      BY <3>1 DEF CalleeInv
    <3> QED
      BY <2>1, <3>1, <3>2 DEF CalleeInv, Compiled
  <2>5. CASE pre_declare_all_user_functions
    <3>1. pc = "codegen"
      BY <2>5 DEF pre_declare_all_user_functions
    <3>2. callee = NoCallee /\ errors = {}
      BY <3>1 DEF CalleeInv, Compiled
    <3>3. CASE ~OwnPrototype
      <4>1. pc' = "emit" /\ callee' = callee
        BY <2>5, <3>3 DEF pre_declare_all_user_functions, OwnPrototype
      <4> QED
        BY <1>1, <2>1, <3>2, <3>3, <4>1 DEF CalleeInv, Compiled
    <3>4. CASE OwnPrototype
      <4>1. pc' = "no type" \/ (pc' = "emit" /\ callee' = get_or_create_prototype)
        <5>1. CASE NullType
          BY <2>5, <3>4, <5>1 DEF pre_declare_all_user_functions, OwnPrototype
        <5>2. CASE ~NullType
          BY <2>5, <3>4, <5>2 DEF pre_declare_all_user_functions, OwnPrototype
        <5> QED
          BY <5>1, <5>2
      <4> QED
        BY <1>1, <2>1, <2>2, <3>2, <3>4, <4>1 DEF CalleeInv, Compiled
    <3> QED
      BY <3>3, <3>4
  <2>6. CASE emit_args
    <3>1. pc = "emit" /\ errors = {} /\ callee = IF OwnPrototype THEN get_or_create_prototype ELSE NoCallee
      BY <2>6 DEF emit_args, CalleeInv, Compiled
    <3>2. pc' \in {"constant", "call.cast", "no function", "no type"}
      BY <2>6 DEF emit_args
    <3>3. CASE pc' # "call.cast"
      BY <1>1, <2>1, <3>1, <3>2, <3>3 DEF CalleeInv, Compiled
    <3>4. CASE pc' = "call.cast"
      <4>1. \/ callee # NoCallee /\ callee' = callee
            \/ callee = NoCallee /\ prog.name \in BuiltinNames /\ callee' = builtin_prototype
            \/ /\ callee = NoCallee /\ prog.name \notin BuiltinNames /\ FnSymbol
               /\ callee' = get_or_create_symbol_prototype
        BY <2>6, <3>4 DEF emit_args
      <4>2. OwnPrototype => callee' = get_or_create_prototype
        BY <1>2, <3>1, <4>1
      <4>3. ~OwnPrototype => callee = NoCallee
        BY <3>1
      <4> QED
        BY <1>1, <2>1, <2>2, <3>1, <3>4, <4>1, <4>2, <4>3 DEF CalleeInv, Compiled
    <3> QED
      BY <3>3, <3>4
  <2>7. CASE emit_call
    <3> DEFINE cast(v) == IF v <= Len(callee.params)
                          THEN [args[v] EXCEPT !.type = Cast(@, callee.params[v])] ELSE args[v]
    <3>1. /\ pc = "call.cast" /\ callee' = callee /\ pc' \in {"called", "bad signature"}
          /\ args' = [v \in 1 .. Len(args) |-> cast(v)]
          /\ pc' = "called" => IF callee.vararg THEN Len(args) >= Len(callee.params)
                               ELSE Len(args) = Len(callee.params)
      BY <2>7 DEF emit_call
    <3> HIDE DEF cast
    <3>2. Len(args) \in Nat
      <4>1. args \in Seq([node : HIRNodes, type : IrTypes, intact : BOOLEAN])
        BY LoweringFacts
      <4> QED
        BY <4>1
    <3>3. Len(callee.params) \in Nat
      <4>1. callee \in Prototypes \cup {NoCallee}
        BY LoweringFacts
      <4>2. NoCallee.params = << >>
        BY DEF NoCallee
      <4>3. \A f \in Prototypes : f.params \in Seq(IrTypes)
        BY DEF Prototypes
      <4> QED
        BY <4>1, <4>2, <4>3
    <3>4. Len(args') = Len(args)
      <4> DEFINE cs == [v \in 1 .. Len(args) |-> cast(v)]
      <4>1. cs = [v \in 1 .. Len(args) |-> cs[v]]
        OBVIOUS
      <4> HIDE DEF cs
      <4>2. Len(cs) = Len(args)
        BY <3>2, <4>1
      <4> QED
        BY <3>1, <4>2 DEF cs
    <3>5. pc' = "called" => Len(callee.params) <= Len(args)
      BY <3>1, <3>2, <3>3
    <3>6. errors = {}
      BY <3>1 DEF CalleeInv, Compiled
    <3>7. pc' # "emit" /\ pc' \in Compiled \ {"codegen"}
      BY <3>1 DEF Compiled
    <3> QED
      BY <1>1, <2>1, <2>2, <3>1, <3>4, <3>5, <3>6, <3>7 DEF CalleeInv
  <2> QED
    BY <1>4, <2>3, <2>4, <2>5, <2>6, <2>7
<1> QED
  BY <1>3, <1>4 DEF Next, Compile, Finished

CallInv == ReturnInv /\ SignatureInv /\ AcceptInv /\ NothingIsPassed /\ CalleeInv

LEMMA InitCall ==
  ASSUME Init
  PROVE  CallInv
<1>1. /\ pc = "register" /\ ret = prog.ret /\ errors = {} /\ call_args = << >> /\ packed_varargs = << >>
      /\ args = << >> /\ callee = NoCallee
  BY DEF Init, CheckInit
<1>2. ReturnInv /\ SignatureInv /\ NothingIsPassed
  BY <1>1 DEF ReturnInv, SignatureInv, NothingIsPassed
<1>3. AcceptInv
  BY <1>1 DEF AcceptInv, Behind, Lowered, Checking
<1>4. CalleeInv
  BY <1>1 DEF CalleeInv, Compiled
<1> QED
  BY <1>2, <1>3, <1>4 DEF CallInv

\* CallBinding reads the registry as the compiler does.
LEMMA SameRegistry ==
  /\ B!Shadowed <=> FnSymbol /\ (VariadicBuiltin \/ prog.name = "len")
  /\ B!TakenForBuiltin <=> FnSymbol /\ prog.linkage = "sibling" /\ prog.name \in BuiltinNames
<1>1. B!BuiltinNames = BuiltinNames
  BY DEF B!BuiltinNames, BuiltinNames
<1>2. B!lookup(prog.name) = lookup(prog.name)
  BY <1>1 DEF B!lookup, lookup, B!bootstrap, bootstrap, B!NoBuiltin, NoBuiltin, B!Fixed, Fixed, B!Scalar,
              Scalar, B!PtrTo, PtrTo, B!NoType, NoType, B!Unknown, Unknown
<1>3. B!is_variadic_builtin(prog.name) <=> VariadicBuiltin
  BY <1>2 DEF B!is_variadic_builtin, is_variadic_builtin, B!OpenEnded, OpenEnded, VariadicBuiltin
<1> QED
  BY <1>1, <1>3 DEF B!Shadowed, B!TakenForBuiltin, FnSymbol

\* Whatever is called: the type an accepted call has for its caller is that of the value
\* LLVM's call returns, if the function that was checked is the one that is called, and
\* its return type is declared or was known when the call was checked.
THEOREM CallsHaveTheirTypes == Spec => []CallHasItsType
<1>1. Init => TypesInv /\ CallInv
  BY InitTypes, InitCall
<1>2. (TypesInv /\ CallInv) /\ [Next]_vars => (TypesInv /\ CallInv)'
  BY TypesStep, ReturnStep, SignatureStep, AcceptStep, NothingStep, CalleeStep DEF CallInv
<1>3. TypesInv /\ CallInv => CallHasItsType
  <2> SUFFICES ASSUME TypesInv, CallInv, pc = "called", ~B!Shadowed, ~B!TakenForBuiltin
               PROVE  \/ ir_type(call_type) = callee.ret
                      \/ /\ call_type = Unknown /\ prog.ret = NoType
                         /\ ~prog.calleeFirst \/ prog.body = << >>
    BY DEF CallHasItsType
  <2>1. ~(FnSymbol /\ (VariadicBuiltin \/ prog.name = "len"))
        /\ ~(FnSymbol /\ prog.linkage = "sibling" /\ prog.name \in BuiltinNames)
    BY SameRegistry
  <2>2. errors = {} /\ Behind
    BY LoweringFacts DEF CallInv, CalleeInv, Compiled, Behind
  <2>3. prog.name # "len"
    BY <2>1 DEF CallInv, CalleeInv, BuiltinNames, OwnPrototype, FnSymbol
  <2>4. Accepted
    BY <2>2, <2>3 DEF CallInv, AcceptInv
  <2>5. CASE FnSymbol
    <3>1. callee = get_or_create_prototype \/ callee = get_or_create_symbol_prototype
      BY <2>1, <2>5 DEF CallInv, CalleeInv, OwnPrototype, FnSymbol
    <3>2. ret # NoType => callee.ret = ir_type(ret)
      BY <3>1 DEF get_or_create_prototype, get_or_create_symbol_prototype
    <3> QED
      BY <2>1, <2>4, <2>5, <3>2 DEF Accepted
  <2>6. CASE ~FnSymbol
    <3>1. callee = builtin_prototype
      BY <2>6 DEF CallInv, CalleeInv, OwnPrototype, FnSymbol
    <3>2. callee.ret = ir_type(lookup(prog.name).ret)
      BY <3>1 DEF builtin_prototype
    <3>3. ~(VariadicBuiltin /\ Argc = 0)
      <4>1. SUFFICES ASSUME VariadicBuiltin, Argc = 0
                     PROVE  FALSE
        OBVIOUS
      <4>2. count_fixed_builtin_params(prog.name) = 1
        BY <4>1, LookupType DEF VariadicBuiltin
      <4>3. Len(callee.params) = 1
        BY <3>1, <4>2 DEF builtin_prototype
      <4>4. args = << >> /\ Len(callee.params) <= Len(args)
        BY <2>6, <4>1 DEF CallInv, NothingIsPassed, CalleeInv
      <4> QED
        BY <4>3, <4>4
    <3> QED
      BY <2>4, <2>6, <3>2, <3>3 DEF Accepted
  <2> QED
    BY <2>5, <2>6
<1> QED
  BY <1>1, <1>2, <1>3, PTL DEF Spec

=============================================================================
