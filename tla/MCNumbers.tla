------------------------------ MODULE MCNumbers ------------------------------
(* Instances of NumberCode for TLC. *)
EXTENDS NumberCode

MCBits == <<2, 3, 4, 5, 6>>

\* The limits of a type, and numbers next to zero.
Held(t) ==
  LET half == Modulus(t) \div 2 IN
  CASE t.class = "signed" -> {-half, -1, 1, half - 1}
    [] t.class = "unsigned" -> {1, half, Modulus(t) - 1}
    [] is_float(t) -> {-3, 1}
    [] OTHER -> {0, 1}
Holds(ts) == UNION {{[type |-> t, n |-> n] : n \in Held(t)} : t \in ts}
One == [type |-> I32, n |-> 1]

Assignment(type, op, nodes) == [type |-> type, op |-> op, nodes |-> nodes]
Let(type, nodes) == Assignment(type, "OP_ASSIGN", nodes)
Ops == Arithmetic \cup Comparisons \cup Logic
Y == Var("y")
Z == Var("z")

\* Literals at the limits of every type, and with a point.
LoneLiterals ==
  {<<Let(t, <<Num(halves, dot)>>)>> :
     t \in {UNKNOWN, BOOL, I8, I32, I64, I128, U8, U32, U64, U128, F32, F128, UFloatOf(3)},
     dot \in BOOLEAN, halves \in {0, 1, 2} \cup {2 * (2 ^ k + d) : k \in 1 .. 6, d \in {-1, 0}}}

\* Copies, and operations with one operand, or two.
Single ==
  {<<Let(t, <<Y>>)>> : t \in {UNKNOWN, BOOL, I8, I64, U32, U128, F32, F128}}
  \cup {<<Let(t, <<Y, Unop(op, 1)>>)>> : t \in {UNKNOWN, BOOL, I8, I64, U32, U128, F32, F128}, op \in Unary}
  \cup {<<Let(UNKNOWN, <<Y, Z, Binop(op, 1, 2)>>)>> : op \in Ops}

\* With a literal, which takes the type of x.
WithLiteral ==
  {<<Let(t, <<Y, Num(halves, FALSE), Binop(op, 1, 2)>>)>> :
     op \in Ops, t \in {I64, U128, F32}, halves \in {0, 4, 30}}

\* Several operations.
Nested ==
  {<<Let(t, <<Y, Unop(first, 1), Z, Binop(op, 2, 3)>>)>> :
     op \in {"OP_ADD", "OP_DIV", "OP_LT", "OP_AND"}, t \in {UNKNOWN, I64, U32}, first \in Unary}
  \cup {<<Let(UNKNOWN, <<Y, Z, Binop(one, 1, 2), Y, Z, Binop(two, 4, 5), Binop(op, 3, 6)>>)>> :
          one \in {"OP_LT", "OP_EQ"}, two \in {"OP_GE", "OP_BITXOR"}, op \in {"OP_OR", "OP_EQ", "OP_LT"}}

\* x is assigned once more, from y or from itself.
Updates ==
  {<<Let(t, <<Z>>), Assignment(UNKNOWN, op, <<leaf>>)>> :
     t \in {UNKNOWN, I64, U32}, op \in AssignOps, leaf \in {Var("x"), Y, Num(6, FALSE), Num(7, TRUE)}}

\* Variables that are read hold many values in a short program and few in a long one, and
\* only numbers are assigned twice.
Reads(p, name) == \E s \in DOMAIN p.stmts : \E k \in DOMAIN p.stmts[s].nodes : p.stmts[s].nodes[k].name = name
Long(p) == Len(p.stmts) = 2 \/ Len(p.stmts[1].nodes) > 3
Chosen(p) ==
  /\ p.y = One \/ Reads(p, "y")
  /\ p.z = One \/ Reads(p, "z")
  /\ Long(p) => {p.y.type, p.z.type} \subseteq {BOOL, I32, I64, U32, F32}
  /\ Len(p.stmts) = 2 => BOOL \notin {p.y.type, p.z.type}

AllPrograms ==
  {p \in [y : Holds({BOOL, I32, I64, I128, U8, U32, U64, U128, F32, F128, UFloatOf(4)}),
          z : Holds({BOOL, I32, I64, U32, U64, F32}),
          stmts : LoneLiterals \cup Single \cup WithLiteral \cup Nested \cup Updates] : Chosen(p)}
MCPrograms == AllPrograms

\* Sums of signed integers.
Sums ==
  [y : Holds({I32, I64, I128}), z : Holds({I32, I64, I128}),
   stmts : {<<Let(t, <<Y, Z, Binop("OP_ADD", 1, 2)>>)>> : t \in {UNKNOWN, I64}}]

=============================================================================
