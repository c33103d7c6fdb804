------------------------------ MODULE NumberTypes ------------------------------
(***************************************************************************)
(* The types that a program with numbers means: those of its literals, its *)
(* operations, and of x.  No order of evaluation, and no errors.           *)
(***************************************************************************)
EXTENDS Numerals

Compound(p, s) == p.stmts[s].op # "OP_ASSIGN"

\* The type of node e, where nodes have the types ty; a literal is of the type `hint' if that
\* is numeric.
NodeType(p, e, ty, hint, xtype) ==
  CASE e.kind = "num" -> IF is_numeric(hint) THEN hint ELSE IF e.dot THEN F32 ELSE I32
    [] e.kind = "var" -> IF e.name = "x" THEN xtype ELSE p[e.name].type
    [] e.kind = "unop" -> IF e.op = "OP_NOT" THEN BOOL ELSE ty[e.l]
    [] e.kind = "binop" -> IF e.op \in Arithmetic THEN Promoted(ty[e.l], ty[e.r]) ELSE BOOL
TypesOf(p, nodes, hint, xtype) ==
  LET ty[k \in 1 .. Len(nodes)] == NodeType(p, nodes[k], ty, hint, xtype) IN ty

\* x op= e is x = x op e.
Expanded(p, s) ==
  LET nodes == p.stmts[s].nodes
      root == Len(nodes) IN
  IF Compound(p, s) THEN nodes \o <<Var("x"), Binop(p.stmts[s].op, root + 1, root)>> ELSE nodes

XType(p) ==
  LET declared == p.stmts[1].type
      nodes == p.stmts[1].nodes IN
  IF declared = UNKNOWN THEN TypesOf(p, nodes, UNKNOWN, UNKNOWN)[Len(nodes)] ELSE declared
\* What a literal of an assignment is typed by.
Assigned(p, s) == IF s = 1 THEN p.stmts[1].type ELSE XType(p)
Types(p, s) == TypesOf(p, Expanded(p, s), Assigned(p, s), XType(p))

-----------------------------------------------------------------------------
(* What is well typed *)

NodeIsTyped(e, ty) ==
  e.kind \in {"unop", "binop"} =>
    CASE e.op = "OP_NOT" -> ty[e.l] = BOOL
      [] e.op = "OP_BITNOT" -> is_integer(ty[e.l])
      [] e.op \in {"OP_NEG", "OP_POS", "OP_INC", "OP_DEC"} -> is_numeric(ty[e.l])
      [] e.op \in Logic -> ty[e.l] = BOOL /\ ty[e.r] = BOOL
      [] e.op \in BitwiseOps -> is_integer(ty[e.l]) /\ is_integer(ty[e.r])
      [] e.op \in Arithmetic \ BitwiseOps -> is_numeric(ty[e.l]) /\ is_numeric(ty[e.r])
      [] e.op \in Comparisons ->
           \/ is_numeric(ty[e.l]) /\ is_numeric(ty[e.r])
           \/ e.op \in {"OP_EQ", "OP_NEQ"} /\ ty[e.l] = ty[e.r]

WellTyped(p) ==
  \A s \in 1 .. Len(p.stmts) :
    LET nodes == p.stmts[s].nodes
        ty == Types(p, s) IN
    /\ \A k \in 1 .. Len(nodes) : NodeIsTyped(nodes[k], ty)
    /\ ty[Len(nodes)] = XType(p) \/ (is_numeric(ty[Len(nodes)]) /\ is_numeric(XType(p)))

\* A type holds a literal; no literal is of an unsigned floating-point type.
LiteralFits(e, t) ==
  IF is_integer(t) THEN ~e.dot /\ Wrap(e.halves \div 2, t) = e.halves \div 2
  ELSE t.class = "float" /\ e.dot
LiteralsFit(p) ==
  \A s \in 1 .. Len(p.stmts) :
    LET nodes == p.stmts[s].nodes IN
    \A k \in 1 .. Len(nodes) : nodes[k].kind = "num" => LiteralFits(nodes[k], Types(p, s)[k])

=============================================================================
