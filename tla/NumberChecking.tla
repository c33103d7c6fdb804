---------------------------- MODULE NumberChecking ----------------------------
(***************************************************************************)
(* The semantic pass over the assignments of a program.  The type that is  *)
(* assigned to is the hint that literals are typed by, however deep they   *)
(* stand; operations are typed by their operands.                          *)
(***************************************************************************)
EXTENDS Numerals

VARIABLES
  prog,    \* the values of y and z, and the assignments; never changes
  pc,      \* what is running
  errors,  \* the codes of the errors reported
  stmt,    \* the assignment that is handled
  node,    \* the node of its expression whose turn it is
  types,   \* types[s][k]: the type of node k of assignment s
  checked, \* checked[k]: the type that checking node k returned
  symbol   \* the type that x is declared with, UNKNOWN before

checkVars == <<types, checked, symbol>>

Stmts == 1 .. Len(prog.stmts)
Nodes(s) == prog.stmts[s].nodes
This == Nodes(stmt)[node]
Root == Len(Nodes(stmt))
TypeOf(name) == IF name = "x" THEN symbol ELSE prog[name].type
Left == checked[This.l]
Right == checked[This.r]

CheckInit ==
  /\ prog \in Programs
  /\ pc = "assign" /\ errors = {}
  /\ stmt = 1 /\ node = 1
  /\ types = [s \in Stmts |-> [k \in 1 .. Len(Nodes(s)) |-> UNKNOWN]]
  /\ checked = << >>
  /\ symbol = UNKNOWN

Error(code) == errors' = errors \cup {code}
Test(ok, code) == IF ok THEN UNCHANGED errors ELSE Error(code)

\* The hint: a declaration's own type, or the type of x.
lhs_t == IF stmt = 1 THEN prog.stmts[1].type ELSE symbol

\* Literals, and operations whose type is not known, take a numeric hint at once.
force_numeric_type(k) ==
  IF is_numeric(lhs_t) /\ Nodes(stmt)[k].kind # "var" THEN lhs_t ELSE UNKNOWN

resolve_target_type ==
  /\ pc = "assign"
  /\ pc' = "check"
  /\ types' = [types EXCEPT ![stmt] = [k \in 1 .. Root |-> force_numeric_type(k)]]
  /\ node' = 1 /\ checked' = << >>
  /\ UNCHANGED <<prog, errors, stmt, symbol>>

\* Node is given type t, and returns type r.
Typed(t, r) ==
  /\ types' = [types EXCEPT ![stmt][node] = t]
  /\ checked' = Append(checked, r)
  /\ node' = node + 1
  /\ UNCHANGED <<prog, pc, stmt, symbol>>

FloatPromotion(a, b) ==
  LET floats == {t \in {a, b} : is_float(t)} IN
  IF \E t \in floats : t.class = "float" THEN FloatOf(Largest(floats)) ELSE UFloatOf(Largest(floats))

\* Mutant: the wider type, whatever its class.
promote_wider(a, b) == IF a.size >= b.size THEN a ELSE b

\* Unsigned as soon as one is, and then as large as the unsigned ones.
promote(a, b) ==
  LET unsigned == {t \in {a, b} : t.class = "unsigned"}
      signed == {t \in {a, b} : t.class = "signed"} IN
  IF is_float(a) \/ is_float(b) THEN FloatPromotion(a, b)
  ELSE IF unsigned # {} THEN UnsignedOf(Largest(unsigned)) ELSE SignedOf(Largest(signed))

Check(kind) == pc = "check" /\ node <= Root /\ This.kind = kind

handle_num ==
  /\ Check("num")
  /\ LET t == IF is_numeric(lhs_t) THEN lhs_t ELSE IF This.dot THEN F32 ELSE I32 IN Typed(t, t)
  /\ UNCHANGED errors

check_var ==
  /\ Check("var")
  /\ Typed(TypeOf(This.name), TypeOf(This.name))
  /\ UNCHANGED errors

\* An operation that was forced to a type keeps it, but returns its operand's.
unop ==
  /\ Check("unop")
  /\ IF This.op = "OP_NOT" THEN Typed(BOOL, BOOL) /\ Test(Left = BOOL, "type_error")
     ELSE /\ Typed(IF types[stmt][node] = UNKNOWN THEN Left ELSE types[stmt][node], Left)
          /\ Test(is_numeric(Left) /\ (This.op = "OP_BITNOT" => is_integer(Left)), "SEM_UNARY_NEEDS_NUM")

\* Mutant: truth values cannot be compared.
binop_compare_numbers ==
  /\ Check("binop") /\ This.op \in Comparisons
  /\ Typed(BOOL, BOOL)
  /\ Test(is_numeric(Left) /\ is_numeric(Right), "SEM_CMP_NEEDS_NUM")

binop_compare ==
  /\ Check("binop") /\ This.op \in Comparisons
  /\ Typed(BOOL, BOOL)
  /\ Test(\/ is_numeric(Left) /\ is_numeric(Right)
          \/ This.op \in {"OP_EQ", "OP_NEQ"} /\ Left = Right, "SEM_CMP_NEEDS_NUM")

binop_logic ==
  /\ Check("binop") /\ This.op \in Logic
  /\ Typed(BOOL, BOOL)
  /\ Test(Left = BOOL /\ Right = BOOL, "SEM_LOGIC_NEEDS_BOOL")

binop_arithmetic ==
  /\ Check("binop") /\ This.op \in Arithmetic
  /\ LET t == promote(Left, Right) IN Typed(t, t)
  /\ Test(/\ is_numeric(Left) /\ is_numeric(Right)
          /\ This.op \in BitwiseOps => is_integer(Left) /\ is_integer(Right), "SEM_NUMOP_NEEDS_NUM")

\* Mutant: one more than the largest number fits.
literal_fits_one_more(e, t) ==
  CASE is_integer(t) -> ~e.dot /\ Wrap(e.halves \div 2 - 1, t) = e.halves \div 2 - 1
    [] t.class = "float" -> e.dot
    [] OTHER -> FALSE

\* is_i8 to is_u128: an integer literal within the limits of t.
in_range(e, t) == ~e.dot /\ Wrap(e.halves \div 2, t) = e.halves \div 2

\* literal_fits_type of a lone literal: an integer in range, or a literal with a point;
\* nothing fits an unsigned floating-point type.  (The limits of F32 and F64 are far
\* beyond the numbers here, and left out.)
literal_fits_type(e, t) ==
  CASE is_integer(t) -> in_range(e, t)
    [] t.class = "float" -> e.dot
    [] OTHER -> FALSE

\* Only a lone literal is looked at, and only in a declaration.
process_declaration ==
  /\ pc = "check" /\ node > Root /\ stmt = 1
  /\ symbol' = IF lhs_t = UNKNOWN THEN checked[Root] ELSE lhs_t
  /\ LET e == Nodes(1)[Root] IN
     /\ errors' = errors
          \cup (IF /\ e.kind = "num" /\ is_numeric(symbol')
                   /\ ~literal_fits_type(e, symbol')
                THEN {"SEM_NUMERIC_LITERAL_OVERFLOW"} ELSE {})
          \cup (IF checked[Root] = symbol' \/ (is_numeric(checked[Root]) /\ is_numeric(symbol'))
                THEN {} ELSE {"SEM_ASSIGN_TYPE_MISMATCH"})
     /\ types' = IF e.kind = "num" THEN [types EXCEPT ![1][Root] = symbol'] ELSE types
  /\ pc' = IF Len(prog.stmts) > 1 THEN "assign" ELSE "HIRGen"
  /\ stmt' = IF Len(prog.stmts) > 1 THEN 2 ELSE 1
  /\ UNCHANGED <<prog, node, checked>>

validate_assignment ==
  /\ pc = "check" /\ node > Root /\ stmt = 2
  /\ Test(checked[Root] = symbol \/ (is_numeric(checked[Root]) /\ is_numeric(symbol)),
          "SEM_ASSIGN_TYPE_MISMATCH")
  /\ pc' = "HIRGen"
  /\ UNCHANGED <<prog, stmt, node, checkVars>>

SemanticPass ==
  \/ resolve_target_type \/ handle_num \/ check_var \/ unop \/ binop_compare \/ binop_logic
  \/ binop_arithmetic \/ process_declaration \/ validate_assignment

=============================================================================
