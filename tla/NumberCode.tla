------------------------------ MODULE NumberCode ------------------------------
(***************************************************************************)
(* The assignments of a checked program, compiled or interpreted.  What is *)
(* compiled is run as it is emitted: it has no branches.  An LLVM value    *)
(* has bits without a sign, and the type that it was made with; nothing is *)
(* converted.  The interpreter's values are a union: what is read from it  *)
(* depends on the type it is read by.                                      *)
(***************************************************************************)
EXTENDS NumberChecking, NumberTypes, Arithmetics, FiniteSets

VARIABLES
  path,    \* "compiled" or "interpreted", "none" before
  values,  \* the values of the nodes so far, of the assignment that is handled
  mem,     \* what x, y and z hold
  faults,  \* what the compiled program suffers from
  outcome  \* [verdict, x, y]

codeVars == <<values, mem, faults>>
vars == <<prog, pc, errors, stmt, node, checkVars, path, codeVars, outcome>>

Open == [verdict |-> "open", x |-> 0, y |-> 0]
Smaller(a, b) == IF a <= b THEN a ELSE b

\* A literal as strtoll and strtoull read it, and SA_parse_i128.
Parsed(e, t) ==
  LET n == e.halves \div 2
      longest == 2 ^ (Bits[4] - IF t.class = "signed" THEN 1 ELSE 0) - 1 IN
  CASE is_float(t) -> e.halves
    [] ~is_float(t) /\ t.size = 5 -> n
    [] OTHER -> Smaller(n, longest)

-----------------------------------------------------------------------------
(* LLVM values *)

Ir(t) == [size |-> t.size, float |-> is_float(t)]
\* A value: bits, or halves.
Known(n, ir) == [ir |-> ir, known |-> TRUE, n |-> n]
Unknown(ir) == [ir |-> ir, known |-> FALSE, n |-> 0]
nullptr == Unknown([size |-> 0, float |-> TRUE])

ValueOf(n, t) == Known(IF is_float(t) THEN n ELSE Pattern(n, t), Ir(t))
\* The value read with the sign that t has.
Read(v, t) == IF v.ir.float THEN v.n ELSE Wrap(v.n, [class |-> t.class, size |-> v.ir.size])

InitCode ==
  /\ path = "none" /\ values = << >> /\ faults = {} /\ outcome = Open
  /\ mem = [x |-> Unknown(Ir(UNKNOWN)), y |-> ValueOf(prog.y.n, prog.y.type), z |-> ValueOf(prog.z.n, prog.z.type)]

Init == CheckInit /\ InitCode

\* A literal of 128 bits goes through 64.
emit_number(e, t) ==
  LET n == Parsed(e, t) IN
  ValueOf(IF t.size = 5 /\ ~is_float(t) THEN Wrap(n, [t EXCEPT !.size = 4]) ELSE n, t)

\* What an instruction of node type t makes of L and R.
Instruction(op, t, L, R) ==
  LET s == [class |-> IF is_unsigned_numeric(t) THEN "unsigned" ELSE "signed", size |-> L.ir.size]
      l == Read(L, s)
      r == Read(R, s) IN
  IF ~L.known \/ ~R.known
    THEN Unknown(IF op \in Comparisons THEN Ir(BOOL) ELSE L.ir)
  ELSE IF op \in Comparisons THEN Known(Truth(Compare(op, l, r)), Ir(BOOL))
  ELSE IF Undefined(op, l, r, IF L.ir.float THEN t ELSE s) THEN Unknown(L.ir)
  ELSE IF L.ir.float THEN Known(Apply(op, l, r, t), L.ir)
  ELSE Known(Pattern(Apply(op, l, r, s), s), L.ir)

\* What is wrong with an instruction: LLVM wants operands of one type, and the right one.
BinopFaults(op, t, L, R) ==
  IF nullptr \in {L, R} THEN {}
  ELSE IF op = "OP_POW" /\ is_float(t) THEN {"crash"}
  ELSE IF op \in Logic \cup {"OP_POW"} THEN {}
  ELSE IF L.ir # R.ir \/ L.ir.float # is_float(t) \/ (is_float(t) /\ op \in BitwiseOps) THEN {"invalid"}
  ELSE {}

BinopValue(op, t, L, R) ==
  IF nullptr \in {L, R} \/ op \in Logic \cup {"OP_POW"} THEN nullptr
  ELSE IF BinopFaults(op, t, L, R) # {} THEN Unknown(IF op \in Comparisons THEN Ir(BOOL) ELSE L.ir)
  ELSE Instruction(op, t, L, R)

-----------------------------------------------------------------------------
(* From the tree to LLVM *)

check_err ==
  /\ pc \in {"HIRGen", "codegen"} /\ errors # {}
  /\ pc' = "stopped"
  /\ outcome' = [Open EXCEPT !.verdict = "rejected"]
  /\ UNCHANGED <<prog, errors, stmt, node, checkVars, path, codeVars>>

\* HIRGen reads the literals.
generate ==
  /\ pc = "HIRGen" /\ errors = {}
  /\ path' = "compiled" /\ pc' = "codegen"
  /\ Test(\A s \in Stmts : \A k \in DOMAIN types[s] :
            Nodes(s)[k].dot => types[s][k] \notin {I128, U128}, "RT_NUM_LITERAL_UNSUPPORTED")
  /\ stmt' = 1 /\ node' = 1
  /\ UNCHANGED <<prog, checkVars, codeVars, outcome>>

Running == faults \cap {"crash", "died"} = {}
This_type == types[stmt][node]
L_value == values[This.l]
R_value == values[This.r]

\* The storage of x has the type of what it is initialised with.
get_or_create_alloca ==
  /\ pc = "codegen" /\ errors = {}
  /\ pc' = "emit"
  /\ node' = 1 /\ values' = << >>
  /\ mem' = IF stmt = 1 THEN [mem EXCEPT !.x = Unknown(Ir(types[1][Root]))] ELSE mem
  /\ UNCHANGED <<prog, errors, stmt, checkVars, path, faults, outcome>>

Emit(kind) == pc = "emit" /\ Running /\ node <= Root /\ This.kind = kind
Push(v) ==
  /\ values' = Append(values, v)
  /\ node' = node + 1
  /\ UNCHANGED <<prog, pc, errors, stmt, checkVars, path, outcome>>

emit_literal ==
  /\ Emit("num")
  /\ Push(emit_number(This, This_type))
  /\ UNCHANGED <<mem, faults>>

Load ==
  /\ Emit("var")
  /\ Push(mem[This.name])
  /\ UNCHANGED <<mem, faults>>

emit_binop ==
  /\ Emit("binop")
  /\ Push(BinopValue(This.op, This_type, L_value, R_value))
  /\ faults' = faults \cup BinopFaults(This.op, This_type, L_value, R_value)
  /\ UNCHANGED mem

Negated(v) == IF v.ir.float THEN [v EXCEPT !.n = -v.n] ELSE [v EXCEPT !.n = (-v.n) % Modulus(v.ir)]

emit_unop ==
  /\ Emit("unop") /\ (This.op \in {"OP_INC", "OP_DEC"} => L_value = nullptr)
  /\ CASE This.op = "OP_NEG" /\ L_value # nullptr -> Push(Negated(L_value))
       [] This.op = "OP_NOT" /\ L_value # nullptr -> Push([L_value EXCEPT !.n = 1 - L_value.n])
       [] OTHER -> Push(L_value)
  /\ faults' = faults \cup (IF /\ This.op = "OP_NEG" /\ L_value # nullptr
                              /\ L_value.ir.float # is_float(This_type)
                           THEN {"invalid"} ELSE {})
  /\ UNCHANGED mem

\* The variable is loaded and stored by the type of the node, and its old value returned.
num_inc_OR_dec ==
  /\ Emit("unop") /\ This.op \in {"OP_INC", "OP_DEC"} /\ L_value # nullptr
  /\ LET name == Nodes(stmt)[This.l].name
         old == IF mem[name].ir = Ir(This_type) THEN mem[name] ELSE Unknown(Ir(This_type))
         new == [old EXCEPT !.n = (IF This.op = "OP_INC" THEN old.n + 1 ELSE old.n - 1) % Modulus(This_type)] IN
     /\ Push(old)
     /\ mem' = [mem EXCEPT ![name] = IF new.ir = @.ir THEN new ELSE Unknown(@.ir)]
     /\ faults' = faults \cup (IF is_float(This_type) THEN {"crash"}
                               ELSE IF This_type.size > mem[name].ir.size THEN {"overrun"} ELSE {})

\* x op= e is an operation of e's type.  What has no value is not stored.
emit_assing ==
  /\ pc = "emit" /\ Running /\ node > Root
  /\ LET t == types[stmt][Root]
         op == prog.stmts[stmt].op
         rhs == IF Compound(prog, stmt) THEN BinopValue(op, t, mem.x, values[Root]) ELSE values[Root] IN
     /\ mem' = CASE rhs = nullptr -> mem
                 [] rhs # nullptr /\ rhs.ir = mem.x.ir -> [mem EXCEPT !.x = rhs]
                 [] OTHER -> [mem EXCEPT !.x = Unknown(@.ir)]
     /\ faults' = faults
          \cup (IF Compound(prog, stmt) THEN BinopFaults(op, t, mem.x, values[Root]) ELSE {})
          \cup (IF rhs # nullptr /\ rhs.ir.size > mem.x.ir.size THEN {"overrun"} ELSE {})
  /\ pc' = IF stmt < Len(prog.stmts) THEN "codegen" ELSE "verify"
  /\ stmt' = IF stmt < Len(prog.stmts) THEN stmt + 1 ELSE stmt
  /\ UNCHANGED <<prog, errors, node, checkVars, path, values, outcome>>

-----------------------------------------------------------------------------
(* The interpreter *)

Readable(v, t) == v.known /\ IF is_float(t) THEN v.ir = Ir(t) ELSE ~v.ir.float

\* I64 is read as I32 here, and not at all as an unsigned integer.
SA_as_f128(v, t) == IF is_float(t) THEN v.n ELSE 2 * Wrap(v.n, IF t = I64 THEN I32 ELSE t)
SA_as_i128(v, t) == IF is_float(t) THEN Truncated(v.n) ELSE Wrap(v.n, t)
SA_as_u128(v, t) ==
  CASE is_float(t) -> Truncated(v.n)
    [] t = I64 -> 0
    [] OTHER -> Wrap(v.n, UnsignedOf(t.size))
SA_as(v, t) ==
  CASE is_float(t) -> SA_as_f128(v, t)
    [] t.class = "unsigned" -> SA_as_u128(v, t)
    [] OTHER -> SA_as_i128(v, t)

\* Mutant: the bits above the target's stay.
SA_from_wide(n, t) == Known(IF is_float(t) THEN n ELSE Pattern(n, I128), Ir(t))

SA_from(n, t) == Known(IF is_float(t) THEN n ELSE Pattern(n, t), Ir(t))

\* C leaves a negative number as an unsigned integer open.
SA_cast_typed(v, from, to) ==
  IF from = to THEN v
  ELSE IF ~Readable(v, from) \/ (to.class = "unsigned" /\ is_float(from) /\ v.n < 0) THEN Unknown(Ir(to))
  ELSE CASE to = BOOL -> SA_from(Truth(SA_as_f128(v, from) # 0), to)
         [] is_float(to) -> SA_from(SA_as_f128(v, from), to)
         [] to.class = "unsigned" -> SA_from(SA_as_u128(v, from), to)
         [] to.class = "signed" -> SA_from(SA_as_i128(v, from), to)

\* DIE.
Dies(op, t, a, b) ==
  /\ Readable(b, t)
  /\ LET y == SA_as(b, t) IN
     \/ op \in {"OP_DIV", "OP_MOD"} /\ y = 0 /\ (op = "OP_MOD" => ~is_float(t))
     \/ op = "OP_POW" /\ y < 0 /\ ~is_float(t)
     \/ op \in BitwiseOps /\ is_float(t)

\* Integers are computed with 128 bits.
SA_eval_binop_numeric(op, t, a, b) ==
  LET x == SA_as(a, t)
      y == SA_as(b, t)
      wide == [t EXCEPT !.size = 5] IN
  IF ~Readable(a, t) \/ ~Readable(b, t) \/ Dies(op, t, a, b) THEN Unknown(Ir(t))
  ELSE IF Undefined(op, x, y, wide) THEN Unknown(Ir(t))
  ELSE SA_from(Apply(op, x, y, wide), t)

\* As large as both, where I64 counts as I32, and beside an unsigned type not at all.
SA_promote_runtime(a, b) ==
  LET unsigned == {t \in {a, b} : t.class = "unsigned"}
      signed == {t \in {a, b} : t.class = "signed"} IN
  IF is_float(a) \/ is_float(b) THEN FloatPromotion(a, b)
  ELSE IF unsigned # {} THEN UnsignedOf(Largest(unsigned \cup (signed \ {I64})))
  ELSE SignedOf(Largest({IF t = I64 THEN I32 ELSE t : t \in signed}))

\* Both are read by the promoted type, whatever wrote them.
eval_bool(op, cmp_t, a, b) ==
  IF ~Readable(a, cmp_t) \/ ~Readable(b, cmp_t) THEN Unknown(Ir(BOOL))
  ELSE CASE op = "OP_AND" -> SA_from(a.n * b.n, BOOL)
         [] op = "OP_OR" -> SA_from(a.n + b.n - a.n * b.n, BOOL)
         [] OTHER -> SA_from(Truth(Compare(op, SA_as(a, cmp_t), SA_as(b, cmp_t))), BOOL)

\* ~ complements the whole union; ++ and -- compute in an int, but for the widest types.
do_unop_operation(op, t, v) ==
  LET n == SA_as(v, t)
      int == IF t = U128 \/ (is_float(t) /\ t.size = 5) THEN n
             ELSE IF is_float(t) THEN 2 * Truncated(n) ELSE Wrap(n, I32)
      one == IF is_float(t) THEN 2 ELSE 1 IN
  IF ~Readable(v, t) \/ (op = "OP_BITNOT" /\ is_float(t)) THEN Unknown(Ir(t))
  ELSE CASE op = "OP_NEG" -> SA_from(-n, t)
         [] op = "OP_POS" -> SA_from(n, t)
         [] op = "OP_INC" -> SA_from(int + one, t)
         [] op = "OP_DEC" -> SA_from(int - one, t)
         [] op = "OP_BITNOT" -> Known(Pattern(-v.n - 1, I128), Ir(t))
         [] op = "OP_NOT" -> SA_from(1 - n, t)

ast_eval_main ==
  /\ pc = "HIRGen" /\ errors = {}
  /\ path' = "interpreted" /\ pc' = "eval"
  /\ stmt' = 1 /\ node' = 1
  /\ UNCHANGED <<prog, errors, checkVars, codeVars, outcome>>

Eval(kind) == pc = "eval" /\ Running /\ node <= Root /\ This.kind = kind

\* A literal of 128 bits that does not parse has no type, which the next cast reads.
eval_num ==
  /\ Eval("num")
  /\ Push(SA_from(Parsed(This, This_type), This_type))
  /\ faults' = IF This.dot /\ This_type \in {I128, U128} THEN {"crash"} ELSE faults
  /\ UNCHANGED mem

SA_runtime_env_get ==
  /\ Eval("var")
  /\ Push(mem[This.name])
  /\ UNCHANGED <<mem, faults>>

eval_binop ==
  /\ Eval("binop")
  /\ LET left == types[stmt][This.l]
         right == types[stmt][This.r]
         l == SA_cast_typed(L_value, left, This_type)
         r == SA_cast_typed(R_value, right, This_type) IN
     IF This.op \in Logic
       THEN Push(eval_bool(This.op, BOOL, L_value, R_value)) /\ UNCHANGED faults
     ELSE IF This.op \in Comparisons
       THEN Push(eval_bool(This.op, SA_promote_runtime(left, right), L_value, R_value)) /\ UNCHANGED faults
     ELSE /\ Push(SA_eval_binop_numeric(This.op, This_type, l, r))
          /\ faults' = IF Dies(This.op, This_type, l, r) THEN {"died"} ELSE faults
  /\ UNCHANGED mem

eval_unop ==
  /\ Eval("unop")
  /\ Push(do_unop_operation(This.op, This_type, SA_cast_typed(L_value, types[stmt][This.l], This_type)))
  /\ faults' = IF This.op = "OP_BITNOT" /\ This_type = F128 THEN {"died"} ELSE faults
  /\ UNCHANGED mem

\* What is kept of a value.
assign_value(v) ==
  IF Readable(v, symbol) THEN SA_from(SA_as(v, symbol), symbol) ELSE Unknown(Ir(symbol))

Evaluated ==
  /\ pc = "eval" /\ Running /\ node > Root
  /\ pc' = IF stmt < Len(prog.stmts) THEN "eval" ELSE "verify"
  /\ stmt' = IF stmt < Len(prog.stmts) THEN stmt + 1 ELSE stmt
  /\ node' = IF stmt < Len(prog.stmts) THEN 1 ELSE node
  /\ values' = IF stmt < Len(prog.stmts) THEN << >> ELSE values
  /\ UNCHANGED <<prog, errors, checkVars, path, outcome>>

\* The value in the type of x.
rt == SA_cast_typed(values[Root], types[stmt][Root], symbol)

eval_declaration ==
  /\ Evaluated /\ stmt = 1
  /\ mem' = [mem EXCEPT !.x = assign_value(rt)]
  /\ UNCHANGED faults

\* x op= e is computed in the type of x, if that is not I64.
eval_assign ==
  /\ Evaluated /\ stmt = 2
  /\ LET op == prog.stmts[2].op IN
     IF ~Compound(prog, 2)
       THEN mem' = [mem EXCEPT !.x = assign_value(rt)] /\ UNCHANGED faults
     ELSE IF symbol = I64
       THEN faults' = faults \cup {"RT_ASSIGN_UNSUPPORTED"} /\ UNCHANGED mem
     ELSE /\ mem' = [mem EXCEPT !.x = assign_value(SA_eval_binop_numeric(op, symbol, mem.x, rt))]
          /\ faults' = IF Dies(op, symbol, mem.x, rt) THEN {"died"} ELSE faults

-----------------------------------------------------------------------------
(* Both *)

\* LLVM's verdict is printed only; the program ends, or a fault has ended it.
finish ==
  /\ pc \in {"emit", "eval", "verify"} /\ (Running => pc = "verify")
  /\ pc' = "stopped"
  /\ outcome' =
       IF faults = {} /\ mem.x.known /\ mem.x.ir = Ir(symbol) /\ mem.y.known
       THEN [verdict |-> "ran", x |-> Read(mem.x, symbol), y |-> Read(mem.y, prog.y.type)]
       ELSE [Open EXCEPT !.verdict = "astray"]
  /\ UNCHANGED <<prog, errors, stmt, node, checkVars, path, codeVars>>

Done == pc = "stopped" /\ UNCHANGED vars

Next ==
  \/ SemanticPass /\ UNCHANGED <<path, codeVars, outcome>>
  \/ check_err \/ generate \/ get_or_create_alloca \/ emit_literal \/ Load \/ emit_binop \/ emit_unop
  \/ num_inc_OR_dec \/ emit_assing
  \/ ast_eval_main \/ eval_num \/ SA_runtime_env_get \/ eval_binop \/ eval_unop \/ eval_declaration
  \/ eval_assign
  \/ finish \/ Done

Spec == Init /\ [][Next]_vars

-----------------------------------------------------------------------------
(* Properties *)

Irs == {Ir(t) : t \in DataTypes}
FitsIr(v) == v.ir \in Irs /\ (v.known /\ ~v.ir.float => v.n \in 0 .. Modulus(v.ir) - 1)

\* What variables hold fits their storage (SA_from_i128 and SA_from_u128, the width of an
\* LLVM type), nodes have data types, and a verdict is one of four.
TypeOK ==
  /\ pc \in {"assign", "check", "HIRGen", "codegen", "emit", "eval", "verify", "stopped"}
  /\ path \in {"none", "compiled", "interpreted"}
  /\ \A s \in Stmts : types[s] \in [1 .. Len(Nodes(s)) -> DataTypes]
  /\ symbol \in DataTypes
  /\ \A name \in Names : FitsIr(mem[name])
  /\ faults \subseteq {"crash", "invalid", "overrun", "died", "RT_ASSIGN_UNSUPPORTED"}
  /\ outcome.verdict \in {"open", "rejected", "ran", "astray"}

\* A program leaves the values it means in its variables, or is rejected because it is
\* ill-typed or has a number or an operation without meaning; what the code generator and
\* the interpreter get wrong besides is listed in NumberMeaning.
M == INSTANCE NumberMeaning WITH prog <- prog, path <- path, outcome <- outcome
ImplementsNumberMeaning == M!Spec

\* In a program without errors every node has the type it means, and so has x, whatever
\* literals were forced to on the way (force_numeric_type, promote); only an operation with
\* one operand keeps the type that is assigned to instead (unop).
Checked == pc \notin {"assign", "check"} /\ errors = {}
Keeps(s, k) == Nodes(s)[k].kind = "unop" /\ types[s][k] = Assigned(prog, s)
TypesAsMeant ==
  Checked =>
    /\ symbol = XType(prog)
    /\ \A s \in Stmts : \A k \in DOMAIN types[s] : types[s][k] = Types(prog, s)[k] \/ Keeps(s, k)

\* A program is accepted if, and only if, it is well typed; but literals that their type
\* does not hold are a reason to reject it as well, which only some of them are taken for.
AcceptsWellTyped ==
  /\ Checked => WellTyped(prog)
  /\ errors # {} => ~WellTyped(prog) \/ ~LiteralsFit(prog)

\* What README.md:16 promises: operands of different widths are promoted, and the compiler
\* never makes an instruction of both (emit_binop converts nothing).
WidthsArePromoted == path = "compiled" /\ pc = "stopped" => "invalid" \notin faults

=============================================================================
