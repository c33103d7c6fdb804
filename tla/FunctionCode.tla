----------------------------- MODULE FunctionCode -----------------------------
(***************************************************************************)
(* A checked function as basic blocks, and their execution.  Codegen walks *)
(* the body once and emits at the insertion point; what comes while the    *)
(* block there is terminated is passed over.  HIRGen keeps the order of    *)
(* statements and the shape of if, while, break and return.                *)
(***************************************************************************)
EXTENDS ReturnChecking

VARIABLES
  code,       \* the blocks made so far, by their names: instructions and terminator
  insert,     \* the insertion block, or the block that runs
  loopStack,  \* the loops that are being emitted
  i           \* the instruction that runs next

vars == <<prog, pc, p, calls, checkVars, code, insert, loopStack, i>>

\* The blocks of the construct at q.
Block(q, part) == <<q, part>>
entry == Block(0, "entry")
then(q) == Block(q, "then")
else(q) == Block(q, "else")
ifcont(q) == Block(q, "ifcont")
cond(q) == Block(q, "while.cond")
body(q) == Block(q, "while.body")
expr(q) == Block(q, "while.expr")
after(q) == Block(q, "while.end")
Names == (0 .. Len(Body)) \X
  {"entry", "then", "else", "ifcont", "while.cond", "while.body", "while.expr", "while.end"}

\* Terminators.  q is the statement they were emitted for; the bottom for the fallback.
NoTerminator == [op |-> "none", q |-> 0, to |-> << >>]
Br(block) == [op |-> "br", q |-> 0, to |-> <<block>>]
CondBr(q, yes, no) == [op |-> "condbr", q |-> q, to |-> <<yes, no>>]
Ret(q) == [op |-> "ret", q |-> q, to |-> << >>]
NewBlock == [insts |-> << >>, term |-> NoTerminator]

Compiling == {"check", "codegen", "verify"}
Refused == {"rejected", "crashed", "aborted", "invalid"}

Init ==
  /\ CheckInit
  /\ code = [b \in {entry} |-> NewBlock]
  /\ insert = entry
  /\ loopStack = << >>
  /\ i = 1

-----------------------------------------------------------------------------
(* Codegen *)

blockTerminated == code[insert].term # NoTerminator

\* Mutant: a terminated block is not looked for.
AtStatement_always(k) == pc = "codegen" /\ AtToken /\ Token.k = k

\* emit_expr returns at once if the block is terminated.
AtStatement(k) == pc = "codegen" /\ AtToken /\ Token.k = k /\ ~blockTerminated
AtPart(k) == pc = "codegen" /\ AtToken /\ Token.k = k
Semantic == UNCHANGED checkVars

Terminate(blocks, b, t) == [blocks EXCEPT ![b].term = t]
TerminateOpen(blocks, b, t) == IF blocks[b].term = NoTerminator THEN Terminate(blocks, b, t) ELSE blocks
WithBlocks(names) ==
  [b \in DOMAIN code \cup names |-> IF b \in DOMAIN code THEN code[b] ELSE NewBlock]

\* Mutant: passed over in place.
skip_in_place ==
  /\ pc = "codegen" /\ AtToken /\ blockTerminated /\ Token.k \notin {"else", "end"}
  /\ UNCHANGED vars

skip ==
  /\ pc = "codegen" /\ AtToken /\ blockTerminated /\ Token.k \notin {"else", "end"}
  /\ p' = Behind(Body, p)
  /\ UNCHANGED <<prog, pc, calls, code, insert, loopStack, i>> /\ Semantic

emit_statement ==
  /\ AtStatement("do") /\ Forward
  /\ code' = [code EXCEPT ![insert].insts = Append(@, p)]
  /\ UNCHANGED <<calls, insert, loopStack, i>> /\ Semantic

emit_return ==
  /\ AtStatement("ret") /\ Forward
  /\ code' = Terminate(code, insert, Ret(p))
  /\ UNCHANGED <<calls, insert, loopStack, i>> /\ Semantic

emit_jump ==
  LET loop == loopStack[Len(loopStack)] IN
  /\ AtStatement("break") \/ AtStatement("continue")
  /\ Forward
  /\ code' = IF loopStack = << >> THEN code
             ELSE Terminate(code, insert, Br(IF Token.k = "break" THEN after(loop) ELSE expr(loop)))
  /\ UNCHANGED <<calls, insert, loopStack, i>> /\ Semantic

\* Mutant: the block of the else is not inserted.
emit_if_no_else ==
  LET no == IF Else(Body, p) # 0 THEN else(p) ELSE ifcont(p) IN
  /\ AtStatement("if") /\ Forward /\ Enter
  /\ code' = Terminate(WithBlocks({then(p), ifcont(p)}), insert, CondBr(p, then(p), no))
  /\ insert' = then(p)
  /\ UNCHANGED <<loopStack, i>> /\ Semantic

emit_if ==
  LET no == IF Else(Body, p) # 0 THEN else(p) ELSE ifcont(p) IN
  /\ AtStatement("if") /\ Forward /\ Enter
  /\ code' = Terminate(WithBlocks({then(p), no, ifcont(p)}), insert, CondBr(p, then(p), no))
  /\ insert' = then(p)
  /\ UNCHANGED <<loopStack, i>> /\ Semantic

Running == calls[Len(calls)]

emit_else ==
  /\ AtPart("else") /\ Forward
  /\ code' = TerminateOpen(code, insert, Br(ifcont(Running)))
  /\ insert' = else(Running)
  /\ UNCHANGED <<calls, loopStack, i>> /\ Semantic

emit_if_end ==
  /\ AtPart("end") /\ Caller = "if" /\ Forward /\ Leave
  /\ code' = TerminateOpen(code, insert, Br(ifcont(Running)))
  /\ insert' = ifcont(Running)
  /\ UNCHANGED <<loopStack, i>> /\ Semantic

emit_whileloop ==
  /\ AtStatement("while") /\ Forward /\ Enter
  /\ code' = Terminate(
               Terminate(WithBlocks({cond(p), body(p), expr(p), after(p)}), insert, Br(cond(p))),
               cond(p), CondBr(p, body(p), after(p)))
  /\ insert' = body(p)
  /\ loopStack' = Append(loopStack, p)
  /\ UNCHANGED i /\ Semantic

\* Mutant: the end of the body is the end of the loop.
emit_while_end_once ==
  /\ AtPart("end") /\ Caller = "while" /\ Forward /\ Leave
  /\ code' = TerminateOpen(code, insert, Br(after(Running)))
  /\ insert' = after(Running)
  /\ loopStack' = SubSeq(loopStack, 1, Len(loopStack) - 1)
  /\ UNCHANGED i /\ Semantic

emit_while_end ==
  /\ AtPart("end") /\ Caller = "while" /\ Forward /\ Leave
  /\ code' = Terminate(TerminateOpen(code, insert, Br(expr(Running))), expr(Running), Br(cond(Running)))
  /\ insert' = after(Running)
  /\ loopStack' = SubSeq(loopStack, 1, Len(loopStack) - 1)
  /\ UNCHANGED i /\ Semantic

\* get_or_create_prototype: void for a function that is still undeclared.
ReturnType == ir_type(IF type = NoType THEN Scalar("VOID") ELSE type)

\* The fallback return is void, or an integer's zero: ConstantInt::get takes no other
\* type.
emit_function ==
  /\ pc = "codegen" /\ ~AtToken
  /\ IF blockTerminated \/ IrKind(ReturnType) \in {"void", "integer"}
     THEN /\ code' = TerminateOpen(code, insert, Ret(Bottom(Body)))
          /\ pc' = "verify"
     ELSE pc' = "aborted" /\ UNCHANGED code
  /\ UNCHANGED <<prog, p, calls, insert, loopStack, i>> /\ Semantic

\* The type that was left on the value.
ValueType(q) == ir_type(Typed(Body[q].value, prog.ret))
Valid(b) ==
  LET t == code[b].term IN
  t.op = "ret" /\ t.q # Bottom(Body) /\ Body[t.q].value # NoValue => ValueType(t.q) = ReturnType

\* LLVM's verdict; what it does not take is not compiled by clang++ either.
verifyModule ==
  /\ pc = "verify"
  /\ IF \A b \in DOMAIN code : code[b].term # NoTerminator /\ Valid(b)
     THEN pc' = "run" /\ insert' = entry /\ i' = 1
     ELSE pc' = "invalid" /\ UNCHANGED <<insert, i>>
  /\ UNCHANGED <<prog, p, calls, code, loopStack>> /\ Semantic

Compile ==
  \/ SemanticPass /\ UNCHANGED <<code, insert, loopStack, i>>
  \/ skip \/ emit_statement \/ emit_return \/ emit_jump \/ emit_if \/ emit_else \/ emit_if_end
  \/ emit_whileloop \/ emit_while_end \/ emit_function \/ verifyModule

-----------------------------------------------------------------------------
(* The program that was compiled *)

Compiled == <<prog, p, calls, checkVars, code, loopStack>>
term == code[insert].term
AtTerminator == pc = "run" /\ i > Len(code[insert].insts)

execute ==
  /\ pc = "run" /\ i <= Len(code[insert].insts)
  /\ i' = i + 1
  /\ UNCHANGED <<Compiled, pc, insert>>

Enters(k) == insert' = term.to[k] /\ i' = 1 /\ UNCHANGED <<Compiled, pc>>

branch == AtTerminator /\ term.op = "br" /\ Enters(1)

conditional_branch ==
  /\ AtTerminator /\ term.op = "condbr"
  /\ \/ Body[term.q].cond # "false" /\ Enters(1)
     \/ Body[term.q].cond # "true" /\ Enters(2)

return ==
  /\ AtTerminator /\ term.op = "ret"
  /\ pc' = "returned"
  /\ UNCHANGED <<Compiled, insert, i>>

Run == execute \/ branch \/ conditional_branch \/ return

Finished == pc \in Refused \cup {"returned"} /\ UNCHANGED vars
Next == Compile \/ Run \/ Finished

Spec == Init /\ [][Next]_vars
\* The compiler is one process that does not wait.
FairSpec == Spec /\ WF_vars(Compile)

-----------------------------------------------------------------------------
(* Properties *)

TypeOK ==
  /\ prog \in Functions
  /\ pc \in Compiling \cup Refused \cup {"run", "returned"}
  /\ p \in 1 .. Bottom(Body)
  /\ calls \in Seq(1 .. Len(Body)) /\ loopStack \in Seq(1 .. Len(Body))
  /\ errors \subseteq {"SEM_BREAK_OUTSIDE_LOOP", "SEM_RETURN_TYPE_MISMATCH"}
  /\ type \in Types /\ fn_name \in BOOLEAN /\ g_in_loop \in Nat
  /\ DOMAIN code \subseteq Names /\ insert \in DOMAIN code
  /\ i \in 1 .. Len(code[insert].insts) + 1

\* A block that is closed stays as it is: nothing is emitted behind a return or a jump,
\* and no terminator is replaced (blockTerminated is tested by hand in seven places).
ClosedBlocksStay ==
  [][\A b \in DOMAIN code :
       code[b].term # NoTerminator => b \in DOMAIN code' /\ code'[b] = code[b]]_vars

\* All blocks of a function are closed when it has been emitted, those included that
\* nothing leads to, and what they lead to exists; only the types of what is returned
\* are left for the verifier to complain of.
EveryBlockCloses ==
  pc \in {"verify", "run", "returned"} =>
    \A b \in DOMAIN code :
      /\ code[b].term # NoTerminator
      /\ \A k \in 1 .. Len(code[b].term.to) : code[b].term.to[k] \in DOMAIN code

\* Where execution is in the source: at the next instruction or condition.
Position ==
  LET reach[b \in DOMAIN code] ==
        IF code[b].term.op = "br" /\ code[b].insts = << >> THEN reach[code[b].term.to[1]]
        ELSE IF code[b].insts # << >> THEN code[b].insts[1] ELSE code[b].term.q
  IN IF ~AtTerminator /\ pc = "run" THEN code[insert].insts[i]
     ELSE IF term.op = "br" THEN reach[term.to[1]] ELSE term.q

Stage ==
  CASE pc \in Compiling -> "text" [] pc = "run" -> "running" [] pc = "aborted" -> "broken"
    [] pc = "invalid" -> "broken" [] OTHER -> pc
Promise ==
  INSTANCE FunctionPromise
    WITH stage <- Stage, at <- IF pc \in {"run", "returned"} THEN Position ELSE 0

\* A function is rejected for a reason, or runs as its text says and ends at a return
\* statement if it has a result, or is one of the misjudged.
ImplementsPromise == Promise!Spec

\* The compiler comes to an end with every function.
Termination == <>(pc \notin Compiling)

=============================================================================
