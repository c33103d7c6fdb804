-------------------------- MODULE NameBindingProofs --------------------------
(***************************************************************************)
(* Proofs about NameBinding, for every set of programs and of names: the   *)
(* variables keep their types, the scopes of both passes are those of the  *)
(* handlers that are running, the semantic pass binds and judges names as  *)
(* the scope rules do, and codegen reaches the storage of what was bound.  *)
(***************************************************************************)
EXTENDS NameBinding, NestingProofs

-----------------------------------------------------------------------------
(* The innermost entry of a stack of scopes *)

Found(env, x, none) == {i \in DOMAIN env : env[i][x] # none}
Innermost(env, x, none) ==
  env[CHOOSE i \in Found(env, x, none) : \A j \in Found(env, x, none) : j <= i][x]
With(env, k, x, v) == [env EXCEPT ![k] = [@ EXCEPT ![x] = v]]
Stacks(T) == Seq([Names -> T])

\* What a lookup finds, in the semantic pass or in codegen, is an entry.
LEMMA InnermostEntry ==
  ASSUME NEW T, NEW none, NEW env \in Stacks(T), NEW x \in Names,
         Found(env, x, none) # {}
  PROVE  Innermost(env, x, none) \in T
<1> USE DEF Stacks
<1> DEFINE found == Found(env, x, none)
<1>1. Len(env) \in Nat /\ found \subseteq 1 .. Len(env)
  BY DEF Found
<1>2. \E i \in found : \A j \in found : j <= i
  BY <1>1, MaxExists
<1>3. (CHOOSE i \in found : \A j \in found : j <= i) \in found
  BY <1>2
<1>4. \A i \in 1 .. Len(env) : env[i] \in [Names -> T]
  OBVIOUS
<1> QED
  BY <1>1, <1>3, <1>4 DEF Innermost

\* A new entry in the scope at k, or none if there is no such scope.
LEMMA NewEntry ==
  ASSUME NEW T, NEW env \in Stacks(T), NEW k, NEW x \in Names, NEW v \in T
  PROVE  With(env, k, x, v) \in Stacks(T) /\ Len(With(env, k, x, v)) = Len(env)
<1> USE DEF Stacks
<1> DEFINE new == With(env, k, x, v)
<1>1. Len(env) \in Nat /\ DOMAIN env = 1 .. Len(env)
  OBVIOUS
<1>2. \A i \in 1 .. Len(env) : env[i] \in [Names -> T]
  OBVIOUS
<1>3. new = [i \in 1 .. Len(env) |-> IF i = k THEN [env[i] EXCEPT ![x] = v] ELSE env[i]]
  BY <1>1 DEF With
<1>4. \A i \in 1 .. Len(env) : (IF i = k THEN [env[i] EXCEPT ![x] = v] ELSE env[i]) \in [Names -> T]
  BY <1>2
<1>5. new \in [1 .. Len(env) -> [Names -> T]]
  BY <1>3, <1>4
<1> HIDE DEF new
<1>6. new \in Seq([Names -> T]) /\ Len(new) = Len(env)
  BY <1>1, <1>5, SeqDef
<1> QED
  BY <1>6 DEF new

-----------------------------------------------------------------------------
(* Programs *)

\* What the programs are assumed to be.
LEMMA ProgramFacts ==
  ASSUME NEW P \in Programs
  PROVE  /\ Len(P) \in Nat /\ Len(P) <= MaxLen /\ DOMAIN P = 1 .. Len(P)
         /\ Level(P, Len(P) + 1) = 0
         /\ \A p \in DOMAIN P :
              /\ p \in Positions /\ P[p] \in Tokens
              /\ P[p].rhs # NoRef => P[p].rhs.name \in Names /\ P[p].rhs.isglobal \in BOOLEAN
              /\ P[p].k \in {"var", "for", "param", "set", "step"} =>
                   P[p].lhs.name \in Names /\ P[p].lhs.isglobal \in BOOLEAN
<1>1. P \in Seq(Tokens) /\ Len(P) \in Positions /\ Level(P, Len(P) + 1) = 0 /\ MaxLen \in Nat
  BY ProgramConstants
<1>2. DOMAIN P = 1 .. Len(P) /\ Len(P) \in Nat /\ Len(P) <= MaxLen
  BY <1>1 DEF Positions
<1>3. ASSUME NEW p \in DOMAIN P
      PROVE  /\ p \in Positions /\ P[p] \in Tokens
             /\ P[p].rhs # NoRef => P[p].rhs.name \in Names /\ P[p].rhs.isglobal \in BOOLEAN
             /\ P[p].k \in {"var", "for", "param", "set", "step"} =>
                  P[p].lhs.name \in Names /\ P[p].lhs.isglobal \in BOOLEAN
  <2>1. P[p] \in Tokens /\ p \in Positions
    BY <1>1, <1>2 DEF Positions
  <2>2. P[p].k \in {"var", "for", "param", "set", "step"} => P[p].lhs # NoRef
    BY ProgramConstants
  <2> QED
    BY <2>1, <2>2 DEF Tokens, Refs
<1> QED
  BY <1>1, <1>2, <1>3

LEMMA ProgramClosed ==
  ASSUME NEW P \in Programs
  PROVE  Closed(P)
BY ProgramFacts, ProgramConstants DEF Closed

LEMMA BehindInProgram ==
  ASSUME NEW P \in Programs, NEW p \in DOMAIN P
  PROVE  /\ Behind(P, p) \in 1 .. Len(P) + 1
         /\ P[p].k # "end" => Level(P, Behind(P, p)) = Level(P, p)
BY ProgramClosed, LevelBehind

-----------------------------------------------------------------------------
(* The inductive invariant *)

\* The call stack is as deep as the token is nested; only the walk over the functions
\* is in a function, and in one at a time.
Shape ==
  /\ pc \in 1 .. Len(prog) + 1
  /\ phase \in Checking => locals = << >>
  /\ phase = "register" => calls = << >> /\ Len(scopes) = 1 /\ g_in_loop = 0
  /\ phase \in Checking \cup Emitting => Len(calls) = Level(prog, pc)
  /\ phase \in Emitting =>
       \A i \in DOMAIN calls : prog[calls[i]].k = "fn" => i = 1 /\ phase = "functions"

ScopeInv == TypeOK /\ ScopesMatchCalls /\ Shape

LEMMA InitInvariant == Init => ScopeInv
<1> SUFFICES ASSUME Init PROVE ScopeInv
  OBVIOUS
<1> USE DEF Init, SemanticInit
<1>1. MaxLen \in Nat /\ Len(prog) \in Positions /\ 0 \in Decls
  BY ProgramConstants DEF Decls
<1>2. EmptyScope \in [Names -> Decls]
  BY <1>1 DEF EmptyScope
<1>3. scopes \in Seq([Names -> Decls]) /\ scopes # << >> /\ Len(scopes) = 1
  BY <1>2
<1>4. SemanticTypeOK
  <2>1. calls \in Seq(Positions) /\ errors \subseteq Codes
    OBVIOUS
  <2>2. bind \in [Positions -> Decls] /\ target \in [Positions -> Decls]
    BY <1>1
  <2>3. pc \in 1 .. MaxLen + 1 /\ phase \in Checking
    BY <1>1 DEF Checking
  <2> QED
    BY <2>1, <2>2, <2>3, <1>3 DEF SemanticTypeOK
<1>5. TypeOK
  <2>1. locals \in Seq([Names -> Storages])
    OBVIOUS
  <2>2. /\ storage \in [Positions -> Storages \cup {Unvisited}]
        /\ load \in [Positions -> Storages \cup {Unvisited}]
        /\ dest \in [Positions -> Storages \cup {Unvisited}]
    OBVIOUS
  <2> QED
    BY <2>1, <2>2, <1>4 DEF TypeOK
<1>6. ScopesMatchCalls
  BY DEF ScopesMatchCalls, Emitting
<1>7. Shape
  BY <1>1, <1>3, LevelOfFirst DEF Shape, Emitting, Positions
<1> QED
  BY <1>5, <1>6, <1>7 DEF ScopeInv

\* The token that is met next.
LEMMA NodeFacts ==
  ASSUME ScopeInv, AtNode
  PROVE  /\ prog \in Programs /\ pc \in DOMAIN prog /\ pc \in Positions /\ pc \in Decls
         /\ Len(prog) \in Nat /\ pc + 1 \in 1 .. Len(prog) + 1 /\ pc + 1 \in 1 .. MaxLen + 1
         /\ Behind(prog, pc) \in 1 .. Len(prog) + 1 /\ Behind(prog, pc) \in 1 .. MaxLen + 1
         /\ Node.rhs # NoRef => Node.rhs.name \in Names
         /\ Node.k \in {"var", "for", "param", "set", "step"} => Node.lhs.name \in Names
         /\ Opens(prog, pc) <=> Node.k \in Openers
<1>1. prog \in Programs /\ pc \in 1 .. Len(prog) + 1
  BY DEF ScopeInv, TypeOK, SemanticTypeOK, Shape
<1>2. pc \in DOMAIN prog /\ Len(prog) \in Nat /\ Len(prog) <= MaxLen /\ MaxLen \in Nat
  BY <1>1, ProgramFacts, ProgramConstants DEF AtNode
<1>3. pc \in Positions /\ pc \in Decls
  BY <1>1, <1>2, ProgramFacts DEF Positions, Decls
<1>4. Behind(prog, pc) \in 1 .. Len(prog) + 1 /\ Behind(prog, pc) \in 1 .. MaxLen + 1
  BY <1>1, <1>2, BehindInProgram
<1>5. pc + 1 \in 1 .. Len(prog) + 1 /\ pc + 1 \in 1 .. MaxLen + 1
  BY <1>1, <1>2, ProgramFacts
<1>6. /\ Node.rhs # NoRef => Node.rhs.name \in Names
      /\ Node.k \in {"var", "for", "param", "set", "step"} => Node.lhs.name \in Names
  BY <1>1, <1>2, ProgramFacts DEF Node
<1> QED
  BY <1>1, <1>2, <1>3, <1>4, <1>5, <1>6 DEF Opens, Node

-----------------------------------------------------------------------------
(* The semantic pass: types *)

LEMMA SymbolType ==
  ASSUME SemanticTypeOK, NEW x \in Names
  PROVE  semantic_find_symbol(x) \in Decls /\ semantic_find_global_symbol(x) \in Decls
<1>1. scopes \in Seq([Names -> Decls]) /\ scopes # << >> /\ 0 \in Decls
  BY ProgramConstants DEF SemanticTypeOK, Decls
<1>2. scopes[1] \in [Names -> Decls]
  BY <1>1
<1>3. semantic_find_symbol(x) \in Decls
  <2>1. Found(scopes, x, 0) # {} => Innermost(scopes, x, 0) \in Decls
    BY <1>1, InnermostEntry DEF Stacks
  <2> QED
    BY <1>1, <2>1 DEF semantic_find_symbol, Found, Innermost
<1> QED
  BY <1>2, <1>3 DEF semantic_find_global_symbol

LEMMA BindType ==
  ASSUME ScopeInv, AtNode, Bind
  PROVE  bind' \in [Positions -> Decls]
<1>1. bind \in [Positions -> Decls] /\ SemanticTypeOK
  BY DEF ScopeInv, TypeOK, SemanticTypeOK
<1>2. Node.rhs # NoRef => semantic_find_symbol(Node.rhs.name) \in Decls
  BY <1>1, NodeFacts, SymbolType
<1> QED
  BY <1>1, <1>2 DEF Bind

LEMMA ErrorCodes ==
  /\ ReadErrors \subseteq Codes
  /\ \A b : AtSymErrors(b) \subseteq Codes
  BY DEF ReadErrors, AtSymErrors, Codes

\* The stack with a new declaration, or as it was.
LEMMA ScopesDeclared ==
  ASSUME scopes \in Seq([Names -> Decls]), scopes # << >>,
         NEW k, NEW x \in Names, NEW d \in Decls,
         scopes' = scopes \/ scopes' = With(scopes, k, x, d)
  PROVE  scopes' \in Seq([Names -> Decls]) /\ Len(scopes') = Len(scopes) /\ scopes' # << >>
<1>1. With(scopes, k, x, d) \in Seq([Names -> Decls]) /\ Len(With(scopes, k, x, d)) = Len(scopes)
  <2>1. scopes \in Stacks(Decls)
    BY DEF Stacks
  <2>2. With(scopes, k, x, d) \in Stacks(Decls) /\ Len(With(scopes, k, x, d)) = Len(scopes)
    BY <2>1, NewEntry
  <2> QED
    BY <2>2 DEF Stacks
<1>2. scopes' \in Seq([Names -> Decls]) /\ Len(scopes') = Len(scopes)
  BY <1>1
<1> QED
  BY <1>2

\* A declaration, when it is registered or checked.
LEMMA DeclareType ==
  ASSUME ScopeInv, AtNode, Node.k = "var", declare_variable
  PROVE  /\ scopes' \in Seq([Names -> Decls]) /\ Len(scopes') = Len(scopes) /\ scopes' # << >>
         /\ bind' \in [Positions -> Decls]
         /\ errors' \subseteq Codes
<1>1. scopes \in Seq([Names -> Decls]) /\ scopes # << >> /\ errors \subseteq Codes
  BY DEF ScopeInv, TypeOK, SemanticTypeOK
<1>2. pc \in Decls /\ Node.lhs.name \in Names
  BY NodeFacts
<1>3. PICK i : scopes' = scopes \/ scopes' = With(scopes, i, Node.lhs.name, pc)
  BY DEF declare_variable, With
<1>4. scopes' \in Seq([Names -> Decls]) /\ Len(scopes') = Len(scopes) /\ scopes' # << >>
  BY <1>1, <1>2, <1>3, ScopesDeclared
<1>5. errors' \subseteq Codes
  BY <1>1, ErrorCodes DEF declare_variable, Codes
<1>6. bind' \in [Positions -> Decls]
  BY BindType DEF declare_variable
<1> QED
  BY <1>4, <1>5, <1>6

\* The stacks when a handler calls another and when it returns.
LEMMA CallsType ==
  ASSUME ScopeInv, AtNode
  PROVE  /\ Call => calls' \in Seq(Positions) /\ Len(calls') = Len(calls) + 1
         /\ calls # << >> /\ Return => calls' \in Seq(Positions) /\ Len(calls') = Len(calls) - 1
<1>1. calls \in Seq(Positions) /\ pc \in Positions
  BY NodeFacts DEF ScopeInv, TypeOK, SemanticTypeOK
<1> QED
  BY <1>1 DEF Call, Return

LEMMA EmptyScopes ==
  /\ EmptyScope \in [Names -> Decls]
  /\ \A x \in Names, d \in Decls : [EmptyScope EXCEPT ![x] = d] \in [Names -> Decls]
  BY ProgramConstants DEF EmptyScope, Decls

LEMMA ScopesPopped ==
  ASSUME ScopeInv, scope_pop
  PROVE  /\ scopes' \in Seq([Names -> Decls]) /\ scopes' # << >>
         /\ Len(scopes) > 1 => Len(scopes') = Len(scopes) - 1
<1>1. scopes \in Seq([Names -> Decls]) /\ scopes # << >> /\ EmptyScope \in [Names -> Decls]
  BY EmptyScopes DEF ScopeInv, TypeOK, SemanticTypeOK
<1>2. Len(scopes) \in Nat \ {0}
  BY <1>1
<1>3. CASE Len(scopes) = 1
  <2>1. scopes' = <<EmptyScope>>
    BY <1>3 DEF scope_pop
  <2> QED
    BY <2>1, <1>1, <1>3
<1>4. CASE Len(scopes) # 1
  <2>1. scopes' = SubSeq(scopes, 1, Len(scopes) - 1)
    BY <1>4 DEF scope_pop
  <2>2. scopes' \in Seq([Names -> Decls]) /\ Len(scopes') = Len(scopes) - 1
    BY <2>1, <1>1, AllButLast
  <2>3. scopes' # << >>
    BY <2>2, <1>2, <1>4
  <2> QED
    BY <2>2, <2>3
<1> QED
  BY <1>3, <1>4

LEMMA ScopesPushed ==
  ASSUME ScopeInv, NEW s \in [Names -> Decls], scopes' = Append(scopes, s)
  PROVE  /\ scopes' \in Seq([Names -> Decls]) /\ scopes' # << >>
         /\ Len(scopes') = Len(scopes) + 1
<1>1. scopes \in Seq([Names -> Decls]) /\ Len(scopes) \in Nat
  BY DEF ScopeInv, TypeOK, SemanticTypeOK
<1>2. scopes' \in Seq([Names -> Decls]) /\ Len(scopes') = Len(scopes) + 1
  BY <1>1
<1> QED
  BY <1>1, <1>2

\* A loop that ends has been counted.
LEMMA LoopDepthFalls ==
  ASSUME ScopeInv, phase = "check", calls # << >>
  PROVE  /\ g_in_loop \in Nat
         /\ Caller \in {"for", "while"} => g_in_loop - 1 \in Nat
<1>1. calls \in Seq(Positions) /\ g_in_loop = Count(prog, calls, {"for", "while"})
  BY DEF ScopeInv, TypeOK, SemanticTypeOK, ScopesMatchCalls, Running, Count
<1>2. /\ Count(prog, calls, {"for", "while"}) \in Nat
      /\ SubSeq(calls, 1, Len(calls) - 1) \in Seq(Positions)
  BY <1>1, CountType, AllButLast
<1>3. Count(prog, SubSeq(calls, 1, Len(calls) - 1), {"for", "while"}) \in Nat
  BY <1>2, CountType
<1>4. Count(prog, SubSeq(calls, 1, Len(calls) - 1), {"for", "while"})
        = Count(prog, calls, {"for", "while"})
            - (IF prog[calls[Len(calls)]].k \in {"for", "while"} THEN 1 ELSE 0)
  BY <1>1, CountReturn
<1> QED
  BY <1>1, <1>2, <1>3, <1>4 DEF Caller

LEMMA ParamType ==
  ASSUME ScopeInv, declare_param
  PROVE  scopes' \in Seq([Names -> Decls]) /\ Len(scopes') = Len(scopes) /\ scopes' # << >>
<1>1. scopes \in Seq([Names -> Decls]) /\ scopes # << >>
  BY DEF ScopeInv, TypeOK, SemanticTypeOK
<1>2. pc \in Decls /\ Node.lhs.name \in Names
  BY NodeFacts DEF declare_param, Check
<1>3. \/ scopes' = scopes
      \/ scopes' = With(scopes, Len(scopes), Node.lhs.name, pc)
  BY DEF declare_param, With
<1> QED
  BY <1>1, <1>2, <1>3, ScopesDeclared

LEMMA SemanticTypes ==
  ASSUME ScopeInv, SemanticNext
  PROVE  SemanticTypeOK'
<1>1. SemanticTypeOK
  BY DEF ScopeInv, TypeOK
<1> USE <1>1 DEF SemanticTypeOK
<1>2. MaxLen \in Nat /\ Len(prog) \in Nat /\ Len(prog) <= MaxLen
  BY ProgramFacts, ProgramConstants
<1>3. AtNode => pc + 1 \in 1 .. MaxLen + 1 /\ Behind(prog, pc) \in 1 .. MaxLen + 1
  BY NodeFacts
<1>4. ReadErrors \subseteq Codes /\ \A b : AtSymErrors(b) \subseteq Codes
  BY ErrorCodes
<1>5. CASE register
  <2>1. AtNode /\ pc' = Behind(prog, pc)
    BY <1>5 DEF register
  <2>2. CASE IsGlobal(prog, pc)
    BY <2>1, <2>2, <1>3, <1>5, DeclareType DEF register, declare_variable, IsGlobal, Node
  <2>3. CASE ~IsGlobal(prog, pc)
    BY <2>1, <2>3, <1>3, <1>5 DEF register, semantic
  <2> QED
    BY <2>2, <2>3
<1>6. CASE register_end
  <2>1. scopes' \in Seq([Names -> Decls]) /\ scopes' # << >>
    BY <1>6, ScopesPushed, EmptyScopes DEF register_end
  <2> QED
    BY <2>1, <1>2, <1>6 DEF register_end, Checking
<1>7. CASE check_declaration
  BY <1>3, <1>7, DeclareType DEF check_declaration, Check, Step, declare_variable
<1>8. CASE check_assign
  <2>1. AtNode /\ Bind /\ assign /\ Step /\ Node.lhs.name \in Names
    BY <1>8, NodeFacts DEF check_assign, Check, assign
  <2>2. AssignedSymbol(Node.lhs) \in Decls
    BY <2>1, SymbolType DEF AssignedSymbol
  <2>3. target' \in [Positions -> Decls] /\ bind' \in [Positions -> Decls]
    BY <2>1, <2>2, BindType DEF assign
  <2>4. errors' \subseteq Codes
    BY <2>1, <1>4 DEF assign, Codes
  <2> QED
    BY <2>1, <2>3, <2>4, <1>3 DEF assign, Step
<1>9. CASE check_use
  BY <1>3, <1>4, <1>9, BindType DEF check_use, Check, Step
<1>10. CASE check_if
  BY <1>3, <1>4, <1>10, BindType, CallsType DEF check_if, Check, Step
<1>11. CASE check_else
  BY <1>3, <1>11 DEF check_else, Check, Step, semantic
<1>12. CASE check_while_loop
  BY <1>3, <1>4, <1>12, BindType, CallsType DEF check_while_loop, Check, Step
<1>13. CASE check_for_loop
  <2>1. /\ AtNode /\ bind' \in [Positions -> Decls]
        /\ [EmptyScope EXCEPT ![Node.lhs.name] = pc] \in [Names -> Decls]
    BY <1>13, BindType, NodeFacts, EmptyScopes DEF check_for_loop, Check
  <2>2. CASE exists(Node.rhs) = "NOT_DECLARED"
    BY <2>1, <2>2, <1>3, <1>4, <1>13 DEF check_for_loop, Codes
  <2>3. CASE exists(Node.rhs) # "NOT_DECLARED"
    <3>1. /\ calls' \in Seq(Positions)
          /\ scopes' \in Seq([Names -> Decls]) /\ scopes' # << >>
      BY <2>1, <2>3, <1>13, CallsType, ScopesPushed DEF check_for_loop
    <3> QED
      BY <3>1, <2>1, <2>3, <1>3, <1>4, <1>13 DEF check_for_loop
  <2> QED
    BY <2>2, <2>3
<1>14. CASE handle_fn
  BY <1>3, <1>14, CallsType, ScopesPushed, EmptyScopes DEF handle_fn, Check, Step
<1>15. CASE declare_param
  <2>1. AtNode /\ pc \in Decls /\ Node.lhs.name \in Names /\ pc' = pc + 1
    BY <1>15, NodeFacts DEF declare_param, Check, Step
  <2>4. scopes' \in Seq([Names -> Decls]) /\ scopes' # << >>
    BY <1>15, ParamType
  <2>5. errors' \subseteq Codes
    BY <1>15 DEF declare_param, Codes
  <2> QED
    BY <2>1, <2>4, <2>5, <1>3, <1>15 DEF declare_param, Step
<1>16. CASE check_unconditional_branches
  BY <1>3, <1>16 DEF check_unconditional_branches, Check, Step, Codes
<1>17. CASE ret
  BY <1>3, <1>17 DEF ret, Check, Step, Codes
<1>18. CASE check_end
  <2>1. AtNode /\ calls # << >> /\ Return /\ pc' = pc + 1 /\ phase = "check"
    BY <1>18 DEF check_end, Check, Step
  <2>2. calls' \in Seq(Positions)
    BY <2>1, CallsType
  <2>3. scopes' \in Seq([Names -> Decls]) /\ scopes' # << >>
    BY <1>18, ScopesPopped DEF check_end
  <2>4. g_in_loop' \in Nat
    BY <2>1, <1>18, LoopDepthFalls DEF check_end
  <2> QED
    BY <2>1, <2>2, <2>3, <2>4, <1>3, <1>18 DEF check_end, Step
<1>19. CASE semantic_check_end
  BY <1>2, <1>19, ScopesPopped DEF semantic_check_end, Emitting, Ended
<1>20. CASE crash
  BY <1>20 DEF crash, semantic, Ended
<1> QED
  BY <1>5, <1>6, <1>7, <1>8, <1>9, <1>10, <1>11, <1>12, <1>13, <1>14, <1>15, <1>16, <1>17,
     <1>18, <1>19, <1>20 DEF SemanticNext

-----------------------------------------------------------------------------
(* The semantic pass: the call stack and the levels *)

LEMMA NodeLevel ==
  ASSUME ScopeInv, AtNode
  PROVE  /\ Level(prog, pc) \in Int
         /\ Node.k \in Openers => Level(prog, pc + 1) = Level(prog, pc) + 1
         /\ Node.k = "end" => Level(prog, pc + 1) = Level(prog, pc) - 1 /\ Level(prog, pc) # 0
         /\ Node.k \notin Openers \cup {"end"} => Level(prog, pc + 1) = Level(prog, pc)
         /\ Node.k # "end" => Level(prog, Behind(prog, pc)) = Level(prog, pc)
<1>1. prog \in Programs /\ pc \in DOMAIN prog /\ pc \in Nat \ {0}
  BY NodeFacts DEF Positions
<1>2. Node.k = "end" => Level(prog, pc) # 0
  BY <1>1, ProgramConstants DEF Node, TopLevel
<1>3. Opens(prog, pc) <=> Node.k \in Openers
  BY DEF Opens, Node
<1>4. Node.k # "end" => Level(prog, Behind(prog, pc)) = Level(prog, pc)
  BY <1>1, BehindInProgram DEF Node
<1> QED
  BY <1>1, <1>2, <1>3, <1>4, LevelOfNext DEF Node

\* Behind the last token nothing is open.
LEMMA AtTheEnd ==
  ASSUME ScopeInv, ~AtNode, phase \in Checking \cup Emitting
  PROVE  calls = << >>
<1>1. /\ prog \in Programs /\ pc \in 1 .. Len(prog) + 1
      /\ calls \in Seq(Positions) /\ Len(calls) = Level(prog, pc)
  BY DEF ScopeInv, TypeOK, SemanticTypeOK, Shape
<1>2. pc = Len(prog) + 1
  BY <1>1, ProgramFacts DEF AtNode
<1> QED
  BY <1>1, <1>2, ProgramFacts

LEMMA AtTheStart ==
  ASSUME ScopeInv
  PROVE  1 \in 1 .. Len(prog) + 1 /\ Level(prog, 1) = 0
<1>1. Len(prog) \in Nat
  BY ProgramFacts DEF ScopeInv, TypeOK, SemanticTypeOK
<1> QED
  BY <1>1, LevelOfFirst

\* A step of the walk keeps the shape if the call stack follows the level.
LEMMA CheckShape ==
  ASSUME ScopeInv, phase = "check", AtNode, UNCHANGED <<prog, phase, locals>>,
         pc' \in 1 .. Len(prog) + 1, Len(calls') = Level(prog, pc')
  PROVE  Shape'
<1>1. locals = << >>
  BY DEF ScopeInv, Shape, Checking
<1> QED
  BY <1>1 DEF Shape, Checking, Emitting

LEMMA SemanticShape ==
  ASSUME ScopeInv, SemanticNext, UNCHANGED generated
  PROVE  Shape'
<1> USE DEF generated
<1>1. /\ calls \in Seq(Positions) /\ scopes \in Seq([Names -> Decls])
      /\ phase = "check" => Len(calls) = Level(prog, pc)
      /\ phase \in Checking => locals = << >>
      /\ phase = "register" =>
           calls = << >> /\ Len(scopes) = 1 /\ g_in_loop = 0 /\ Level(prog, pc) = 0
  BY DEF ScopeInv, TypeOK, SemanticTypeOK, Shape, Checking
<1>2. AtNode => pc + 1 \in 1 .. Len(prog) + 1 /\ Behind(prog, pc) \in 1 .. Len(prog) + 1
  BY NodeFacts
<1>3. CASE register
  <2>1. /\ phase = "register" /\ AtNode /\ pc' = Behind(prog, pc)
        /\ prog' = prog /\ phase' = phase /\ calls' = calls /\ g_in_loop' = g_in_loop
    BY <1>3 DEF register, declare_variable, semantic
  <2>2. Len(scopes') = Len(scopes)
    BY <1>3, DeclareType DEF register, semantic, IsGlobal, Node
  <2>3. Level(prog, Behind(prog, pc)) = 0
    BY <1>1, <2>1, NodeLevel
  <2> QED
    BY <1>1, <1>2, <2>1, <2>2, <2>3 DEF Shape, Checking, Emitting
<1>4. CASE register_end
  BY <1>1, <1>4, AtTheStart DEF register_end, Shape, Checking, Emitting
<1>5. ASSUME phase = "check", AtNode, Step, Call, Node.k \in Openers
      PROVE  Shape'
  BY <1>1, <1>2, <1>5, NodeLevel, CallsType, CheckShape DEF Step
<1>6. ASSUME phase = "check", AtNode, Step, UNCHANGED calls, Node.k \notin Openers \cup {"end"}
      PROVE  Shape'
  BY <1>1, <1>2, <1>6, NodeLevel, CheckShape DEF Step
<1>7. CASE check_declaration
  BY <1>6, <1>7 DEF check_declaration, declare_variable, Check, Openers
<1>8. CASE check_assign
  BY <1>6, <1>8 DEF check_assign, assign, Check, Openers
<1>9. CASE check_use
  BY <1>6, <1>9 DEF check_use, Check, Openers
<1>10. CASE check_if
  BY <1>5, <1>10 DEF check_if, Check, Openers
<1>11. CASE check_else
  BY <1>6, <1>11 DEF check_else, Check, Openers
<1>12. CASE check_while_loop
  BY <1>5, <1>12 DEF check_while_loop, Check, Openers
<1>13. CASE check_for_loop
  <2>1. /\ phase = "check" /\ AtNode /\ Node.k = "for"
        /\ UNCHANGED <<prog, phase>>
    BY <1>13 DEF check_for_loop, Check
  <2>2. CASE exists(Node.rhs) = "NOT_DECLARED"
    <3>1. pc' = Behind(prog, pc) /\ calls' = calls
      BY <2>2, <1>13 DEF check_for_loop
    <3> QED
      BY <3>1, <2>1, <1>1, <1>2, NodeLevel, CheckShape
  <2>3. CASE exists(Node.rhs) # "NOT_DECLARED"
    BY <2>1, <2>3, <1>5, <1>13 DEF check_for_loop, Step, Openers
  <2> QED
    BY <2>2, <2>3
<1>14. CASE handle_fn
  BY <1>5, <1>14 DEF handle_fn, Check, Openers
<1>15. CASE declare_param
  BY <1>6, <1>15 DEF declare_param, Check, Openers
<1>16. CASE check_unconditional_branches
  BY <1>6, <1>16 DEF check_unconditional_branches, Check, Openers
<1>17. CASE ret
  BY <1>6, <1>17 DEF ret, Check, Openers
<1>18. CASE check_end
  <2>1. /\ phase = "check" /\ AtNode /\ Node.k = "end" /\ calls # << >> /\ Return
        /\ pc' = pc + 1 /\ UNCHANGED <<prog, phase>>
    BY <1>18 DEF check_end, Check, Step
  <2> QED
    BY <2>1, <1>1, <1>2, NodeLevel, CallsType, CheckShape
<1>19. CASE semantic_check_end
  <2>1. calls = << >> /\ calls' = calls /\ pc' = 1 /\ prog' = prog /\ phase' \in {"functions", "rejected"}
    BY <1>19, AtTheEnd DEF semantic_check_end, Checking
  <2> QED
    BY <2>1, AtTheStart DEF Shape, Checking, Emitting
<1>20. CASE crash
  BY <1>20 DEF crash, Shape, ScopeInv, Checking, Emitting
<1> QED
  BY <1>3, <1>4, <1>7, <1>8, <1>9, <1>10, <1>11, <1>12, <1>13, <1>14, <1>15, <1>16, <1>17,
     <1>18, <1>19, <1>20 DEF SemanticNext

-----------------------------------------------------------------------------
(* The semantic pass: its scopes *)

\* ScopesMatchCalls in terms of Count.
LEMMA MatchCounts ==
  ScopesMatchCalls <=>
    /\ phase = "check" =>
         /\ Len(scopes) = 2 + Count(prog, calls, {"fn", "for"})
         /\ g_in_loop = Count(prog, calls, {"for", "while"})
    /\ phase \in Emitting =>
         Top = Count(prog, calls, {"fn", "for", "while"}) + (IF phase = "init" THEN 1 ELSE 0)
  BY DEF ScopesMatchCalls, Running, Count

LEMMA CallCounts ==
  ASSUME ScopeInv, AtNode, Call, prog' = prog, NEW kinds
  PROVE  Count(prog', calls', kinds)
           = Count(prog, calls, kinds) + (IF Node.k \in kinds THEN 1 ELSE 0)
<1>1. calls \in Seq(Positions) /\ pc \in Positions
  BY NodeFacts DEF ScopeInv, TypeOK, SemanticTypeOK
<1> QED
  BY <1>1, CountCall DEF Call, Node

LEMMA ReturnCounts ==
  ASSUME ScopeInv, calls # << >>, Return, prog' = prog, NEW kinds
  PROVE  Count(prog', calls', kinds)
           = Count(prog, calls, kinds) - (IF Caller \in kinds THEN 1 ELSE 0)
<1>1. calls \in Seq(Positions)
  BY DEF ScopeInv, TypeOK, SemanticTypeOK
<1> QED
  BY <1>1, CountReturn DEF Return, Caller

LEMMA SemanticScopesMatch ==
  ASSUME ScopeInv, SemanticNext, UNCHANGED generated
  PROVE  ScopesMatchCalls'
<1>1. /\ calls \in Seq(Positions) /\ Len(scopes) \in Nat /\ g_in_loop \in Nat
      /\ Count(prog, calls, {"fn", "for"}) \in Nat /\ Count(prog, calls, {"for", "while"}) \in Nat
  <2>1. calls \in Seq(Positions) /\ scopes \in Seq([Names -> Decls]) /\ g_in_loop \in Nat
    BY DEF ScopeInv, TypeOK, SemanticTypeOK
  <2>2. Len(scopes) \in Nat
    BY <2>1
  <2>3. \A kinds : Count(prog, calls, kinds) \in Nat
    BY <2>1, CountType
  <2> QED
    BY <2>1, <2>2, <2>3
<1>2. phase = "check" =>
        /\ Len(scopes) = 2 + Count(prog, calls, {"fn", "for"})
        /\ g_in_loop = Count(prog, calls, {"for", "while"})
  BY MatchCounts DEF ScopeInv
<1>3. ASSUME phase' = "check",
             Len(scopes') = 2 + Count(prog', calls', {"fn", "for"}),
             g_in_loop' = Count(prog', calls', {"for", "while"})
      PROVE  ScopesMatchCalls'
  BY <1>3 DEF ScopesMatchCalls, Running, Count, Emitting
<1>4. ASSUME phase = "check", UNCHANGED <<prog, phase, calls, g_in_loop>>, Len(scopes') = Len(scopes)
      PROVE  ScopesMatchCalls'
  BY <1>2, <1>3, <1>4
<1>5. ASSUME phase = "check", AtNode, Call, UNCHANGED <<prog, phase>>,
             Len(scopes') = Len(scopes) + (IF Node.k \in {"fn", "for"} THEN 1 ELSE 0),
             g_in_loop' = g_in_loop + (IF Node.k \in {"for", "while"} THEN 1 ELSE 0)
      PROVE  ScopesMatchCalls'
  <2>1. /\ Count(prog', calls', {"fn", "for"})
             = Count(prog, calls, {"fn", "for"}) + (IF Node.k \in {"fn", "for"} THEN 1 ELSE 0)
        /\ Count(prog', calls', {"for", "while"})
             = Count(prog, calls, {"for", "while"}) + (IF Node.k \in {"for", "while"} THEN 1 ELSE 0)
    BY <1>5, CallCounts
  <2> QED
    BY <2>1, <1>1, <1>2, <1>3, <1>5
<1>6. CASE register
  BY <1>6 DEF register, ScopesMatchCalls, Emitting
<1>7. CASE register_end
  <2>1. calls' = << >> /\ Len(scopes') = 2 /\ g_in_loop' = 0 /\ phase' = "check"
    <3>1. Len(scopes') = Len(scopes) + 1
      BY <1>7, ScopesPushed, EmptyScopes DEF register_end
    <3>2. calls = << >> /\ Len(scopes) = 1 /\ g_in_loop = 0
      BY <1>7 DEF register_end, ScopeInv, Shape
    <3> QED
      BY <3>1, <3>2, <1>7 DEF register_end
  <2>2. Count(prog', << >>, {"fn", "for"}) = 0 /\ Count(prog', << >>, {"for", "while"}) = 0
    BY CountNone
  <2> QED
    BY <2>1, <2>2, <1>3
<1>8. CASE check_declaration
  <2>1. phase = "check" /\ AtNode /\ Node.k = "var" /\ declare_variable /\ Step
    BY <1>8 DEF check_declaration, Check
  <2>2. Len(scopes') = Len(scopes)
    BY <2>1, DeclareType
  <2> QED
    BY <2>1, <2>2, <1>4 DEF declare_variable, Step
<1>9. CASE check_assign
  BY <1>4, <1>9 DEF check_assign, assign, Check, Step
<1>10. CASE check_use
  BY <1>4, <1>10 DEF check_use, Check, Step
<1>11. CASE check_if
  BY <1>1, <1>5, <1>11 DEF check_if, Check, Step
<1>12. CASE check_else
  BY <1>4, <1>12 DEF check_else, Check, Step, semantic
<1>13. CASE check_while_loop
  BY <1>1, <1>5, <1>13 DEF check_while_loop, Check, Step
<1>14. CASE check_for_loop
  <2>1. phase = "check" /\ AtNode /\ Node.k = "for" /\ UNCHANGED <<prog, phase>>
    BY <1>14 DEF check_for_loop, Check
  <2>2. CASE exists(Node.rhs) = "NOT_DECLARED"
    BY <2>1, <2>2, <1>4, <1>14 DEF check_for_loop
  <2>3. CASE exists(Node.rhs) # "NOT_DECLARED"
    <3>1. [EmptyScope EXCEPT ![Node.lhs.name] = pc] \in [Names -> Decls]
      BY <2>1, NodeFacts, EmptyScopes
    <3>2. Len(scopes') = Len(scopes) + 1 /\ g_in_loop' = g_in_loop + 1 /\ Call
      BY <2>3, <3>1, <1>14, ScopesPushed DEF check_for_loop
    <3> QED
      BY <2>1, <3>2, <1>5
  <2> QED
    BY <2>2, <2>3
<1>15. CASE handle_fn
  <2>1. Len(scopes') = Len(scopes) + 1
    BY <1>15, ScopesPushed, EmptyScopes DEF handle_fn
  <2> QED
    BY <2>1, <1>1, <1>5, <1>15 DEF handle_fn, Check, Step
<1>16. CASE declare_param
  BY <1>4, <1>16, ParamType DEF declare_param, Check, Step
<1>17. CASE check_unconditional_branches
  BY <1>4, <1>17 DEF check_unconditional_branches, Check, Step
<1>18. CASE ret
  BY <1>4, <1>18 DEF ret, Check, Step
<1>19. CASE check_end
  <2>1. phase = "check" /\ calls # << >> /\ Return /\ UNCHANGED <<prog, phase>>
    BY <1>19 DEF check_end, Check, Step
  <2>2. Len(scopes') = Len(scopes) - (IF Caller \in {"fn", "for"} THEN 1 ELSE 0)
    BY <2>1, <1>1, <1>2, <1>19, ScopesPopped DEF check_end
  <2>3. g_in_loop' = g_in_loop - (IF Caller \in {"for", "while"} THEN 1 ELSE 0)
    BY <1>1, <1>19 DEF check_end
  <2>4. /\ Count(prog', calls', {"fn", "for"})
             = Count(prog, calls, {"fn", "for"}) - (IF Caller \in {"fn", "for"} THEN 1 ELSE 0)
        /\ Count(prog', calls', {"for", "while"})
             = Count(prog, calls, {"for", "while"}) - (IF Caller \in {"for", "while"} THEN 1 ELSE 0)
    BY <2>1, ReturnCounts
  <2> QED
    BY <2>1, <2>2, <2>3, <2>4, <1>1, <1>2, <1>3
<1>20. CASE semantic_check_end
  <2>1. /\ calls' = << >> /\ phase' \in {"functions", "rejected"} /\ locals' = << >>
    BY <1>20, AtTheEnd DEF semantic_check_end, Checking, generated, ScopeInv, Shape
  <2>2. Count(prog', << >>, {"fn", "for", "while"}) = 0
    BY CountNone
  <2> QED
    BY <2>1, <2>2 DEF ScopesMatchCalls, Running, Count, Top, Emitting
<1>21. CASE crash
  BY <1>21 DEF crash, ScopesMatchCalls, Emitting
<1> QED
  BY <1>6, <1>7, <1>8, <1>9, <1>10, <1>11, <1>12, <1>13, <1>14, <1>15, <1>16, <1>17,
     <1>18, <1>19, <1>20, <1>21 DEF SemanticNext

-----------------------------------------------------------------------------
(* Codegen: types *)

LEMMA StorageTypes ==
  /\ Null \in Storages
  /\ \A x \in Names : Global(x) \in Storages
  /\ \A p \in Positions : Alloca(p) \in Storages
  /\ NoLocals \in [Names -> Storages]
  BY DEF Storages, Null, Global, Alloca, NoLocals

LEMMA LookupType ==
  ASSUME NEW env \in Stacks(Storages), NEW x \in Names
  PROVE  lookup(env, x) \in Storages
<1>1. Found(env, x, Null) # {} => Innermost(env, x, Null) \in Storages
  BY InnermostEntry
<1> QED
  BY <1>1, StorageTypes DEF lookup, Found, Innermost

LEMMA VariableType ==
  ASSUME NEW env \in Stacks(Storages), NEW ref, ref.name \in Names
  PROVE  variable(env, ref) \in Storages
<1>1. getGlobalVariable(ref.name) \in Storages
  BY StorageTypes DEF getGlobalVariable
<1>2. lookup(env, ref.name) \in Storages
  BY LookupType
<1> QED
  BY <1>1, <1>2 DEF variable

LEMMA LoadType ==
  ASSUME ScopeInv, AtNode, NEW env \in Stacks(Storages), Load(env)
  PROVE  load' \in [Positions -> Storages \cup {Unvisited}]
<1>1. load \in [Positions -> Storages \cup {Unvisited}]
  BY DEF ScopeInv, TypeOK
<1>2. Node.rhs # NoRef => variable(env, Node.rhs) \in Storages
  BY NodeFacts, VariableType
<1> QED
  BY <1>1, <1>2 DEF Load

LEMMA LocalsType ==
  ASSUME ScopeInv
  PROVE  locals \in Stacks(Storages) /\ Top \in Nat
<1>1. locals \in Seq([Names -> Storages])
  BY DEF ScopeInv, TypeOK
<1> QED
  BY <1>1 DEF Stacks, Top

LEMMA EnterType ==
  ASSUME NEW env \in Stacks(Storages), NEW k, NEW x \in Names, NEW s \in Storages
  PROVE  Enter(env, k, x, s) \in Stacks(Storages) /\ Len(Enter(env, k, x, s)) = Len(env)
<1>1. Enter(env, k, x, s) = With(env, k, x, s)
  BY DEF Enter, With
<1> QED
  BY <1>1, NewEntry

LEMMA PushedLocals ==
  ASSUME NEW env \in Stacks(Storages)
  PROVE  Append(env, NoLocals) \in Stacks(Storages) /\ Len(Append(env, NoLocals)) = Len(env) + 1
<1>1. env \in Seq([Names -> Storages]) /\ NoLocals \in [Names -> Storages]
  BY StorageTypes DEF Stacks
<1>2. /\ Append(env, NoLocals) \in Seq([Names -> Storages])
      /\ Len(Append(env, NoLocals)) = Len(env) + 1
  BY <1>1
<1> QED
  BY <1>2 DEF Stacks

LEMMA OneScope ==
  <<NoLocals>> \in Stacks(Storages) /\ Len(<<NoLocals>>) = 1
<1>1. <<NoLocals>> \in Seq([Names -> Storages])
  BY StorageTypes
<1> QED
  BY <1>1 DEF Stacks

\* The storage of a declaration.
LEMMA ResolvedType ==
  ASSUME ScopeInv, AtNode, Node.k \in {"var", "for", "param"}
  PROVE  /\ Node.lhs.name \in Names
         /\ Alloca(pc) \in Storages /\ Global(Node.lhs.name) \in Storages
         /\ get_or_create_alloca(Node.lhs.name) \in Storages
<1>1. Node.lhs.name \in Names /\ pc \in Positions
  BY NodeFacts
<1>2. lookup(locals, Node.lhs.name) \in Storages
  BY <1>1, LocalsType, LookupType
<1> QED
  BY <1>1, <1>2, StorageTypes DEF get_or_create_alloca

LEMMA DeclaredType ==
  ASSUME ScopeInv, AtNode, Node.k \in {"var", "for"}, NEW s \in Storages
  PROVE  /\ Declared(Node.lhs.name, s) \in Stacks(Storages)
         /\ Len(Declared(Node.lhs.name, s)) = Top
<1> DEFINE x == Node.lhs.name
<1>1. x \in Names /\ Alloca(pc) \in Storages /\ locals \in Stacks(Storages)
  BY ResolvedType, LocalsType
<1>2. /\ Enter(locals, 1, x, Alloca(pc)) \in Stacks(Storages)
      /\ Len(Enter(locals, 1, x, Alloca(pc))) = Len(locals)
  BY <1>1, EnterType
<1>3. Registered(x) \in Stacks(Storages) /\ Len(Registered(x)) = Len(locals)
  BY <1>1, <1>2 DEF Registered
<1> HIDE DEF x
<1>4. /\ Enter(Registered(x), Top, x, s) \in Stacks(Storages)
      /\ Len(Enter(Registered(x), Top, x, s)) = Len(Registered(x))
  BY <1>1, <1>3, EnterType
<1> QED
  BY <1>3, <1>4 DEF Declared, Top, x

\* A step of the walk keeps the types if it does so where it is.
LEMMA EmitTypes ==
  ASSUME ScopeInv, UNCHANGED prog, Semantic,
         phase' \in Checking \cup Emitting \cup Ended, pc' \in 1 .. MaxLen + 1,
         calls' \in Seq(Positions), locals' \in Stacks(Storages), dead' \in BOOLEAN,
         storage' \in [Positions -> Storages \cup {Unvisited}],
         load' \in [Positions -> Storages \cup {Unvisited}],
         dest' \in [Positions -> Storages \cup {Unvisited}]
  PROVE  TypeOK'
<1>1. SemanticTypeOK'
  BY DEF ScopeInv, TypeOK, SemanticTypeOK, Semantic, semantic
<1> QED
  BY <1>1 DEF TypeOK, Stacks

LEMMA CodegenTypes ==
  ASSUME ScopeInv, CodegenNext
  PROVE  TypeOK'
<1>1. /\ calls \in Seq(Positions) /\ pc \in 1 .. MaxLen + 1 /\ dead \in BOOLEAN
      /\ phase \in Checking \cup Emitting \cup Ended
      /\ storage \in [Positions -> Storages \cup {Unvisited}]
      /\ load \in [Positions -> Storages \cup {Unvisited}]
      /\ dest \in [Positions -> Storages \cup {Unvisited}]
      /\ locals \in Stacks(Storages)
  BY LocalsType DEF ScopeInv, TypeOK, SemanticTypeOK
<1>2. MaxLen \in Nat
  BY ProgramConstants
<1>3. AtNode => pc + 1 \in 1 .. MaxLen + 1 /\ Behind(prog, pc) \in 1 .. MaxLen + 1
  BY NodeFacts
<1>4. CASE skip
  BY <1>1, <1>3, <1>4, EmitTypes DEF skip, generated, Semantic
<1>5. CASE emit_functions_end
  BY <1>1, <1>2, <1>5, OneScope, EmitTypes DEF emit_functions_end, Semantic, Emitting
<1>6. CASE emit_init_end
  BY <1>1, <1>6, EmitTypes DEF emit_init_end, generated, Semantic, Ended
<1>7. CASE emit_function
  BY <1>1, <1>3, <1>7, OneScope, CallsType, EmitTypes DEF emit_function, Emit, Step
<1>8. CASE emit_param
  <2>1. AtNode /\ Node.k = "param"
    BY <1>8 DEF emit_param, Emit
  <2>2. locals' \in Stacks(Storages) /\ storage' \in [Positions -> Storages \cup {Unvisited}]
    BY <2>1, <1>1, <1>8, ResolvedType, EnterType DEF emit_param
  <2> QED
    BY <2>1, <2>2, <1>1, <1>3, <1>8, EmitTypes DEF emit_param, Step
<1>9. CASE emit_declaration
  <2>1. AtNode /\ Node.k = "var"
    BY <1>9 DEF emit_declaration, Live, Emit
  <2>2. PICK s \in Storages :
          /\ locals' = Declared(Node.lhs.name, s)
          /\ storage' = [storage EXCEPT ![pc] = s]
          /\ Load(Declared(Node.lhs.name, s))
    BY <2>1, <1>9, ResolvedType DEF emit_declaration
  <2>3. Declared(Node.lhs.name, s) \in Stacks(Storages)
    BY <2>1, DeclaredType
  <2>4. load' \in [Positions -> Storages \cup {Unvisited}]
    BY <2>1, <2>2, <2>3, LoadType
  <2>5. storage' \in [Positions -> Storages \cup {Unvisited}]
    BY <2>2, <1>1
  <2> QED
    BY <2>1, <2>2, <2>3, <2>4, <2>5, <1>1, <1>3, <1>9, EmitTypes DEF emit_declaration, Step
<1>10. CASE bad_cast
  BY <1>1, <1>10, EmitTypes DEF bad_cast, generated, Semantic, Ended
<1>11. ASSUME AtNode, Node.k \in {"set", "step"}, Store
       PROVE  /\ dest' \in [Positions -> Storages \cup {Unvisited}]
              /\ load' \in [Positions -> Storages \cup {Unvisited}]
  <2>1. Node.lhs.name \in Names
    BY <1>11, NodeFacts
  <2>2. variable(locals, Node.lhs) \in Storages
    BY <2>1, <1>1, VariableType
  <2>3. load' = load \/ Load(locals)
    BY <1>11 DEF Store
  <2>4. load' \in [Positions -> Storages \cup {Unvisited}]
    BY <2>3, <1>1, <1>11, LoadType
  <2> QED
    BY <2>2, <2>4, <1>1, <1>11 DEF Store
<1>12. CASE emit_assing
  BY <1>1, <1>3, <1>11, <1>12, EmitTypes DEF emit_assing, Live, Emit, Step
<1>13. CASE emit_while_expr
  BY <1>1, <1>3, <1>11, <1>13, EmitTypes DEF emit_while_expr, Emit, Step
<1>14. CASE emit_use
  BY <1>1, <1>3, <1>14, LoadType, EmitTypes DEF emit_use, Live, Emit, Step
<1>15. CASE emit_if
  BY <1>1, <1>3, <1>15, LoadType, CallsType, EmitTypes DEF emit_if, Live, Emit, Step
<1>16. CASE emit_else
  BY <1>1, <1>3, <1>16, EmitTypes DEF emit_else, Emit, Step
<1>17. CASE emit_whileloop
  <2>1. AtNode /\ Append(locals, NoLocals) \in Stacks(Storages)
    BY <1>1, <1>17, PushedLocals DEF emit_whileloop, Live, Emit
  <2>2. load' \in [Positions -> Storages \cup {Unvisited}]
    BY <2>1, <1>17, LoadType DEF emit_whileloop
  <2> QED
    BY <2>1, <2>2, <1>1, <1>3, <1>17, CallsType, EmitTypes DEF emit_whileloop, Step
<1>18. CASE emit_for_loop
  <2>1. AtNode /\ Node.k = "for"
    BY <1>18 DEF emit_for_loop, Live, Emit
  <2>2. PICK s \in Storages :
          /\ locals' = Append(Declared(Node.lhs.name, s), NoLocals)
          /\ storage' = [storage EXCEPT ![pc] = s]
          /\ Load(Declared(Node.lhs.name, s))
    BY <2>1, <1>18, ResolvedType DEF emit_for_loop
  <2>3. Declared(Node.lhs.name, s) \in Stacks(Storages)
    BY <2>1, DeclaredType
  <2>4. load' \in [Positions -> Storages \cup {Unvisited}]
    BY <2>1, <2>2, <2>3, LoadType
  <2>5. storage' \in [Positions -> Storages \cup {Unvisited}]
    BY <2>2, <1>1
  <2>6. locals' \in Stacks(Storages)
    BY <2>2, <2>3, PushedLocals
  <2> QED
    BY <2>1, <2>4, <2>5, <2>6, <1>1, <1>3, <1>18, CallsType, EmitTypes DEF emit_for_loop, Step
<1>19. CASE emit_jump
  BY <1>1, <1>3, <1>19, EmitTypes DEF emit_jump, Live, Emit, Step
<1>20. CASE emit_end
  <2>1. AtNode /\ calls' \in Seq(Positions)
    BY <1>20, CallsType DEF emit_end, Emit
  <2>2. locals' \in {locals, SubSeq(locals, 1, Top - 1), << >>}
    BY <1>20 DEF emit_end
  <2>3. << >> \in Stacks(Storages)
    BY DEF Stacks
  <2>4. SubSeq(locals, 1, Top - 1) \in Stacks(Storages)
    <3>1. CASE locals = << >>
      <4>1. SubSeq(<< >>, 1, 0 - 1) = << >>
        OBVIOUS
      <4>2. Top = 0
        BY <3>1 DEF Top
      <4> QED
        BY <4>1, <4>2, <3>1, <2>3
    <3>2. CASE locals # << >>
      BY <3>2, <1>1, AllButLast DEF Stacks, Top
    <3> QED
      BY <3>1, <3>2
  <2> QED
    BY <2>1, <2>2, <2>3, <2>4, <1>1, <1>3, <1>20, EmitTypes DEF emit_end, Step
<1> QED
  BY <1>4, <1>5, <1>6, <1>7, <1>8, <1>9, <1>10, <1>12, <1>13, <1>14, <1>15, <1>16, <1>17,
     <1>18, <1>19, <1>20 DEF CodegenNext

-----------------------------------------------------------------------------
(* Codegen: the call stack and the levels *)

LEMMA EmitShape ==
  ASSUME ScopeInv, phase \in Emitting, UNCHANGED <<prog, phase>>,
         pc' \in 1 .. Len(prog) + 1, Len(calls') = Level(prog, pc'),
         \A i \in DOMAIN calls' : prog[calls'[i]].k = "fn" => i = 1 /\ phase = "functions"
  PROVE  Shape'
  BY DEF Shape, Emitting, Checking

\* Codegen goes on behind a statement, never behind an "end".
LEMMA SkipsStatements ==
  ASSUME ScopeInv, skip
  PROVE  Level(prog, Behind(prog, pc)) = Level(prog, pc)
<1>1. phase \in Emitting /\ AtNode /\ calls \in Seq(Positions) /\ Len(calls) = Level(prog, pc)
  BY DEF skip, ScopeInv, TypeOK, SemanticTypeOK, Shape
<1>2. CASE Elsewhere /\ calls = << >>
  <2>1. Level(prog, pc) = 0
    BY <1>1, <1>2
  <2> QED
    BY <2>1, <1>1, NodeLevel
<1>3. CASE Elsewhere /\ calls # << >>
  BY <1>1, <1>3, NodeLevel DEF Elsewhere
<1>4. CASE ~Elsewhere
  BY <1>1, <1>4, NodeLevel DEF skip
<1> QED
  BY <1>2, <1>3, <1>4

LEMMA CodegenShape ==
  ASSUME ScopeInv, CodegenNext
  PROVE  Shape'
<1>1. /\ calls \in Seq(Positions)
      /\ phase \in Emitting =>
           /\ Len(calls) = Level(prog, pc)
           /\ \A i \in DOMAIN calls : prog[calls[i]].k = "fn" => i = 1 /\ phase = "functions"
  BY DEF ScopeInv, TypeOK, SemanticTypeOK, Shape
<1>2. AtNode => /\ pc + 1 \in 1 .. Len(prog) + 1 /\ Behind(prog, pc) \in 1 .. Len(prog) + 1
                /\ pc \in Positions
  BY NodeFacts
<1>3. ASSUME phase \in Emitting, AtNode, Step, Call, Node.k \in Openers,
             Node.k = "fn" => calls = << >> /\ phase = "functions"
      PROVE  Shape'
  <2>1. Len(calls') = Level(prog, pc')
    BY <1>1, <1>3, NodeLevel, CallsType DEF Step
  <2>2. ASSUME NEW i \in DOMAIN calls', prog[calls'[i]].k = "fn"
        PROVE  i = 1 /\ phase = "functions"
    <3>1. CASE i \in DOMAIN calls
      <4>1. calls'[i] = calls[i]
        BY <3>1, <1>1, <1>3 DEF Call
      <4> QED
        BY <4>1, <3>1, <2>2, <1>1, <1>3
    <3>2. CASE i \notin DOMAIN calls
      <4>1. i = Len(calls) + 1 /\ calls'[i] = pc
        BY <3>2, <1>1, <1>2, <1>3 DEF Call
      <4>2. calls = << >> /\ phase = "functions"
        BY <4>1, <2>2, <1>3 DEF Node
      <4> QED
        BY <4>1, <4>2
    <3> QED
      BY <3>1, <3>2
  <2> QED
    BY <2>1, <2>2, <1>2, <1>3, EmitShape DEF Step
<1>4. ASSUME phase \in Emitting, AtNode, Step, UNCHANGED calls, Node.k \notin Openers \cup {"end"}
      PROVE  Shape'
  BY <1>1, <1>2, <1>4, NodeLevel, EmitShape DEF Step
<1>5. CASE skip
  <2>1. phase \in Emitting /\ AtNode /\ pc' = Behind(prog, pc) /\ UNCHANGED <<prog, phase, calls>>
    BY <1>5 DEF skip
  <2> QED
    BY <2>1, <1>1, <1>2, <1>5, SkipsStatements, EmitShape
<1>6. CASE emit_functions_end
  <2>1. calls = << >>
    BY <1>6, AtTheEnd DEF emit_functions_end, Emitting
  <2> QED
    BY <2>1, <1>6, AtTheStart DEF emit_functions_end, Shape, Checking, Emitting
<1>7. CASE emit_init_end
  BY <1>7 DEF emit_init_end, Shape, ScopeInv, Checking, Emitting
<1>8. CASE emit_function
  <2>1. calls = << >> /\ phase = "functions"
    BY <1>8 DEF emit_function, Emit, Elsewhere
  <2> QED
    BY <2>1, <1>3, <1>8 DEF emit_function, Emit, Openers
<1>9. CASE emit_param
  BY <1>4, <1>9 DEF emit_param, Emit, Openers
<1>10. CASE emit_declaration
  BY <1>4, <1>10 DEF emit_declaration, Live, Emit, Openers
<1>11. CASE bad_cast
  BY <1>11 DEF bad_cast, Shape, ScopeInv, Checking, Emitting
<1>12. CASE emit_assing
  BY <1>4, <1>12 DEF emit_assing, Live, Emit, Openers
<1>13. CASE emit_while_expr
  BY <1>4, <1>13 DEF emit_while_expr, Emit, Openers
<1>14. CASE emit_use
  BY <1>4, <1>14 DEF emit_use, Live, Emit, Openers
<1>15. CASE emit_if
  BY <1>3, <1>15 DEF emit_if, Live, Emit, Openers
<1>16. CASE emit_else
  BY <1>4, <1>16 DEF emit_else, Emit, Openers
<1>17. CASE emit_whileloop
  BY <1>3, <1>17 DEF emit_whileloop, Live, Emit, Openers
<1>18. CASE emit_for_loop
  BY <1>3, <1>18 DEF emit_for_loop, Live, Emit, Openers
<1>19. CASE emit_jump
  BY <1>4, <1>19 DEF emit_jump, Live, Emit, Openers
<1>20. CASE emit_end
  <2>1. /\ phase \in Emitting /\ AtNode /\ Node.k = "end" /\ calls # << >> /\ Return /\ Step
    BY <1>20 DEF emit_end, Emit
  <2>2. Len(calls') = Level(prog, pc')
    BY <2>1, <1>1, NodeLevel, CallsType DEF Step
  <2>3. /\ Len(calls) \in Nat \ {0} /\ calls' \in Seq(Positions) /\ Len(calls') = Len(calls) - 1
        /\ \A i \in 1 .. Len(calls) - 1 : calls'[i] = calls[i]
    BY <2>1, <1>1, AllButLast DEF Return
  <2>4. ASSUME NEW i \in DOMAIN calls'
        PROVE  i \in DOMAIN calls /\ calls'[i] = calls[i]
    BY <2>3, <1>1
  <2>5. \A i \in DOMAIN calls' : prog[calls'[i]].k = "fn" => i = 1 /\ phase = "functions"
    BY <2>1, <2>4, <1>1
  <2> QED
    BY <2>1, <2>2, <2>5, <1>2, EmitShape DEF Step
<1> QED
  BY <1>5, <1>6, <1>7, <1>8, <1>9, <1>10, <1>11, <1>12, <1>13, <1>14, <1>15, <1>16, <1>17,
     <1>18, <1>19, <1>20 DEF CodegenNext

-----------------------------------------------------------------------------
(* Codegen: its scopes *)

Opened == {"fn", "for", "while"}

LEMMA CodegenScopesMatch ==
  ASSUME ScopeInv, CodegenNext
  PROVE  ScopesMatchCalls'
<1>1. /\ calls \in Seq(Positions) /\ Top \in Nat /\ Count(prog, calls, Opened) \in Nat
      /\ locals \in Stacks(Storages)
  <2>1. calls \in Seq(Positions)
    BY DEF ScopeInv, TypeOK, SemanticTypeOK
  <2> QED
    BY <2>1, CountType, LocalsType
<1>2. phase \in Emitting =>
        Top = Count(prog, calls, Opened) + (IF phase = "init" THEN 1 ELSE 0)
  BY MatchCounts DEF ScopeInv, Opened
<1>3. ASSUME phase' \in Emitting,
             Top' = Count(prog', calls', Opened) + (IF phase' = "init" THEN 1 ELSE 0)
      PROVE  ScopesMatchCalls'
  BY <1>3 DEF ScopesMatchCalls, Running, Count, Emitting, Opened
<1>4. ASSUME phase \in Emitting, UNCHANGED <<prog, phase, calls>>, Len(locals') = Top
      PROVE  ScopesMatchCalls'
  BY <1>2, <1>3, <1>4 DEF Top
<1>5. ASSUME phase \in Emitting, AtNode, Call, UNCHANGED <<prog, phase>>,
             Len(locals') = Top + (IF Node.k \in Opened THEN 1 ELSE 0)
      PROVE  ScopesMatchCalls'
  <2>1. Count(prog', calls', Opened) = Count(prog, calls, Opened) + (IF Node.k \in Opened THEN 1 ELSE 0)
    BY <1>5, CallCounts
  <2> QED
    BY <2>1, <1>1, <1>2, <1>3, <1>5 DEF Top
<1>6. ASSUME phase' \notin Emitting \cup {"check"}
      PROVE  ScopesMatchCalls'
  BY <1>6 DEF ScopesMatchCalls
<1>7. CASE skip
  BY <1>4, <1>7 DEF skip, generated, Top
<1>8. CASE emit_functions_end
  <2>1. calls' = << >> /\ phase' = "init"
    BY <1>8, AtTheEnd DEF emit_functions_end, Emitting
  <2>2. Count(prog', << >>, Opened) = 0 /\ Top' = 1
    BY <1>8, CountNone, OneScope DEF emit_functions_end, Top
  <2> QED
    BY <2>1, <2>2, <1>3 DEF Emitting
<1>9. CASE emit_init_end
  BY <1>6, <1>9 DEF emit_init_end, Emitting
<1>10. CASE emit_function
  <2>1. phase = "functions" /\ calls = << >> /\ AtNode /\ Node.k = "fn" /\ Call /\ UNCHANGED <<prog, phase>>
    BY <1>10 DEF emit_function, Emit, Elsewhere, Step
  <2>2. Top = 0
    BY <2>1, <1>2, CountNone DEF Emitting
  <2>3. Len(locals') = 1
    BY <1>10, OneScope DEF emit_function
  <2> QED
    BY <2>1, <2>2, <2>3, <1>5 DEF Opened, Emitting
<1>11. CASE emit_param
  BY <1>1, <1>4, <1>11, ResolvedType, EnterType DEF emit_param, Emit, Step, Top
<1>12. CASE emit_declaration
  <2>1. AtNode /\ Node.k = "var"
    BY <1>12 DEF emit_declaration, Live, Emit
  <2>2. PICK s \in Storages : locals' = Declared(Node.lhs.name, s)
    BY <2>1, <1>12, ResolvedType DEF emit_declaration
  <2>3. Len(locals') = Top
    BY <2>1, <2>2, DeclaredType
  <2> QED
    BY <2>3, <1>4, <1>12 DEF emit_declaration, Live, Emit, Step
<1>13. CASE bad_cast
  BY <1>6, <1>13 DEF bad_cast, Emitting
<1>14. CASE emit_assing
  BY <1>4, <1>14 DEF emit_assing, Live, Emit, Step, Top
<1>15. CASE emit_while_expr
  BY <1>4, <1>15 DEF emit_while_expr, Emit, Step, Top
<1>16. CASE emit_use
  BY <1>4, <1>16 DEF emit_use, Live, Emit, Step, Top
<1>17. CASE emit_if
  BY <1>1, <1>5, <1>17 DEF emit_if, Live, Emit, Step, Opened, Top
<1>18. CASE emit_else
  BY <1>4, <1>18 DEF emit_else, Emit, Step, Top
<1>19. CASE emit_whileloop
  <2>1. Len(locals') = Top + 1
    BY <1>1, <1>19, PushedLocals DEF emit_whileloop, Top
  <2> QED
    BY <2>1, <1>5, <1>19 DEF emit_whileloop, Live, Emit, Step, Opened
<1>20. CASE emit_for_loop
  <2>1. AtNode /\ Node.k = "for"
    BY <1>20 DEF emit_for_loop, Live, Emit
  <2>2. PICK s \in Storages : locals' = Append(Declared(Node.lhs.name, s), NoLocals)
    BY <2>1, <1>20, ResolvedType DEF emit_for_loop
  <2>3. Declared(Node.lhs.name, s) \in Stacks(Storages) /\ Len(Declared(Node.lhs.name, s)) = Top
    BY <2>1, DeclaredType
  <2>4. Len(locals') = Top + 1
    BY <2>2, <2>3, PushedLocals
  <2> QED
    BY <2>1, <2>4, <1>5, <1>20 DEF emit_for_loop, Live, Emit, Step, Opened
<1>21. CASE emit_jump
  BY <1>4, <1>21 DEF emit_jump, Live, Emit, Step, Top
<1>22. CASE emit_end
  <2>1. phase \in Emitting /\ calls # << >> /\ Return /\ UNCHANGED <<prog, phase>>
    BY <1>22 DEF emit_end, Emit, Step
  <2>2. /\ Count(prog', calls', Opened) = Count(prog, calls, Opened) - (IF Caller \in Opened THEN 1 ELSE 0)
        /\ Len(calls) \in Nat \ {0} /\ Len(calls') = Len(calls) - 1 /\ calls' \in Seq(Positions)
    BY <2>1, <1>1, ReturnCounts, AllButLast DEF Return
  <2>3. Count(prog', calls', Opened) \in Nat
    BY <2>2, CountType
  <2>4. CASE Caller \in {"while", "for"}
    <3>1. Count(prog, calls, Opened) >= 1 /\ Top >= 1
      BY <2>1, <2>2, <2>3, <2>4, <1>1, <1>2 DEF Opened
    <3>2. locals' = SubSeq(locals, 1, Top - 1) /\ locals # << >>
      BY <3>1, <2>4, <1>22 DEF emit_end, Top
    <3>3. Len(locals') = Top - 1
      BY <3>2, <1>1, AllButLast DEF Top, Stacks
    <3> QED
      BY <3>3, <2>1, <2>2, <2>4, <1>1, <1>2, <1>3 DEF Opened, Top
  <2>5. CASE Caller = "fn"
    <3>1. Len(calls) = 1 /\ phase = "functions"
      BY <2>1, <2>2, <2>5, <1>1 DEF ScopeInv, Shape, Caller
    <3>2. calls' = << >>
      BY <3>1, <2>2
    <3>3. Top' = 0
      BY <2>5, <1>22 DEF emit_end, Top
    <3>4. Count(prog', << >>, Opened) = 0
      BY CountNone
    <3> QED
      BY <3>1, <3>2, <3>3, <3>4, <2>1, <1>3
  <2>6. CASE Caller \notin Opened
    BY <2>1, <2>2, <2>6, <1>1, <1>2, <1>3, <1>22 DEF emit_end, Opened, Top
  <2> QED
    BY <2>4, <2>5, <2>6 DEF Opened
<1> QED
  BY <1>7, <1>8, <1>9, <1>10, <1>11, <1>12, <1>13, <1>14, <1>15, <1>16, <1>17,
     <1>18, <1>19, <1>20, <1>21, <1>22 DEF CodegenNext

-----------------------------------------------------------------------------
(* Types and scopes: theorems *)

\* The scopes and the loop depth are those of the running handlers in every state,
\* because every token pushes or pops what the level of the next one asks for.
LEMMA NextInvariant ==
  ScopeInv /\ [Next]_vars => ScopeInv'
<1> SUFFICES ASSUME ScopeInv, [Next]_vars PROVE ScopeInv'
  OBVIOUS
<1>1. CASE SemanticNext /\ UNCHANGED generated
  <2>1. SemanticTypeOK'
    BY <1>1, SemanticTypes
  <2>2. TypeOK'
    BY <2>1, <1>1 DEF generated, ScopeInv, TypeOK
  <2> QED
    BY <2>2, <1>1, SemanticShape, SemanticScopesMatch DEF ScopeInv
<1>2. CASE CodegenNext
  BY <1>2, CodegenTypes, CodegenShape, CodegenScopesMatch DEF ScopeInv
<1>3. CASE UNCHANGED vars
  <2>1. TypeOK'
    BY <1>3 DEF vars, semantic, generated, ScopeInv, TypeOK, SemanticTypeOK
  <2>2. ScopesMatchCalls'
    BY <1>3, Zenon DEF vars, semantic, generated, ScopeInv, ScopesMatchCalls, Running, Top
  <2>3. Shape'
    BY <1>3 DEF vars, semantic, generated, ScopeInv, Shape
  <2> QED
    BY <2>1, <2>2, <2>3 DEF ScopeInv
<1> QED
  BY <1>1, <1>2, <1>3 DEF Next

\* The invariant of both passes, for every set of programs (semantic_check and
\* codegen).
THEOREM ScopeInvariant == Spec => []ScopeInv
  BY InitInvariant, NextInvariant, PTL DEF Spec

\* No handler, and no order of handlers, takes a variable out of its type: no scope is
\* popped that is not there, and g_in_loop is never negative.
THEOREM TypeCorrect == Spec => []TypeOK
<1>1. ScopeInv => TypeOK
  BY DEF ScopeInv
<1> QED
  BY <1>1, ScopeInvariant, PTL

\* scope_push and scope_pop, the changes of g_in_loop, and the scopes of codegen are
\* paired whatever way the handlers are left.
THEOREM ScopesPaired == Spec => []ScopesMatchCalls
<1>1. ScopeInv => ScopesMatchCalls
  BY DEF ScopeInv
<1> QED
  BY <1>1, ScopeInvariant, PTL

-----------------------------------------------------------------------------
(* The scope rules, read off the walk *)

\* The constructs p is in; an "end" is in the construct it ends.
Inside(P, p) == {o \in DOMAIN P : Opens(P, o) /\ o < p /\ p <= End(P, o)}

\* Those of them that have a scope, outermost first.
Owners(P, p, c) ==
  /\ c \in Seq(DOMAIN P)
  /\ \A k, l \in DOMAIN c : k < l => c[k] < c[l]
  /\ {c[k] : k \in DOMAIN c} = {o \in Inside(P, p) : P[o].k \in {"fn", "for"}}

\* The local declarations of x in front of p that belong to o.
Owned(P, p, o, x) ==
  {d \in DOMAIN P : d < p /\ Declares(P, d, x) /\ ~IsGlobal(P, d) /\ ScopeOf(P, d) = o}
Holds(P, p, o, s) == \A x \in Names : Owned(P, p, o, x) = {s[x]} \ {0}

\* A scope for the file and one for each owner.
Layered(P, p, c, s) ==
  /\ Owners(P, p, c) /\ Len(s) = Len(c) + 2 /\ Holds(P, p, 0, s[2])
  /\ \A k \in DOMAIN c : Holds(P, p, c[k], s[k + 2])

\* The symbol table when the check has come to p: the globals, and one scope for the
\* file and for every construct around p.
TableAt(P, p, s) ==
  /\ \A x \in Names : s[1][x] = First(Globals(P, x))
  /\ \E c \in Seq(DOMAIN P) : Layered(P, p, c, s)

\* The globals in front of p have values that obey the scope rules.
GlobalsRead(P, p) ==
  \A d \in DOMAIN P :
    IsGlobal(P, d) /\ d < p /\ P[d].rhs # NoRef =>
      P[d].rhs.isglobal /\ Read(P, d, P[d].rhs) # 0

\* One position of WellScoped.
WellScopedAt(P, p) ==
  /\ P[p].rhs # NoRef => Read(P, p, P[p].rhs) # 0
  /\ P[p].k \in {"set", "step"} =>
       /\ Assigned(P, p, P[p].lhs) # 0
       /\ Mutable(P, Assigned(P, p, P[p].lhs))
       /\ P[p].lhs.isglobal => Function(P, p) = 0
  /\ P[p].k \in {"var", "param"} /\ ~IsGlobal(P, p) => ~Redeclared(P, p, P[p].lhs.name)
  /\ P[p].k = "break" => \E o \in DOMAIN P : P[o].k \in {"for", "while"} /\ Within(P, p, o)
  /\ P[p].k = "ret" => Function(P, p) # 0

\* As long as there is no error, the symbol table is what the scope rules say: while
\* the globals are registered,
Registering ==
  /\ \A x \in Names : scopes[1][x] = First({d \in Globals(prog, x) : d < pc})
  /\ is_glob_var_allowed /\ ~g_in_fn
  /\ GlobalsRead(prog, pc)

\* and while the program is checked.
Checked ==
  /\ Around(prog, pc, calls) /\ {calls[k] : k \in DOMAIN calls} = Inside(prog, pc)
  /\ TableAt(prog, pc, scopes)
  /\ GlobalsRead(prog, Len(prog) + 1)
  /\ is_glob_var_allowed <=> \A o \in DOMAIN prog : o < pc => prog[o].k # "fn"
  /\ g_in_fn <=> \E o \in Inside(prog, pc) : prog[o].k = "fn"
  /\ ~Peculiar(prog) => \A p \in DOMAIN prog : p < pc => WellScopedAt(prog, p)

Bound ==
  \A p \in DOMAIN prog :
    /\ bind[p] # 0 /\ ~Masked(prog, p, prog[p].rhs) => bind[p] = Read(prog, p, prog[p].rhs)
    /\ target[p] # 0 /\ ~Masked(prog, p, prog[p].lhs) => target[p] = Assigned(prog, p, prog[p].lhs)

RulesInv ==
  /\ phase = "register" /\ errors = {} => Registering /\ Bound
  /\ phase = "check" /\ errors = {} => Checked /\ Bound
  /\ phase \in Checking /\ errors # {} /\ ~Peculiar(prog) => ~WellScoped(prog)
  /\ BindsLexically /\ AcceptsWellScoped

-----------------------------------------------------------------------------
(* First and Last *)

LEMMA LeastExists ==
  ASSUME NEW n \in Nat, NEW S, S \subseteq 1 .. n, S # {}
  PROVE  \E i \in S : \A j \in S : i <= j
<1> DEFINE T == {m \in 1 .. n : \E i \in S : m = n + 1 - i}
<1>0. \A j \in S : j \in 1 .. n /\ n + 1 - j \in T
  OBVIOUS
<1>1. T \subseteq 1 .. n /\ T # {}
  BY <1>0
<1>2. PICK m \in T : \A k \in T : k <= m
  BY <1>1, MaxExists
<1>3. PICK i \in S : m = n + 1 - i
  OBVIOUS
<1>4. \A j \in S : i <= j
  <2> TAKE j \in S
  <2>1. n + 1 - j <= m /\ j \in 1 .. n /\ i \in 1 .. n
    BY <1>0, <1>2
  <2> HIDE DEF T
  <2> QED
    BY <2>1, <1>3
<1> QED
  BY <1>4

LEMMA FirstOf ==
  ASSUME NEW n \in Nat, NEW S, S \subseteq 1 .. n
  PROVE  /\ S = {} => First(S) = 0
         /\ S # {} => First(S) \in S /\ First(S) # 0 /\ \A e \in S : First(S) <= e
<1>1. CASE S # {}
  <2>1. \E i \in S : \A j \in S : i <= j
    BY <1>1, LeastExists
  <2>2. First(S) = CHOOSE i \in S : \A j \in S : i <= j
    BY <1>1 DEF First
  <2>3. First(S) \in S /\ \A j \in S : First(S) <= j
    BY <2>1, <2>2
  <2>4. First(S) \in 1 .. n
    BY <2>3
  <2> QED
    BY <1>1, <2>3, <2>4
<1> QED
  BY <1>1 DEF First

LEMMA LastOf ==
  ASSUME NEW n \in Nat, NEW S, S \subseteq 1 .. n
  PROVE  /\ S = {} => Last(S) = 0
         /\ S # {} => Last(S) \in S /\ Last(S) # 0 /\ \A e \in S : e <= Last(S)
<1>1. CASE S # {}
  <2>1. \E i \in S : \A j \in S : j <= i
    BY <1>1, MaxExists
  <2>2. Last(S) = CHOOSE i \in S : \A j \in S : j <= i
    BY <1>1 DEF Last
  <2>3. Last(S) \in S /\ \A j \in S : j <= Last(S)
    BY <2>1, <2>2
  <2>4. Last(S) \in 1 .. n
    BY <2>3
  <2> QED
    BY <1>1, <2>3, <2>4
<1> QED
  BY <1>1 DEF Last

LEMMA FirstIs ==
  ASSUME NEW n \in Nat, NEW S, S \subseteq 1 .. n, NEW d \in S, \A e \in S : d <= e
  PROVE  First(S) = d
<1>1. First(S) \in S /\ First(S) <= d
  BY FirstOf
<1>2. First(S) \in 1 .. n /\ d \in 1 .. n /\ d <= First(S)
  BY <1>1
<1> QED
  BY <1>1, <1>2

LEMMA LastIs ==
  ASSUME NEW n \in Nat, NEW S, S \subseteq 1 .. n, NEW d \in S, \A e \in S : e <= d
  PROVE  Last(S) = d
<1>1. Last(S) \in S /\ d <= Last(S)
  BY LastOf
<1>2. Last(S) \in 1 .. n /\ d \in 1 .. n /\ Last(S) <= d
  BY <1>1
<1> QED
  BY <1>1, <1>2

\* The first is the first of those in front of p, if there is one.
LEMMA FirstBelow ==
  ASSUME NEW n \in Nat, NEW S, S \subseteq 1 .. n, NEW p \in Nat, {d \in S : d < p} # {}
  PROVE  First({d \in S : d < p}) = First(S)
<1> DEFINE T == {d \in S : d < p}
<1>1. PICK d \in T : TRUE
  OBVIOUS
<1>2. First(S) \in S /\ \A e \in S : First(S) <= e
  BY <1>1, FirstOf
<1>3. First(S) <= d /\ d \in Nat /\ d < p /\ First(S) \in Nat
  <2>1. d \in S /\ d < p
    BY <1>1
  <2>2. d \in 1 .. n /\ First(S) \in 1 .. n
    BY <2>1, <1>2
  <2> QED
    BY <1>2, <2>1, <2>2
<1>4. First(S) < p
  BY <1>3
<1>5. First(S) \in T /\ (\A e \in T : First(S) <= e) /\ T \subseteq 1 .. n
  BY <1>2, <1>4
<1> HIDE DEF T
<1> QED
  BY <1>5, FirstIs DEF T

-----------------------------------------------------------------------------
(* The constructs around a token *)

LEMMA InsideStart ==
  ASSUME NEW P \in Programs
  PROVE  Inside(P, 1) = {}
<1>1. DOMAIN P = 1 .. Len(P) /\ Len(P) \in Nat
  BY ProgramFacts
<1> QED
  BY <1>1 DEF Inside

\* Past a token that opens or ends nothing,
LEMMA InsideNext ==
  ASSUME NEW P \in Programs, NEW p \in DOMAIN P, P[p].k # "end", ~Opens(P, p)
  PROVE  Inside(P, p + 1) = Inside(P, p)
<1>1. DOMAIN P = 1 .. Len(P) /\ Len(P) \in Nat /\ Closed(P)
  BY ProgramFacts, ProgramClosed
<1>2. ASSUME NEW o \in DOMAIN P, Opens(P, o)
      PROVE  o < p + 1 /\ p + 1 <= End(P, o) <=> o < p /\ p <= End(P, o)
  <2>1. End(P, o) \in DOMAIN P /\ P[End(P, o)].k = "end"
    BY <1>1, <1>2, EndCloses
  <2>2. p # End(P, o) /\ o # p
    BY <2>1, <1>2
  <2>3. p \in Nat /\ o \in Nat /\ End(P, o) \in Nat
    BY <1>1, <2>1
  <2> QED
    BY <2>2, <2>3
<1> QED
  BY <1>2 DEF Inside

\* into a construct,
LEMMA InsideOpener ==
  ASSUME NEW P \in Programs, NEW p \in DOMAIN P, Opens(P, p)
  PROVE  Inside(P, p + 1) = Inside(P, p) \cup {p}
<1>1. DOMAIN P = 1 .. Len(P) /\ Len(P) \in Nat /\ Closed(P)
  BY ProgramFacts, ProgramClosed
<1>2. ASSUME NEW o \in DOMAIN P, Opens(P, o)
      PROVE  o < p + 1 /\ p + 1 <= End(P, o) <=> (o < p /\ p <= End(P, o)) \/ o = p
  <2>1. End(P, o) \in DOMAIN P /\ P[End(P, o)].k = "end" /\ o < End(P, o)
    BY <1>1, <1>2, EndCloses
  <2>2. p # End(P, o)
    BY <2>1 DEF Opens, Openers
  <2>3. p \in Nat /\ o \in Nat /\ End(P, o) \in Nat
    BY <1>1, <2>1
  <2> QED
    BY <2>1, <2>2, <2>3
<1> QED
  BY <1>2 DEF Inside

\* and out of it; it is the innermost one.
LEMMA InsideEnd ==
  ASSUME NEW P \in Programs, NEW o \in DOMAIN P, Opens(P, o)
  PROVE  /\ o \in Inside(P, End(P, o))
         /\ \A q \in Inside(P, End(P, o)) : q <= o
         /\ Inside(P, End(P, o) + 1) = Inside(P, End(P, o)) \ {o}
<1> DEFINE p == End(P, o)
<1>1. DOMAIN P = 1 .. Len(P) /\ Len(P) \in Nat /\ Closed(P)
  BY ProgramFacts, ProgramClosed
<1>2. p \in DOMAIN P /\ o < p /\ P[p].k = "end" /\ Level(P, p) = Level(P, o) + 1
  BY <1>1, EndCloses
<1>3. p \in Nat /\ o \in Nat
  BY <1>1, <1>2
<1>4. ASSUME NEW q \in DOMAIN P, Opens(P, q), q < p, p <= End(P, q)
      PROVE  q <= o /\ (End(P, q) = p => q = o)
  <2>1. q \in Nat /\ End(P, q) \in Nat
    BY <1>1, <1>4, EndCloses
  <2>2. ~(o < q)
    <3>1. SUFFICES ASSUME o < q PROVE FALSE
      OBVIOUS
    <3>2. q <= End(P, o)
      BY <1>3, <1>4, <2>1
    <3>3. End(P, q) < End(P, o)
      BY <1>1, <1>4, <3>1, <3>2, EndsInside
    <3> QED
      BY <1>3, <1>4, <2>1, <3>3
  <2>3. ASSUME End(P, q) = p PROVE q = o
    <3>1. Level(P, p) = Level(P, q) + 1
      BY <1>1, <1>4, <2>3, EndCloses
    <3>2. Level(P, q) = Level(P, o)
      <4>1. Level(P, q) \in Int /\ Level(P, o) \in Int
        BY <1>1, LevelOfNext
      <4> QED
        BY <3>1, <1>2, <4>1
    <3>3. o < p /\ p <= End(P, o)
      BY <1>2, <1>3
    <3> QED
      BY <1>1, <1>3, <1>4, <3>2, <3>3, OneConstruct
  <2> QED
    BY <2>1, <2>2, <2>3, <1>3
<1>5. o \in Inside(P, p)
  BY <1>2, <1>3 DEF Inside
<1>6. \A q \in Inside(P, p) : q <= o
  BY <1>4 DEF Inside
<1>7. ASSUME NEW q \in DOMAIN P, Opens(P, q)
      PROVE  q < p + 1 /\ p + 1 <= End(P, q) <=> (q < p /\ p <= End(P, q)) /\ q # o
  <2>1. q \in Nat /\ End(P, q) \in Nat
    BY <1>1, <1>7, EndCloses
  <2>2. q # p
    BY <1>2, <1>7 DEF Opens, Openers
  <2> QED
    BY <2>1, <2>2, <1>3, <1>4, <1>7
<1>8. Inside(P, p + 1) = Inside(P, p) \ {o}
  BY <1>7 DEF Inside
<1> QED
  BY <1>5, <1>6, <1>8

LEMMA WithinInside ==
  ASSUME NEW P \in Programs, NEW p \in DOMAIN P, NEW o \in DOMAIN P
  PROVE  /\ Within(P, p, o) => o \in Inside(P, p)
         /\ P[p].k # "end" /\ o \in Inside(P, p) => Within(P, p, o)
<1>1. DOMAIN P = 1 .. Len(P) /\ Len(P) \in Nat /\ Closed(P)
  BY ProgramFacts, ProgramClosed
<1>2. CASE Opens(P, o)
  <2>1. End(P, o) \in DOMAIN P /\ P[End(P, o)].k = "end"
    BY <1>1, <1>2, EndCloses
  <2>2. p \in Nat /\ End(P, o) \in Nat
    BY <1>1, <2>1
  <2> QED
    BY <2>1, <2>2 DEF Within, Inside
<1> QED
  BY <1>2 DEF Within, Inside

-----------------------------------------------------------------------------
(* Declarations and their scopes *)

\* The scope of a declaration.
LEMMA ScopeOfFacts ==
  ASSUME NEW P \in Programs, NEW d \in DOMAIN P, P[d].k \in {"var", "for", "param"}
  PROVE  LET A == {o \in Inside(P, d) : P[o].k \in {"fn", "for"}} IN
         /\ P[d].k = "for" => ScopeOf(P, d) = d
         /\ P[d].k # "for" /\ A = {} => ScopeOf(P, d) = 0
         /\ P[d].k # "for" /\ A # {} => ScopeOf(P, d) \in A /\ \A o \in A : o <= ScopeOf(P, d)
<1> DEFINE A == {o \in Inside(P, d) : P[o].k \in {"fn", "for"}}
           B == {o \in DOMAIN P : P[o].k \in {"fn", "for"} /\ Within(P, d, o)}
<1>0. P[d].k # "for" =>
        ScopeOf(P, d) = IF B = {} THEN 0 ELSE CHOOSE o \in B : \A q \in B : q <= o
  BY DEF ScopeOf
<1>1. B = A
  BY WithinInside DEF Inside
<1>2. A \subseteq 1 .. Len(P) /\ Len(P) \in Nat
  BY ProgramFacts DEF Inside
<1> HIDE DEF A, B
<1>3. A # {} => \E o \in A : \A q \in A : q <= o
  BY <1>2, MaxExists
<1>4. P[d].k # "for" =>
        ScopeOf(P, d) = IF A = {} THEN 0 ELSE CHOOSE o \in A : \A q \in A : q <= o
  BY <1>0, <1>1
<1>5. P[d].k = "for" => ScopeOf(P, d) = d
  BY DEF ScopeOf
<1>6. P[d].k # "for" /\ A # {} => ScopeOf(P, d) \in A /\ \A o \in A : o <= ScopeOf(P, d)
  BY <1>3, <1>4
<1>7. P[d].k # "for" /\ A = {} => ScopeOf(P, d) = 0
  BY <1>4
<1> QED
  BY <1>5, <1>6, <1>7 DEF A

LEMMA ScopeOfRange ==
  ASSUME NEW P \in Programs, NEW d \in DOMAIN P, P[d].k \in {"var", "for", "param"}
  PROVE  /\ ScopeOf(P, d) \in Nat /\ ScopeOf(P, d) <= d
         /\ ScopeOf(P, d) = d => P[d].k = "for"
         /\ P[d].k # "for" /\ ScopeOf(P, d) # 0 => ScopeOf(P, d) \in Inside(P, d)
<1>1. DOMAIN P = 1 .. Len(P) /\ Len(P) \in Nat
  BY ProgramFacts
<1>2. \A o \in Inside(P, d) : o \in DOMAIN P /\ o < d
  BY DEF Inside
<1>3. (ScopeOf(P, d) = d /\ P[d].k = "for") \/ ScopeOf(P, d) = 0 \/ ScopeOf(P, d) \in Inside(P, d)
  BY ScopeOfFacts
<1>4. CASE ScopeOf(P, d) \in Inside(P, d)
  BY <1>1, <1>2, <1>4
<1>5. CASE ScopeOf(P, d) = 0
  BY <1>1, <1>5
<1>6. CASE ScopeOf(P, d) = d /\ P[d].k = "for"
  BY <1>1, <1>6
<1> QED
  BY <1>3, <1>4, <1>5, <1>6

\* It is that of the innermost owner around it.
LEMMA ScopeIsLast ==
  ASSUME NEW P \in Programs, NEW p \in DOMAIN P, P[p].k \in {"var", "param"},
         NEW c, Owners(P, p, c)
  PROVE  /\ c = << >> => ScopeOf(P, p) = 0
         /\ c # << >> => ScopeOf(P, p) = c[Len(c)]
<1> DEFINE A == {o \in Inside(P, p) : P[o].k \in {"fn", "for"}}
<1>1. /\ c \in Seq(DOMAIN P) /\ {c[k] : k \in DOMAIN c} = A
      /\ \A k, l \in DOMAIN c : k < l => c[k] < c[l]
  BY DEF Owners
<1>2. DOMAIN c = 1 .. Len(c) /\ Len(c) \in Nat
  BY <1>1
<1>3. c = << >> => A = {}
  BY <1>1
<1>4. ASSUME c # << >>
      PROVE  c[Len(c)] \in A /\ \A o \in A : o <= c[Len(c)]
  <2>1. Len(c) \in DOMAIN c
    BY <1>1, <1>2, <1>4
  <2>2. c[Len(c)] \in A
    BY <1>1, <2>1
  <2>3. ASSUME NEW o \in A PROVE o <= c[Len(c)]
    <3>1. PICK k \in DOMAIN c : o = c[k]
      BY <1>1
    <3>2. c[k] \in Nat /\ c[Len(c)] \in Nat
      BY <1>1, <2>1, ProgramFacts
    <3>3. CASE k = Len(c)
      BY <3>1, <3>2, <3>3
    <3>4. CASE k # Len(c)
      <4>1. k < Len(c)
        BY <1>2, <3>4
      <4>2. c[k] < c[Len(c)]
        BY <1>1, <2>1, <4>1
      <4> QED
        BY <3>1, <3>2, <4>2
    <3> QED
      BY <3>3, <3>4
  <2> QED
    BY <2>2, <2>3
<1> HIDE DEF A
<1>5. A = {} => ScopeOf(P, p) = 0
  BY ScopeOfFacts DEF A
<1>6. A # {} => ScopeOf(P, p) \in A /\ \A o \in A : o <= ScopeOf(P, p)
  BY ScopeOfFacts DEF A
<1>7. ASSUME c # << >> PROVE ScopeOf(P, p) = c[Len(c)]
  <2>1. ScopeOf(P, p) <= c[Len(c)] /\ c[Len(c)] <= ScopeOf(P, p)
    BY <1>4, <1>6, <1>7
  <2>2. ScopeOf(P, p) \in Nat
    BY ScopeOfRange
  <2>3. c[Len(c)] \in Nat
    BY <1>1, <1>2, <1>7, ProgramFacts
  <2> QED
    BY <2>1, <2>2, <2>3
<1> QED
  BY <1>3, <1>5, <1>7

-----------------------------------------------------------------------------
(* The declarations of a scope *)

LEMMA OwnedStart ==
  ASSUME NEW P \in Programs, NEW o, NEW x
  PROVE  Owned(P, 1, o, x) = {}
<1>1. DOMAIN P = 1 .. Len(P) /\ Len(P) \in Nat
  BY ProgramFacts
<1> QED
  BY <1>1 DEF Owned

\* A declaration joins those of its scope.
LEMMA OwnedNext ==
  ASSUME NEW P \in Programs, NEW p \in DOMAIN P, NEW o, NEW x
  PROVE  /\ Declares(P, p, x) /\ ~IsGlobal(P, p) /\ ScopeOf(P, p) = o =>
              Owned(P, p + 1, o, x) = Owned(P, p, o, x) \cup {p}
         /\ ~(Declares(P, p, x) /\ ~IsGlobal(P, p) /\ ScopeOf(P, p) = o) =>
              Owned(P, p + 1, o, x) = Owned(P, p, o, x)
<1>1. DOMAIN P = 1 .. Len(P) /\ Len(P) \in Nat
  BY ProgramFacts
<1>2. \A d \in DOMAIN P : d < p + 1 <=> d < p \/ d = p
  BY <1>1
<1> QED
  BY <1>2 DEF Owned

LEMMA OwnedNew ==
  ASSUME NEW P \in Programs, NEW p \in DOMAIN P, NEW x
  PROVE  Owned(P, p, p, x) = {}
<1>1. ASSUME NEW d \in DOMAIN P, d < p, Declares(P, d, x) PROVE ScopeOf(P, d) # p
  <2>1. ScopeOf(P, d) \in Nat /\ ScopeOf(P, d) <= d
    BY <1>1, ScopeOfRange DEF Declares
  <2>2. d \in Nat /\ p \in Nat
    BY ProgramFacts
  <2> QED
    BY <1>1, <2>1, <2>2
<1> QED
  BY <1>1 DEF Owned

\* What is in scope at p is what the scopes around p own.
LEMMA OwnedInScope ==
  ASSUME NEW P \in Programs, NEW p \in DOMAIN P, P[p].k # "end", NEW x, NEW o,
         o = 0 \/ o \in Inside(P, p), NEW d \in Owned(P, p, o, x)
  PROVE  d \in Locals(P, p, x)
<1>1. o \in Inside(P, p) => Within(P, p, o)
  BY WithinInside DEF Inside
<1> QED
  BY <1>1 DEF Owned, Locals, InScope

LEMMA InScopeOwned ==
  ASSUME NEW P \in Programs, NEW p \in DOMAIN P, NEW x, NEW d \in Locals(P, p, x)
  PROVE  /\ d \in Owned(P, p, ScopeOf(P, d), x)
         /\ \/ ScopeOf(P, d) = 0
            \/ ScopeOf(P, d) \in {o \in Inside(P, p) : P[o].k \in {"fn", "for"}}
<1>1. /\ d \in DOMAIN P /\ Declares(P, d, x) /\ ~IsGlobal(P, d) /\ d < p
      /\ ScopeOf(P, d) = 0 \/ Within(P, p, ScopeOf(P, d))
  BY DEF Locals, InScope
<1>2. P[d].k \in {"var", "for", "param"}
  BY <1>1 DEF Declares
<1>3. ScopeOf(P, d) # 0 => ScopeOf(P, d) \in DOMAIN P /\ P[ScopeOf(P, d)].k \in {"fn", "for"}
  BY <1>1, <1>2, ScopeOfFacts DEF Inside
<1>4. ScopeOf(P, d) # 0 => ScopeOf(P, d) \in Inside(P, p)
  BY <1>1, <1>3, WithinInside
<1> QED
  BY <1>1, <1>3, <1>4 DEF Owned

\* What an outer scope owns was declared in front of the inner one.
LEMMA OuterFirst ==
  ASSUME NEW P \in Programs, NEW p \in DOMAIN P, NEW x,
         NEW o, NEW q \in Inside(P, p), P[q].k \in {"fn", "for"}, o < q,
         NEW d \in Owned(P, p, o, x), NEW e \in Owned(P, p, q, x)
  PROVE  d < e
<1>1. /\ d \in DOMAIN P /\ d < p /\ Declares(P, d, x) /\ ScopeOf(P, d) = o
      /\ e \in DOMAIN P /\ e < p /\ Declares(P, e, x) /\ ScopeOf(P, e) = q
  BY DEF Owned
<1>2. /\ P[d].k \in {"var", "for", "param"} /\ P[e].k \in {"var", "for", "param"}
      /\ q \in DOMAIN P /\ Opens(P, q) /\ p <= End(P, q)
  BY <1>1 DEF Declares, Inside
<1>3. /\ d \in Nat /\ e \in Nat /\ q \in Nat /\ p \in Nat /\ o \in Nat /\ End(P, q) \in Nat
      /\ q <= e
  <2>1. o \in Nat /\ q <= e
    BY <1>1, <1>2, ScopeOfRange
  <2>2. d \in Nat /\ e \in Nat /\ q \in Nat /\ p \in Nat
    BY <1>1, <1>2, ProgramFacts
  <2>3. End(P, q) \in Nat
    BY <1>2, ProgramClosed, EndCloses, ProgramFacts
  <2> QED
    BY <2>1, <2>2, <2>3
<1>4. d # q
  <2>1. SUFFICES ASSUME d = q PROVE FALSE
    OBVIOUS
  <2>2. P[d].k = "for"
    BY <1>2, <2>1
  <2>3. ScopeOf(P, d) = d
    BY <1>1, <1>2, <2>2, ScopeOfFacts
  <2> QED
    BY <1>1, <1>3, <2>1, <2>3
<1>5. ~(q < d)
  <2>1. SUFFICES ASSUME q < d PROVE FALSE
    OBVIOUS
  <2>2. d < End(P, q)
    BY <1>1, <1>2, <1>3
  <2>3. q \in {r \in Inside(P, d) : P[r].k \in {"fn", "for"}}
    BY <1>1, <1>2, <2>1, <2>2, WithinInside DEF Within
  <2>4. CASE P[d].k = "for"
    <3>1. ScopeOf(P, d) = d
      BY <1>1, <1>2, <2>4, ScopeOfFacts
    <3> QED
      BY <1>1, <1>3, <2>1, <3>1
  <2>5. CASE P[d].k # "for"
    <3>1. q <= ScopeOf(P, d)
      BY <1>1, <1>2, <2>3, <2>5, ScopeOfFacts
    <3> QED
      BY <1>1, <1>3, <3>1
  <2> QED
    BY <2>4, <2>5
<1> QED
  BY <1>3, <1>4, <1>5

-----------------------------------------------------------------------------
(* Looking up *)

\* The innermost symbol of that name in a stack of scopes.
Symbol(s, x) == IF Found(s, x, 0) = {} THEN 0 ELSE Innermost(s, x, 0)

\* A table that is what the scope rules say has the local declaration made last, or else
\* the first global one.
LEMMA TableLookup ==
  ASSUME NEW P \in Programs, NEW p \in DOMAIN P, P[p].k # "end",
         NEW s \in Seq([Names -> Decls]), TableAt(P, p, s), NEW x \in Names
  PROVE  /\ s[1][x] = First(Globals(P, x))
         /\ Symbol(s, x) = IF Locals(P, p, x) = {} THEN First(Globals(P, x))
                                                   ELSE Last(Locals(P, p, x))
<1>1. s[1][x] = First(Globals(P, x))
  BY DEF TableAt
<1>2. PICK c \in Seq(DOMAIN P) :
        /\ Owners(P, p, c) /\ Len(s) = Len(c) + 2 /\ Holds(P, p, 0, s[2])
        /\ \A k \in DOMAIN c : Holds(P, p, c[k], s[k + 2])
  BY DEF TableAt, Layered
<1> DEFINE A == {o \in Inside(P, p) : P[o].k \in {"fn", "for"}}
           owner(i) == IF i = 2 THEN 0 ELSE c[i - 2]
           L == Locals(P, p, x)
           F == Found(s, x, 0)
<1>3. DOMAIN c = 1 .. Len(c) /\ Len(c) \in Nat /\ DOMAIN s = 1 .. Len(c) + 2
  BY <1>2
<1>4. \A k \in DOMAIN c : c[k] \in A /\ c[k] \in Nat /\ 0 < c[k]
  BY <1>2, ProgramFacts DEF Owners
<1>5. ASSUME NEW i \in 2 .. Len(c) + 2
      PROVE  /\ owner(i) = 0 \/ owner(i) \in A
             /\ Owned(P, p, owner(i), x) = {s[i][x]} \ {0}
  <2>1. CASE i = 2
    BY <1>2, <2>1 DEF Holds
  <2>2. CASE i # 2
    <3>1. i - 2 \in DOMAIN c /\ (i - 2) + 2 = i
      BY <1>3, <2>2
    <3>2. Holds(P, p, c[i - 2], s[(i - 2) + 2])
      BY <1>2, <3>1
    <3>3. Owned(P, p, c[i - 2], x) = {s[i][x]} \ {0}
      BY <3>1, <3>2 DEF Holds
    <3>4. c[i - 2] \in A
      BY <1>4, <3>1
    <3> QED
      BY <2>2, <3>3, <3>4
  <2> QED
    BY <2>1, <2>2
<1>6. ASSUME NEW i \in 2 .. Len(c) + 2, NEW j \in 2 .. Len(c) + 2, i < j
      PROVE  owner(i) < owner(j) /\ owner(j) \in A
  <2>1. j - 2 \in DOMAIN c /\ owner(j) = c[j - 2]
    BY <1>3, <1>6
  <2>2. CASE i = 2
    BY <1>4, <2>1, <2>2
  <2>3. CASE i # 2
    <3>1. i - 2 \in DOMAIN c /\ owner(i) = c[i - 2] /\ i - 2 < j - 2
      BY <1>3, <1>6, <2>3
    <3>2. c[i - 2] < c[j - 2]
      BY <1>2, <2>1, <3>1 DEF Owners
    <3> QED
      BY <1>4, <2>1, <3>1, <3>2
  <2> QED
    BY <2>2, <2>3
<1>7. \A k \in DOMAIN c : owner(k + 2) = c[k]
  BY <1>3
<1>8. A = {c[k] : k \in DOMAIN c}
  BY <1>2 DEF Owners
<1> HIDE DEF owner, A
<1>9. \A i \in 2 .. Len(c) + 2 : s[i][x] # 0 => s[i][x] \in Owned(P, p, owner(i), x) /\ s[i][x] \in L
  <2> TAKE i \in 2 .. Len(c) + 2
  <2>1. HAVE s[i][x] # 0
  <2>2. s[i][x] \in Owned(P, p, owner(i), x)
    BY <1>5, <2>1
  <2>3. owner(i) = 0 \/ owner(i) \in Inside(P, p)
    BY <1>5 DEF A
  <2> QED
    BY <2>2, <2>3, OwnedInScope
<1>10. ASSUME NEW d \in L
       PROVE  \E i \in 2 .. Len(c) + 2 : s[i][x] = d /\ d # 0
  <2>1. /\ d \in Owned(P, p, ScopeOf(P, d), x)
        /\ ScopeOf(P, d) = 0 \/ ScopeOf(P, d) \in A
    BY InScopeOwned DEF A
  <2>2. \E i \in 2 .. Len(c) + 2 : owner(i) = ScopeOf(P, d)
    <3>1. CASE ScopeOf(P, d) = 0
      <4>1. owner(2) = 0 /\ 2 \in 2 .. Len(c) + 2
        BY <1>3 DEF owner
      <4> QED
        BY <3>1, <4>1
    <3>2. CASE ScopeOf(P, d) \in A
      <4>1. PICK k \in DOMAIN c : c[k] = ScopeOf(P, d)
        BY <1>8, <3>2
      <4>2. owner(k + 2) = ScopeOf(P, d) /\ k + 2 \in 2 .. Len(c) + 2
        BY <1>3, <1>7, <4>1
      <4> QED
        BY <4>2
    <3> QED
      BY <2>1, <3>1, <3>2
  <2>3. PICK i \in 2 .. Len(c) + 2 : owner(i) = ScopeOf(P, d)
    BY <2>2
  <2>4. d \in {s[i][x]} \ {0}
    BY <1>5, <2>1, <2>3
  <2> QED
    BY <2>3, <2>4
<1>11. F \subseteq 1 .. Len(c) + 2
  BY <1>3 DEF Found
<1>12. L \subseteq 1 .. Len(P) /\ Len(P) \in Nat
  BY ProgramFacts DEF Locals
<1>13. CASE L = {}
  <2>1. F \subseteq {1}
    <3>1. \A i \in F : i \in 1 .. Len(c) + 2 /\ s[i][x] # 0
      BY <1>11 DEF Found
    <3>2. \A i \in F : i \notin 2 .. Len(c) + 2
      BY <1>9, <1>13, <3>1
    <3> QED
      BY <1>3, <3>1, <3>2
  <2>2. CASE F = {}
    <3>1. 1 \in DOMAIN s
      BY <1>3
    <3>2. s[1][x] = 0
      BY <2>2, <3>1 DEF Found
    <3> QED
      BY <1>1, <1>13, <2>2, <3>2 DEF Symbol
  <2>3. CASE F # {}
    <3>1. F = {1}
      BY <2>1, <2>3
    <3>2. (CHOOSE i \in F : \A j \in F : j <= i) = 1
      BY <3>1
    <3>3. Symbol(s, x) = s[1][x]
      BY <2>3, <3>2 DEF Symbol, Innermost
    <3> QED
      BY <1>1, <1>13, <3>3
  <2> QED
    BY <2>2, <2>3
<1>14. CASE L # {}
  <2>1. PICK i \in F : \A j \in F : j <= i
    <3>1. PICK d \in L : TRUE
      BY <1>14
    <3>2. PICK i \in 2 .. Len(c) + 2 : s[i][x] = d /\ d # 0
      BY <1>10
    <3>3. i \in F
      BY <1>3, <3>2 DEF Found
    <3>4. Len(c) + 2 \in Nat /\ F # {} /\ F \subseteq 1 .. Len(c) + 2
      BY <1>3, <1>11, <3>3
    <3> HIDE DEF F
    <3> QED
      BY <3>4, MaxExists
  <2>2. \E j \in 2 .. Len(c) + 2 : j \in F
    <3>1. PICK d \in L : TRUE
      BY <1>14
    <3>2. PICK j \in 2 .. Len(c) + 2 : s[j][x] = d /\ d # 0
      BY <1>10
    <3> QED
      BY <1>3, <3>2 DEF Found
  <2>3. i \in 2 .. Len(c) + 2 /\ s[i][x] # 0
    <3>1. i \in 1 .. Len(c) + 2 /\ s[i][x] # 0
      BY <1>11 DEF Found
    <3>2. PICK j \in 2 .. Len(c) + 2 : j \in F
      BY <2>2
    <3>3. j <= i
      BY <2>1, <3>2
    <3> QED
      BY <1>3, <3>1, <3>2, <3>3
  <2>4. Innermost(s, x, 0) = s[i][x]
    <3>1. \A k \in F : (\A j \in F : j <= k) => k = i
      BY <1>3, <1>11, <2>1
    <3>2. (CHOOSE k \in F : \A j \in F : j <= k) = i
      BY <2>1, <3>1
    <3> QED
      BY <3>2 DEF Innermost
  <2>5. s[i][x] \in L /\ s[i][x] \in Owned(P, p, owner(i), x)
    BY <1>9, <2>3
  <2>6. ASSUME NEW d \in L PROVE d <= s[i][x]
    <3>1. PICK j \in 2 .. Len(c) + 2 : s[j][x] = d /\ d # 0
      BY <1>10
    <3>2. j \in F
      BY <1>3, <3>1 DEF Found
    <3>3. j <= i
      BY <2>1, <3>2
    <3>4. d \in Nat /\ s[i][x] \in Nat
      BY <1>12, <2>5
    <3>5. CASE j = i
      BY <3>1, <3>4, <3>5
    <3>6. CASE j # i
      <4>1. j < i
        BY <2>3, <3>1, <3>3, <3>6
      <4>2. owner(j) < owner(i) /\ owner(i) \in A
        BY <1>6, <2>3, <3>1, <4>1
      <4>3. d \in Owned(P, p, owner(j), x)
        BY <1>9, <3>1
      <4>4. owner(i) \in Inside(P, p) /\ P[owner(i)].k \in {"fn", "for"}
        BY <4>2 DEF A
      <4>5. d < s[i][x]
        BY <2>5, <4>2, <4>3, <4>4, OuterFirst
      <4> QED
        BY <3>4, <4>5
    <3> QED
      BY <3>5, <3>6
  <2>7. Last(L) = s[i][x]
    BY <1>12, <2>5, <2>6, LastIs
  <2> QED
    BY <1>1, <1>14, <2>1, <2>4, <2>7 DEF Symbol
<1> QED
  BY <1>13, <1>14

-----------------------------------------------------------------------------
(* How the symbol table follows the walk *)

LEMMA HoldsNext ==
  ASSUME NEW P \in Programs, NEW p \in DOMAIN P, NEW o, NEW s, Holds(P, p, o, s),
         \A x \in Names : Declares(P, p, x) /\ ~IsGlobal(P, p) => ScopeOf(P, p) # o
  PROVE  Holds(P, p + 1, o, s)
BY OwnedNext DEF Holds

\* Before the first token there are only globals.
LEMMA TableStart ==
  ASSUME NEW P \in Programs, NEW s, Len(s) = 2,
         \A x \in Names : s[1][x] = First(Globals(P, x)), s[2] = EmptyScope
  PROVE  TableAt(P, 1, s)
<1> DEFINE c == << >>
<1>1. c \in Seq(DOMAIN P) /\ Len(c) = 0 /\ DOMAIN c = {}
  OBVIOUS
<1>2. Owners(P, 1, c)
  <2>1. {c[k] : k \in DOMAIN c} = {}
    BY <1>1
  <2>2. {o \in Inside(P, 1) : P[o].k \in {"fn", "for"}} = {}
    BY InsideStart
  <2> HIDE DEF c
  <2> QED
    BY <1>1, <2>1, <2>2 DEF Owners
<1>3. Holds(P, 1, 0, s[2])
  BY OwnedStart DEF Holds, EmptyScope
<1> HIDE DEF c
<1>4. Layered(P, 1, c, s)
  BY <1>1, <1>2, <1>3 DEF Layered
<1> QED
  BY <1>1, <1>4 DEF TableAt

\* The table stays as it is where nothing is declared and no scope begins,
LEMMA TableStays ==
  ASSUME NEW P \in Programs, NEW p \in DOMAIN P, NEW s, TableAt(P, p, s),
         P[p].k \notin {"fn", "for", "param", "end"}, P[p].k = "var" => IsGlobal(P, p)
  PROVE  TableAt(P, p + 1, s)
<1>1. PICK c \in Seq(DOMAIN P) : Layered(P, p, c, s)
  BY DEF TableAt
<1>2. \A x \in Names : ~(Declares(P, p, x) /\ ~IsGlobal(P, p))
  BY DEF Declares
<1>3. {o \in Inside(P, p + 1) : P[o].k \in {"fn", "for"}} = {o \in Inside(P, p) : P[o].k \in {"fn", "for"}}
  <2>1. Inside(P, p + 1) = Inside(P, p) \/ Inside(P, p + 1) = Inside(P, p) \cup {p}
    BY InsideNext, InsideOpener
  <2> QED
    BY <2>1
<1>4. Owners(P, p + 1, c)
  BY <1>1, <1>3 DEF Layered, Owners
<1>5. Layered(P, p + 1, c, s)
  BY <1>1, <1>2, <1>4, HoldsNext DEF Layered
<1> QED
  BY <1>1, <1>5 DEF TableAt

\* a declaration is added to the last scope,
LEMMA TableDeclares ==
  ASSUME NEW P \in Programs, NEW p \in DOMAIN P, NEW s \in Seq([Names -> Decls]), TableAt(P, p, s),
         P[p].k \in {"var", "param"}, ~IsGlobal(P, p),
         s[Len(s)][P[p].lhs.name] = 0
  PROVE  TableAt(P, p + 1, With(s, Len(s), P[p].lhs.name, p))
<1> DEFINE x == P[p].lhs.name
           n == Len(s)
           t == With(s, n, x, p)
<1>1. PICK c \in Seq(DOMAIN P) : Layered(P, p, c, s)
  BY DEF TableAt
<1>2. x \in Names /\ p \in Nat \ {0} /\ DOMAIN P = 1 .. Len(P) /\ p \in Decls
  BY ProgramFacts, ProgramConstants DEF Decls, Positions
<1>3. /\ DOMAIN c = 1 .. Len(c) /\ Len(c) \in Nat /\ n = Len(c) + 2
      /\ \A i \in 1 .. n : s[i] \in [Names -> Decls]
  BY <1>1 DEF Layered
<1>4. /\ Len(t) = n
      /\ \A i \in 1 .. n - 1 : t[i] = s[i]
      /\ t[n] = [s[n] EXCEPT ![x] = p]
  <2>0. s \in Stacks(Decls)
    BY DEF Stacks
  <2>1. Len(t) = n
    BY <1>2, <2>0, NewEntry
  <2>2. DOMAIN s = 1 .. n /\ n \in DOMAIN s
    BY <1>3
  <2>3. \A i \in 1 .. n - 1 : t[i] = s[i]
    BY <2>2 DEF With
  <2>4. t[n] = [s[n] EXCEPT ![x] = p]
    BY <2>2 DEF With
  <2> QED
    BY <2>1, <2>3, <2>4
<1>5. /\ c = << >> => ScopeOf(P, p) = 0
      /\ c # << >> => ScopeOf(P, p) = c[Len(c)]
  BY <1>1, ScopeIsLast DEF Layered
<1>6. Owners(P, p + 1, c)
  <2>1. Inside(P, p + 1) = Inside(P, p)
    BY InsideNext DEF Opens, Openers
  <2> QED
    BY <1>1, <2>1 DEF Layered, Owners
<1>7. ASSUME NEW o, ScopeOf(P, p) = o, Holds(P, p, o, s[n])
      PROVE  Holds(P, p + 1, o, t[n])
  <2>1. SUFFICES ASSUME NEW y \in Names PROVE Owned(P, p + 1, o, y) = {t[n][y]} \ {0}
    BY DEF Holds
  <2>2. Owned(P, p, o, y) = {s[n][y]} \ {0}
    BY <1>7 DEF Holds
  <2>3. s[n] \in [Names -> Decls]
    BY <1>3
  <2>4. CASE y = x
    <3>1. Declares(P, p, y)
      BY <2>4 DEF Declares
    <3>2. Owned(P, p + 1, o, y) = Owned(P, p, o, y) \cup {p}
      BY <1>7, <3>1, OwnedNext
    <3>3. t[n][y] = p
      BY <1>4, <2>3, <2>4
    <3> QED
      BY <1>2, <2>2, <2>4, <3>2, <3>3
  <2>5. CASE y # x
    <3>1. ~Declares(P, p, y)
      BY <2>5 DEF Declares
    <3>2. Owned(P, p + 1, o, y) = Owned(P, p, o, y)
      BY <3>1, OwnedNext
    <3>3. t[n][y] = s[n][y]
      BY <1>4, <2>3, <2>5
    <3> QED
      BY <2>2, <3>2, <3>3
  <2> QED
    BY <2>4, <2>5
<1> HIDE DEF t
<1>8. \A z \in Names : t[1][z] = First(Globals(P, z))
  <2>1. 1 \in 1 .. n - 1
    BY <1>3
  <2> QED
    BY <1>4, <2>1 DEF TableAt
<1>9. Holds(P, p + 1, 0, t[2])
  <2>1. Holds(P, p, 0, s[2])
    BY <1>1 DEF Layered
  <2>2. CASE c = << >>
    <3>1. n = 2 /\ ScopeOf(P, p) = 0
      BY <1>3, <1>5, <2>2
    <3> QED
      BY <1>7, <2>1, <3>1
  <2>3. CASE c # << >>
    <3>1. Len(c) \in DOMAIN c
      BY <1>3, <2>3, <1>1
    <3>2. 2 \in 1 .. n - 1 /\ c[Len(c)] \in DOMAIN P
      BY <1>3, <3>1, <1>1
    <3>3. ScopeOf(P, p) # 0 /\ t[2] = s[2]
      BY <1>2, <1>4, <1>5, <2>3, <3>2
    <3> QED
      BY <2>1, <3>3, HoldsNext
  <2> QED
    BY <2>2, <2>3
<1>10. ASSUME NEW k \in DOMAIN c
       PROVE  Holds(P, p + 1, c[k], t[k + 2])
  <2>1. Holds(P, p, c[k], s[k + 2])
    BY <1>1 DEF Layered
  <2>2. c # << >>
    BY <1>3, <1>1
  <2>3. CASE k = Len(c)
    <3>1. k + 2 = n /\ ScopeOf(P, p) = c[k]
      BY <1>3, <1>5, <2>2, <2>3
    <3> QED
      BY <1>7, <2>1, <3>1
  <2>4. CASE k # Len(c)
    <3>1. k < Len(c) /\ Len(c) \in DOMAIN c /\ k + 2 \in 1 .. n - 1
      BY <1>3, <2>4
    <3>2. c[k] < c[Len(c)] /\ c[k] \in DOMAIN P /\ c[Len(c)] \in DOMAIN P
      BY <1>1, <3>1 DEF Layered, Owners
    <3>3. ScopeOf(P, p) # c[k] /\ t[k + 2] = s[k + 2]
      <4>1. c[k] \in Nat /\ c[Len(c)] \in Nat
        BY <1>2, <3>2
      <4>2. c[k] # c[Len(c)]
        BY <3>2, <4>1
      <4>3. t[k + 2] = s[k + 2]
        BY <1>4, <3>1
      <4> QED
        BY <1>5, <2>2, <4>2, <4>3
    <3> QED
      BY <2>1, <3>3, HoldsNext
  <2> QED
    BY <2>3, <2>4
<1>11. Layered(P, p + 1, c, t)
  BY <1>3, <1>4, <1>6, <1>9, <1>10 DEF Layered
<1>12. TableAt(P, p + 1, t)
  BY <1>1, <1>8, <1>11 DEF TableAt
<1> QED
  BY <1>12 DEF t

\* a function or a for loop begins a scope, with its iterator if it has one,
LEMMA TableOpens ==
  ASSUME NEW P \in Programs, NEW p \in DOMAIN P, NEW s \in Seq([Names -> Decls]), TableAt(P, p, s),
         P[p].k \in {"fn", "for"}, NEW new \in [Names -> Decls],
         P[p].k = "fn" => new = EmptyScope,
         P[p].k = "for" => new = [EmptyScope EXCEPT ![P[p].lhs.name] = p]
  PROVE  TableAt(P, p + 1, Append(s, new))
<1> DEFINE t == Append(s, new)
<1>1. PICK c \in Seq(DOMAIN P) : Layered(P, p, c, s)
  BY DEF TableAt
<1> DEFINE d == Append(c, p)
<1>2. DOMAIN P = 1 .. Len(P) /\ Len(P) \in Nat /\ p \in Nat \ {0} /\ Opens(P, p)
  BY ProgramFacts DEF Opens, Openers
<1>3. /\ DOMAIN c = 1 .. Len(c) /\ Len(c) \in Nat /\ Len(s) = Len(c) + 2
      /\ d \in Seq(DOMAIN P) /\ Len(d) = Len(c) + 1 /\ DOMAIN d = 1 .. Len(c) + 1
      /\ d[Len(c) + 1] = p /\ \A k \in 1 .. Len(c) : d[k] = c[k]
      /\ Len(t) = Len(s) + 1 /\ t[Len(s) + 1] = new /\ \A k \in 1 .. Len(s) : t[k] = s[k]
  BY <1>1 DEF Layered
<1> HIDE DEF t, d
<1> DEFINE A(q) == {o \in Inside(P, q) : P[o].k \in {"fn", "for"}}
<1>4. A(p + 1) = A(p) \cup {p}
  BY <1>2, InsideOpener
<1>5. \A k \in DOMAIN c : c[k] \in DOMAIN P /\ c[k] < p /\ c[k] \in A(p)
  BY <1>1 DEF Layered, Owners, Inside
<1>6. Owners(P, p + 1, d)
  <2>1. \A k, l \in DOMAIN d : k < l => d[k] < d[l]
    <3>1. ASSUME NEW k \in DOMAIN d, NEW l \in DOMAIN d, k < l PROVE d[k] < d[l]
      <4>1. CASE l = Len(c) + 1
        <5>1. k \in 1 .. Len(c)
          BY <1>3, <3>1, <4>1
        <5> QED
          BY <1>3, <1>5, <4>1, <5>1
      <4>2. CASE l # Len(c) + 1
        <5>1. k \in DOMAIN c /\ l \in DOMAIN c
          BY <1>3, <3>1, <4>2
        <5> QED
          BY <1>1, <1>3, <3>1, <5>1 DEF Layered, Owners
      <4> QED
        BY <4>1, <4>2
    <3> QED
      BY <3>1
  <2>2. {d[k] : k \in DOMAIN d} = A(p) \cup {p}
    <3>1. {c[k] : k \in DOMAIN c} = A(p)
      BY <1>1 DEF Layered, Owners
    <3>2. DOMAIN d = DOMAIN c \cup {Len(c) + 1}
      BY <1>3
    <3>3. d[Len(c) + 1] = p /\ \A k \in DOMAIN c : d[k] = c[k]
      BY <1>3
    <3> DEFINE n == Len(c) + 1
               B == A(p)
    <3> HIDE DEF n, B
    <3>4. {c[k] : k \in DOMAIN c} = B /\ DOMAIN d = DOMAIN c \cup {n} /\ d[n] = p
      BY <3>1, <3>2, <3>3 DEF n, B
    <3>5. {d[k] : k \in DOMAIN d} = B \cup {p}
      BY <3>3, <3>4
    <3> QED
      BY <3>5 DEF B
  <2> QED
    BY <1>3, <1>4, <2>1, <2>2 DEF Owners
<1>7. ASSUME NEW y \in Names PROVE Owned(P, p + 1, p, y) = {new[y]} \ {0}
  <2>1. Owned(P, p, p, y) = {}
    BY OwnedNew
  <2>2. CASE P[p].k = "fn"
    <3>1. ~Declares(P, p, y) /\ new[y] = 0
      BY <2>2 DEF Declares, EmptyScope
    <3>2. Owned(P, p + 1, p, y) = {}
      BY <2>1, <3>1, OwnedNext
    <3> QED
      BY <3>1, <3>2
  <2>3. CASE P[p].k = "for"
    <3>1. ScopeOf(P, p) = p /\ ~IsGlobal(P, p)
      BY <2>3, ScopeOfFacts DEF IsGlobal
    <3>2. CASE y = P[p].lhs.name
      <4>1. Declares(P, p, y) /\ new[y] = p
        BY <2>3, <3>2 DEF Declares, EmptyScope
      <4>2. Owned(P, p + 1, p, y) = {p}
        BY <2>1, <3>1, <4>1, OwnedNext
      <4> QED
        BY <1>2, <4>1, <4>2
    <3>3. CASE y # P[p].lhs.name
      <4>1. ~Declares(P, p, y) /\ new[y] = 0
        BY <2>3, <3>3 DEF Declares, EmptyScope
      <4>2. Owned(P, p + 1, p, y) = {}
        BY <2>1, <4>1, OwnedNext
      <4> QED
        BY <4>1, <4>2
    <3> QED
      BY <3>2, <3>3
  <2> QED
    BY <2>2, <2>3
<1>8. ASSUME NEW o, o # p, NEW r, Holds(P, p, o, r)
      PROVE  Holds(P, p + 1, o, r)
  <2>1. \A x \in Names : Declares(P, p, x) => ScopeOf(P, p) # o
    BY <1>8, ScopeOfFacts DEF Declares
  <2> QED
    BY <1>8, <2>1, HoldsNext
<1>9. Holds(P, p + 1, 0, t[2])
  <2>0. 2 \in 1 .. Len(s)
    BY <1>3
  <2>1. Holds(P, p, 0, s[2]) /\ t[2] = s[2]
    BY <1>1, <1>3, <2>0 DEF Layered
  <2> QED
    BY <1>2, <1>8, <2>1
<1>10. ASSUME NEW k \in DOMAIN d PROVE Holds(P, p + 1, d[k], t[k + 2])
  <2>1. CASE k = Len(c) + 1
    <3>1. d[k] = p /\ t[k + 2] = new
      BY <1>3, <2>1
    <3> QED
      BY <1>7, <3>1 DEF Holds
  <2>2. CASE k # Len(c) + 1
    <3>1. k \in DOMAIN c /\ d[k] = c[k] /\ k + 2 \in 1 .. Len(s)
      BY <1>3, <2>2
    <3>2. Holds(P, p, c[k], s[k + 2]) /\ t[k + 2] = s[k + 2] /\ c[k] # p
      BY <1>1, <1>2, <1>3, <1>5, <3>1 DEF Layered
    <3> QED
      BY <1>8, <3>1, <3>2
  <2> QED
    BY <2>1, <2>2
<1>11. \A z \in Names : t[1][z] = First(Globals(P, z))
  BY <1>3 DEF TableAt
<1>12. Layered(P, p + 1, d, t)
  BY <1>3, <1>6, <1>9, <1>10 DEF Layered
<1>13. TableAt(P, p + 1, t)
  BY <1>3, <1>11, <1>12 DEF TableAt
<1> QED
  BY <1>13 DEF t

\* which goes at its end.
LEMMA TableCloses ==
  ASSUME NEW P \in Programs, NEW o \in DOMAIN P, Opens(P, o),
         NEW s \in Seq([Names -> Decls]), TableAt(P, End(P, o), s)
  PROVE  TableAt(P, End(P, o) + 1, IF P[o].k \in {"fn", "for"} THEN SubSeq(s, 1, Len(s) - 1) ELSE s)
<1> DEFINE p == End(P, o)
           t == IF P[o].k \in {"fn", "for"} THEN SubSeq(s, 1, Len(s) - 1) ELSE s
           A(q) == {r \in Inside(P, q) : P[r].k \in {"fn", "for"}}
<1>1. PICK c \in Seq(DOMAIN P) : Layered(P, p, c, s)
  BY DEF TableAt
<1>2. /\ DOMAIN P = 1 .. Len(P) /\ Len(P) \in Nat /\ p \in DOMAIN P /\ P[p].k = "end"
      /\ p \in Nat /\ o \in Nat
  BY ProgramFacts, ProgramClosed, EndCloses
<1>3. /\ o \in Inside(P, p) /\ (\A q \in Inside(P, p) : q <= o)
      /\ Inside(P, p + 1) = Inside(P, p) \ {o}
  BY InsideEnd
<1>4. ASSUME NEW q, NEW r, Holds(P, p, q, r) PROVE Holds(P, p + 1, q, r)
  BY <1>2, <1>4, HoldsNext DEF Declares
<1>5. DOMAIN c = 1 .. Len(c) /\ Len(c) \in Nat /\ Len(s) = Len(c) + 2
  BY <1>1 DEF Layered
<1>6. CASE P[o].k \notin {"fn", "for"}
  <2>1. A(p + 1) = A(p)
    BY <1>3, <1>6
  <2>2. Owners(P, p + 1, c)
    BY <1>1, <2>1 DEF Layered, Owners
  <2>3. Layered(P, p + 1, c, s)
    BY <1>1, <1>4, <2>2 DEF Layered
  <2> QED
    BY <1>1, <1>6, <2>3 DEF TableAt
<1>7. CASE P[o].k \in {"fn", "for"}
  <2> DEFINE d == SubSeq(c, 1, Len(c) - 1)
  <2>1. {c[k] : k \in DOMAIN c} = A(p) /\ (\A k, l \in DOMAIN c : k < l => c[k] < c[l])
    BY <1>1 DEF Layered, Owners
  <2>2. PICK k \in DOMAIN c : c[k] = o
    BY <1>3, <1>7, <2>1
  <2>3. k = Len(c)
    <3>1. SUFFICES ASSUME k # Len(c) PROVE FALSE
      OBVIOUS
    <3>2. k < Len(c) /\ Len(c) \in DOMAIN c
      BY <1>5, <3>1
    <3>3. o < c[Len(c)] /\ c[Len(c)] \in A(p)
      BY <2>1, <2>2, <3>2
    <3>4. c[Len(c)] <= o /\ c[Len(c)] \in Nat
      BY <1>2, <1>3, <3>3 DEF Inside
    <3> QED
      BY <1>2, <3>3, <3>4
  <2>4. c # << >> /\ Len(c) \in Nat \ {0}
    BY <1>5, <2>2
  <2>5. /\ d \in Seq(DOMAIN P) /\ Len(d) = Len(c) - 1 /\ DOMAIN d = 1 .. Len(c) - 1
        /\ \A l \in 1 .. Len(c) - 1 : d[l] = c[l]
    BY <1>5, <2>4, AllButLast
  <2>6. /\ Len(t) = Len(s) - 1 /\ \A l \in 1 .. Len(s) - 1 : t[l] = s[l]
    BY <1>5, <1>7, AllButLast
  <2> HIDE DEF d, t
  <2>7. Owners(P, p + 1, d)
    <3>1. A(p + 1) = A(p) \ {o}
      BY <1>3
    <3>2. DOMAIN c = DOMAIN d \cup {Len(c)} /\ \A l \in DOMAIN d : l \in DOMAIN c /\ l < Len(c)
      BY <1>5, <2>4, <2>5
    <3>3. \A l \in DOMAIN d : d[l] # o
      <4> TAKE l \in DOMAIN d
      <4>1. l \in DOMAIN c /\ Len(c) \in DOMAIN c /\ l < Len(c)
        BY <2>2, <2>3, <3>2
      <4>2. d[l] = c[l] /\ c[l] < c[Len(c)]
        BY <2>1, <2>5, <4>1
      <4>3. c[l] \in Nat
        BY <1>2, <4>1
      <4> QED
        BY <1>2, <2>2, <2>3, <4>2, <4>3
    <3>4. {d[l] : l \in DOMAIN d} = A(p) \ {o}
      <4>1. DOMAIN c = DOMAIN d \cup {k} /\ \A l \in DOMAIN d : d[l] = c[l]
        BY <2>3, <2>5, <3>2
      <4>2. {c[l] : l \in DOMAIN c} = {d[l] : l \in DOMAIN d} \cup {o}
        BY <2>2, <4>1
      <4> HIDE DEF A
      <4> QED
        BY <2>1, <3>3, <4>2
    <3>5. \A l, m \in DOMAIN d : l < m => d[l] < d[m]
      BY <2>1, <2>5, <3>2
    <3> QED
      BY <2>5, <3>1, <3>4, <3>5 DEF Owners
  <2>8. Holds(P, p + 1, 0, t[2])
    <3>1. 2 \in 1 .. Len(s) - 1
      BY <1>5, <2>4
    <3> QED
      BY <1>1, <1>4, <2>6, <3>1 DEF Layered
  <2>9. ASSUME NEW l \in DOMAIN d PROVE Holds(P, p + 1, d[l], t[l + 2])
    <3>1. l \in DOMAIN c /\ l + 2 \in 1 .. Len(s) - 1 /\ d[l] = c[l]
      BY <1>5, <2>5
    <3>2. Holds(P, p, c[l], s[l + 2]) /\ t[l + 2] = s[l + 2]
      BY <1>1, <2>6, <3>1 DEF Layered
    <3> QED
      BY <1>4, <3>1, <3>2
  <2>10. \A z \in Names : t[1][z] = First(Globals(P, z))
    <3>1. 1 \in 1 .. Len(s) - 1
      BY <1>5
    <3> QED
      BY <2>6, <3>1 DEF TableAt
  <2>11. Len(t) = Len(d) + 2
    BY <1>5, <2>5, <2>6
  <2>12. Layered(P, p + 1, d, t)
    BY <2>7, <2>8, <2>9, <2>11 DEF Layered
  <2>13. TableAt(P, p + 1, t)
    BY <2>5, <2>10, <2>12 DEF TableAt
  <2> QED
    BY <2>13 DEF t
<1> QED
  BY <1>6, <1>7

\* A name is taken in the last scope if it is declared twice there.
LEMMA TakenMeansRedeclared ==
  ASSUME NEW P \in Programs, NEW p \in DOMAIN P, NEW s \in Seq([Names -> Decls]), TableAt(P, p, s),
         P[p].k \in {"var", "param"}
  PROVE  s[Len(s)][P[p].lhs.name] # 0 <=> Redeclared(P, p, P[p].lhs.name)
<1> DEFINE x == P[p].lhs.name
           o == ScopeOf(P, p)
<1>1. PICK c \in Seq(DOMAIN P) : Layered(P, p, c, s)
  BY DEF TableAt
<1>2. DOMAIN c = 1 .. Len(c) /\ Len(c) \in Nat /\ Len(s) = Len(c) + 2 /\ x \in Names
  BY <1>1, ProgramFacts DEF Layered
<1>3. Holds(P, p, o, s[Len(s)])
  <2>1. CASE c = << >>
    <3>1. o = 0 /\ Len(s) = 2
      BY <1>1, <1>2, <2>1, ScopeIsLast DEF Layered
    <3> QED
      BY <1>1, <3>1 DEF Layered
  <2>2. CASE c # << >>
    <3>1. o = c[Len(c)]
      BY <1>1, <2>2, ScopeIsLast DEF Layered
    <3>2. Len(c) \in DOMAIN c
      BY <1>1, <1>2, <2>2
    <3> QED
      BY <1>1, <1>2, <3>1, <3>2 DEF Layered
  <2> QED
    BY <2>1, <2>2
<1>4. Owned(P, p, o, x) = {s[Len(s)][x]} \ {0}
  BY <1>2, <1>3 DEF Holds
<1>5. o = 0 \/ o \in Inside(P, p)
  BY ScopeOfRange
<1>6. ASSUME NEW e \in Owned(P, p, o, x) PROVE Redeclared(P, p, x)
  <2>1. e \in Locals(P, p, x)
    BY <1>5, OwnedInScope
  <2> QED
    BY <2>1 DEF Redeclared, Owned
<1>7. ASSUME Redeclared(P, p, x) PROVE Owned(P, p, o, x) # {}
  <2>1. PICK e \in Locals(P, p, x) : ScopeOf(P, e) = o
    BY <1>7 DEF Redeclared
  <2> QED
    BY <2>1, InScopeOwned
<1> QED
  BY <1>4, <1>6, <1>7

-----------------------------------------------------------------------------
(* What the check finds, as long as there is no error *)

\* A token is met, and there was no error in front of it.
Met == ScopeInv /\ phase = "check" /\ AtNode /\ errors = {} /\ Checked /\ Bound

LEMMA MetFacts ==
  ASSUME Met
  PROVE  /\ prog \in Programs /\ pc \in DOMAIN prog /\ pc \in Nat \ {0} /\ DOMAIN prog = 1 .. Len(prog)
         /\ Len(prog) \in Nat /\ Closed(prog) /\ prog[pc] = Node
         /\ scopes \in Seq([Names -> Decls]) /\ scopes # << >>
         /\ Node.rhs # NoRef => Node.rhs.name \in Names /\ Node.rhs.isglobal \in BOOLEAN
         /\ Node.k \in {"var", "for", "param", "set", "step"} =>
              Node.lhs # NoRef /\ Node.lhs.name \in Names /\ Node.lhs.isglobal \in BOOLEAN
<1>1. prog \in Programs /\ pc \in DOMAIN prog /\ scopes \in Seq([Names -> Decls]) /\ scopes # << >>
  BY NodeFacts DEF Met, ScopeInv, TypeOK, SemanticTypeOK
<1>2. /\ DOMAIN prog = 1 .. Len(prog) /\ Len(prog) \in Nat
      /\ prog[pc].rhs # NoRef => prog[pc].rhs.name \in Names /\ prog[pc].rhs.isglobal \in BOOLEAN
      /\ prog[pc].k \in {"var", "for", "param", "set", "step"} =>
           prog[pc].lhs.name \in Names /\ prog[pc].lhs.isglobal \in BOOLEAN
  BY <1>1, ProgramFacts
<1>3. prog[pc].k \in {"var", "for", "param", "set", "step"} => prog[pc].lhs # NoRef
  BY <1>1, ProgramConstants
<1> QED
  BY <1>1, <1>2, <1>3, ProgramClosed DEF Node

LEMMA DeclarationFacts ==
  ASSUME NEW P \in Programs, NEW p, NEW x
  PROVE  /\ Locals(P, p, x) \subseteq 1 .. Len(P) /\ Globals(P, x) \subseteq 1 .. Len(P)
         /\ \A d \in Locals(P, p, x) : ~IsGlobal(P, d) /\ P[d].k \in {"var", "for", "param"}
         /\ \A d \in Globals(P, x) : IsGlobal(P, d) /\ P[d].k = "var"
<1>1. DOMAIN P = 1 .. Len(P)
  BY ProgramFacts
<1> QED
  BY <1>1 DEF Locals, Globals, Declares, IsGlobal

LEMMA SymbolsMet ==
  ASSUME Met, Node.k # "end", NEW x \in Names
  PROVE  /\ semantic_find_global_symbol(x) = First(Globals(prog, x))
         /\ semantic_find_symbol(x) = IF Locals(prog, pc, x) = {} THEN First(Globals(prog, x))
                                                                  ELSE Last(Locals(prog, pc, x))
<1>1. prog \in Programs /\ pc \in DOMAIN prog /\ prog[pc].k # "end" /\ scopes \in Seq([Names -> Decls])
  BY MetFacts
<1>2. TableAt(prog, pc, scopes)
  BY DEF Met, Checked
<1>3. semantic_find_symbol(x) = Symbol(scopes, x)
  BY DEF semantic_find_symbol, Symbol, Found, Innermost
<1> QED
  BY <1>1, <1>2, <1>3, TableLookup DEF semantic_find_global_symbol

\* The outcomes of exists.
LEMMA ExistsCases ==
  ASSUME NEW r, r # NoRef
  PROVE  LET d == semantic_find_symbol(r.name) IN
         /\ exists(r) \in {"SUCCESS", "NOT_DECLARED", "crash", "NOT_DEC_AT_GLOB_SCOPE"}
         /\ exists(r) = "NOT_DECLARED" <=> d = 0
         /\ exists(r) = "crash" <=> d # 0 /\ prog[d].k = "param"
         /\ exists(r) = "SUCCESS" <=> d # 0 /\ prog[d].k # "param" /\ node_ptr_isglobal(d) = r.isglobal
BY DEF exists

\* What was found is what the scope rules say, unless the name is hidden.
LEMMA FoundIsRead ==
  ASSUME Met, Node.k # "end", Node.rhs # NoRef, exists(Node.rhs) = "SUCCESS",
         ~Masked(prog, pc, Node.rhs)
  PROVE  /\ semantic_find_symbol(Node.rhs.name) = Read(prog, pc, Node.rhs)
         /\ Read(prog, pc, Node.rhs) # 0
<1> DEFINE r == Node.rhs
           x == r.name
           d == semantic_find_symbol(x)
           L == Locals(prog, pc, x)
           G == Globals(prog, x)
<1>1. /\ prog \in Programs /\ pc \in DOMAIN prog /\ x \in Names /\ prog[pc] = Node
      /\ Len(prog) \in Nat /\ pc \in Nat /\ r.isglobal \in BOOLEAN /\ pc < Len(prog) + 1
  BY MetFacts
<1>2. d = IF L = {} THEN First(G) ELSE Last(L)
  BY <1>1, SymbolsMet
<1>3. d # 0 /\ prog[d].k # "param" /\ node_ptr_isglobal(d) = r.isglobal
  BY ExistsCases
<1>4. /\ L \subseteq 1 .. Len(prog) /\ G \subseteq 1 .. Len(prog)
      /\ \A e \in G : IsGlobal(prog, e) /\ prog[e].k = "var"
  BY <1>1, DeclarationFacts
<1>5. IsGlobal(prog, pc) => r.isglobal /\ Read(prog, pc, r) # 0
  BY <1>1 DEF Met, Checked, GlobalsRead
<1>6. CASE r.isglobal
  <2>1. d = First(G) /\ G # {}
    <3>1. L = {}
      BY <1>6 DEF Masked
    <3> HIDE DEF L, G
    <3> QED
      BY <1>1, <1>2, <1>3, <1>4, <3>1, FirstOf
  <2>2. CASE IsGlobal(prog, pc)
    <3>1. Read(prog, pc, r) = First({e \in G : e < pc})
      BY <1>6, <2>2 DEF Read
    <3> HIDE DEF G, r
    <3>2. {e \in G : e < pc} # {}
      BY <1>5, <2>2, <3>1 DEF First
    <3>3. First({e \in G : e < pc}) = First(G)
      BY <1>1, <1>4, <3>2, FirstBelow
    <3> QED
      BY <1>3, <2>1, <3>1, <3>3 DEF r
  <2>3. CASE ~IsGlobal(prog, pc)
    <3>1. Read(prog, pc, r) = First(G)
      BY <1>6, <2>3 DEF Read
    <3> QED
      BY <1>3, <2>1, <3>1
  <2> QED
    BY <2>2, <2>3
<1>7. CASE ~r.isglobal
  <2>1. Read(prog, pc, r) = Last(L)
    BY <1>5, <1>7 DEF Read
  <2>2. L # {}
    <3>1. SUFFICES ASSUME L = {} PROVE FALSE
      OBVIOUS
    <3>2. d = First(G)
      BY <1>2, <3>1
    <3>3. d \in G
      <4> HIDE DEF G
      <4> QED
        BY <1>1, <1>3, <1>4, <3>2, FirstOf
    <3>4. node_ptr_isglobal(d)
      BY <1>4, <3>3 DEF node_ptr_isglobal
    <3> QED
      BY <1>3, <1>7, <3>4
  <2> QED
    BY <1>2, <1>3, <2>1, <2>2
<1> QED
  BY <1>1, <1>6, <1>7

\* The check agrees with the scope rules about what is read.
LEMMA ReadJudged ==
  ASSUME Met, Node.k # "end", ~Peculiar(prog)
  PROVE  (Node.rhs # NoRef => Read(prog, pc, Node.rhs) # 0) <=> exists(Node.rhs) = "SUCCESS"
<1> DEFINE r == Node.rhs
           x == r.name
           d == semantic_find_symbol(x)
           L == Locals(prog, pc, x)
           G == Globals(prog, x)
<1>1. CASE r = NoRef
  BY <1>1 DEF exists
<1>2. CASE r # NoRef
  <2>1. /\ prog \in Programs /\ pc \in DOMAIN prog /\ x \in Names /\ prog[pc] = Node
        /\ Len(prog) \in Nat /\ pc \in Nat /\ r.isglobal \in BOOLEAN
    BY <1>2, MetFacts
  <2>2. ~Masked(prog, pc, r)
    BY <2>1 DEF Peculiar, MaskedGlobal
  <2>3. exists(r) = "SUCCESS" => Read(prog, pc, r) # 0
    BY <1>2, <2>2, FoundIsRead
  <2>4. ASSUME Read(prog, pc, r) # 0 PROVE exists(r) = "SUCCESS"
    <3>1. d = IF L = {} THEN First(G) ELSE Last(L)
      BY <2>1, SymbolsMet
    <3>2. /\ L \subseteq 1 .. Len(prog) /\ G \subseteq 1 .. Len(prog)
          /\ \A e \in L : ~IsGlobal(prog, e) /\ prog[e].k \in {"var", "for", "param"}
          /\ \A e \in G : IsGlobal(prog, e) /\ prog[e].k = "var"
      BY <2>1, DeclarationFacts
    <3>3. CASE r.isglobal
      <4>1. L = {}
        BY <1>2, <2>2, <3>3 DEF Masked
      <4>2. Read(prog, pc, r) = First({e \in G : IsGlobal(prog, pc) => e < pc})
        BY <3>3 DEF Read
      <4>3. G # {}
        <5> HIDE DEF G, r
        <5> QED
          BY <2>4, <4>2 DEF First
      <4>4. d \in G /\ d # 0
        <5>1. G \subseteq 1 .. Len(prog) /\ Len(prog) \in Nat /\ d = First(G)
          BY <2>1, <3>1, <3>2, <4>1
        <5> HIDE DEF G, L, d
        <5> QED
          BY <4>3, <5>1, FirstOf
      <4>5. prog[d].k = "var" /\ node_ptr_isglobal(d) = TRUE
        BY <3>2, <4>4 DEF node_ptr_isglobal
      <4> QED
        BY <1>2, <3>3, <4>4, <4>5, ExistsCases
    <3>4. CASE ~r.isglobal
      <4>1. ~IsGlobal(prog, pc) /\ Read(prog, pc, r) = Last(L)
        BY <2>4, <3>4 DEF Read
      <4>2. L # {}
        <5> HIDE DEF L, r
        <5> QED
          BY <2>4, <4>1 DEF Last
      <4>3. d = Read(prog, pc, r) /\ d \in L /\ d # 0
        <5> HIDE DEF L, G, r
        <5> QED
          BY <2>1, <2>4, <3>1, <3>2, <4>1, <4>2, LastOf
      <4>4. prog[d].k # "param"
        BY <1>2, <2>1, <4>3 DEF Peculiar, ReadsParameter
      <4>5. node_ptr_isglobal(d) = FALSE
        <5>1. CASE prog[d].k = "for"
          <6>1. ~(prog[d].rhs # NoRef /\ prog[d].rhs.isglobal)
            BY <1>2, <2>1, <4>3, <5>1 DEF Peculiar, GlobalIterable
          <6> QED
            BY <5>1, <6>1 DEF node_ptr_isglobal
        <5>2. CASE prog[d].k # "for"
          BY <3>2, <4>3, <5>2 DEF node_ptr_isglobal
        <5> QED
          BY <5>1, <5>2
      <4> QED
        BY <1>2, <2>1, <3>4, <4>3, <4>4, <4>5, ExistsCases
    <3> QED
      BY <2>1, <3>3, <3>4
  <2> QED
    BY <1>2, <2>3, <2>4
<1> QED
  BY <1>1, <1>2

LEMMA ReadErrorsMean ==
  /\ exists(Node.rhs) = "SUCCESS" => ReadErrors = {} /\ exists(Node.rhs) # "NOT_DECLARED"
  /\ ReadErrors = {} /\ ~derefs_null => exists(Node.rhs) = "SUCCESS"
<1>1. exists(Node.rhs) \in {"SUCCESS", "NOT_DECLARED", "crash", "NOT_DEC_AT_GLOB_SCOPE"}
  <2>1. CASE Node.rhs = NoRef
    BY <2>1 DEF exists
  <2>2. CASE Node.rhs # NoRef
    BY <2>2, ExistsCases
  <2> QED
    BY <2>1, <2>2
<1>2. ReadErrors = {} => exists(Node.rhs) \notin {"NOT_DECLARED", "NOT_DEC_AT_GLOB_SCOPE"}
  BY DEF ReadErrors
<1>3. exists(Node.rhs) = "SUCCESS" => ReadErrors = {}
  BY DEF ReadErrors
<1>4. ~derefs_null => exists(Node.rhs) # "crash"
  BY DEF derefs_null
<1> QED
  BY <1>1, <1>2, <1>3, <1>4

\* What is assigned is what the scope rules say, unless the name is hidden.
LEMMA FoundIsAssigned ==
  ASSUME Met, Node.k \in {"set", "step"}, ~Masked(prog, pc, Node.lhs)
  PROVE  /\ AssignedSymbol(Node.lhs) = Assigned(prog, pc, Node.lhs)
         /\ semantic_find_symbol(Node.lhs.name) = 0 => Assigned(prog, pc, Node.lhs) = 0
         /\ semantic_find_symbol(Node.lhs.name) # 0 => Assigned(prog, pc, Node.lhs) # 0
<1> DEFINE r == Node.lhs
           x == r.name
           d == semantic_find_symbol(x)
           g == semantic_find_global_symbol(x)
           L == Locals(prog, pc, x)
           G == Globals(prog, x)
<1>1. /\ prog \in Programs /\ pc \in DOMAIN prog /\ x \in Names /\ r # NoRef
      /\ Len(prog) \in Nat /\ r.isglobal \in BOOLEAN
  BY MetFacts
<1>2. g = First(G) /\ d = IF L = {} THEN First(G) ELSE Last(L)
  BY <1>1, SymbolsMet
<1>3. r.isglobal => L = {}
  BY <1>1 DEF Masked
<1>4. Assigned(prog, pc, r) = IF ~r.isglobal /\ L # {} THEN Last(L) ELSE First(G)
  BY DEF Assigned
<1>5. AssignedSymbol(r) = IF r.isglobal /\ g # 0 THEN g ELSE d
  BY DEF AssignedSymbol
<1> HIDE DEF d, g, L, G
<1>6. AssignedSymbol(r) = d
  BY <1>2, <1>3, <1>5
<1>7. Assigned(prog, pc, r) = d
  BY <1>1, <1>2, <1>3, <1>4
<1> QED
  BY <1>6, <1>7 DEF d

LEMMA BoundNext ==
  ASSUME Met, Node.k # "end", Bind, prog' = prog,
         \/ target' = target
         \/ Node.k \in {"set", "step"} /\ target' = [target EXCEPT ![pc] = AssignedSymbol(Node.lhs)]
  PROVE  Bound'
<1>1. /\ prog \in Programs /\ pc \in DOMAIN prog /\ prog[pc] = Node
      /\ \A p \in DOMAIN prog : p \in Positions
  BY MetFacts, ProgramFacts
<1>2. bind \in [Positions -> Decls] /\ target \in [Positions -> Decls]
  BY DEF Met, ScopeInv, TypeOK, SemanticTypeOK
<1>3. ASSUME NEW p \in DOMAIN prog, bind'[p] # 0, ~Masked(prog, p, prog[p].rhs)
      PROVE  bind'[p] = Read(prog, p, prog[p].rhs)
  <2>1. \/ bind'[p] = bind[p]
        \/ /\ p = pc /\ Node.rhs # NoRef /\ exists(Node.rhs) = "SUCCESS"
           /\ bind'[p] = semantic_find_symbol(Node.rhs.name)
    BY <1>1, <1>2 DEF Bind
  <2>2. CASE bind'[p] = bind[p]
    BY <1>3, <2>2 DEF Met, Bound
  <2>3. CASE /\ p = pc /\ Node.rhs # NoRef /\ exists(Node.rhs) = "SUCCESS"
             /\ bind'[p] = semantic_find_symbol(Node.rhs.name)
    BY <1>1, <1>3, <2>3, FoundIsRead
  <2> QED
    BY <2>1, <2>2, <2>3
<1>4. ASSUME NEW p \in DOMAIN prog, target'[p] # 0, ~Masked(prog, p, prog[p].lhs)
      PROVE  target'[p] = Assigned(prog, p, prog[p].lhs)
  <2>1. \/ target'[p] = target[p]
        \/ /\ p = pc /\ Node.k \in {"set", "step"}
           /\ target'[p] = AssignedSymbol(Node.lhs)
    BY <1>1, <1>2
  <2>2. CASE target'[p] = target[p]
    BY <1>4, <2>2 DEF Met, Bound
  <2>3. CASE p = pc /\ Node.k \in {"set", "step"} /\ target'[p] = AssignedSymbol(Node.lhs)
    BY <1>1, <1>4, <2>3, FoundIsAssigned
  <2> QED
    BY <2>1, <2>2, <2>3
<1> QED
  BY <1>3, <1>4 DEF Bound

-----------------------------------------------------------------------------
(* The check of one token *)

\* What the check of a token decides, and what it leaves for the next one.
Judged ==
  /\ errors' = {} => Checked' /\ Bound'
  /\ errors' # {} /\ ~Peculiar(prog) => ~WellScopedAt(prog, pc)

\* The call stack, past a token that is not an "end".
LEMMA CallsFollow ==
  ASSUME Met, Node.k # "end",
         \/ Node.k \notin Openers /\ calls' = calls
         \/ Node.k \in Openers /\ Call
  PROVE  /\ Around(prog, pc + 1, calls')
         /\ {calls'[k] : k \in DOMAIN calls'} = Inside(prog, pc + 1)
<1>1. /\ prog \in Programs /\ pc \in DOMAIN prog /\ prog[pc] = Node /\ Closed(prog)
      /\ Around(prog, pc, calls) /\ {calls[k] : k \in DOMAIN calls} = Inside(prog, pc)
  BY MetFacts DEF Met, Checked
<1>2. CASE Node.k \notin Openers /\ calls' = calls
  <2>1. ~Opens(prog, pc) /\ prog[pc].k # "end"
    BY <1>1, <1>2 DEF Opens
  <2>2. Around(prog, pc + 1, calls)
    BY <1>1, <2>1, AroundNext
  <2>3. Inside(prog, pc + 1) = Inside(prog, pc)
    BY <1>1, <2>1, InsideNext
  <2> QED
    BY <1>1, <1>2, <2>2, <2>3
<1>3. CASE Node.k \in Openers /\ Call
  <2>1. Opens(prog, pc) /\ calls' = Append(calls, pc)
    BY <1>1, <1>3 DEF Opens, Call
  <2>2. Around(prog, pc + 1, Append(calls, pc))
    BY <1>1, <2>1, AroundInside
  <2>3. Inside(prog, pc + 1) = Inside(prog, pc) \cup {pc}
    BY <1>1, <2>1, InsideOpener
  <2>4. calls \in Seq(DOMAIN prog)
    BY <1>1 DEF Around
  <2> DEFINE n == Len(calls) + 1
             d == Append(calls, pc)
  <2>5. /\ DOMAIN d = DOMAIN calls \cup {n} /\ d[n] = pc
        /\ \A k \in DOMAIN calls : d[k] = calls[k]
    BY <2>4
  <2> HIDE DEF d, n
  <2>6. {d[k] : k \in DOMAIN d} = {calls[k] : k \in DOMAIN calls} \cup {pc}
    BY <2>5
  <2> QED
    BY <1>1, <2>1, <2>2, <2>3, <2>6 DEF d
<1> QED
  BY <1>2, <1>3

\* The flags, past a token that is not an "end".
LEMMA FlagsFollow ==
  ASSUME Met, Node.k # "end",
         Node.k # "fn" => g_in_fn' = g_in_fn /\ is_glob_var_allowed' = is_glob_var_allowed,
         Node.k = "fn" => g_in_fn' = TRUE /\ is_glob_var_allowed' = FALSE
  PROVE  /\ is_glob_var_allowed' <=> \A o \in DOMAIN prog : o < pc + 1 => prog[o].k # "fn"
         /\ g_in_fn' <=> \E o \in Inside(prog, pc + 1) : prog[o].k = "fn"
<1>1. /\ prog \in Programs /\ pc \in DOMAIN prog /\ prog[pc] = Node
      /\ DOMAIN prog = 1 .. Len(prog) /\ Len(prog) \in Nat
      /\ is_glob_var_allowed <=> \A o \in DOMAIN prog : o < pc => prog[o].k # "fn"
      /\ g_in_fn <=> \E o \in Inside(prog, pc) : prog[o].k = "fn"
      /\ is_glob_var_allowed \in BOOLEAN /\ g_in_fn \in BOOLEAN
  BY MetFacts DEF Met, Checked, ScopeInv, TypeOK, SemanticTypeOK
<1>2. \A o \in DOMAIN prog : o < pc + 1 <=> o < pc \/ o = pc
  BY <1>1
<1>3. /\ Opens(prog, pc) => Inside(prog, pc + 1) = Inside(prog, pc) \cup {pc}
      /\ ~Opens(prog, pc) => Inside(prog, pc + 1) = Inside(prog, pc)
      /\ Node.k = "fn" => Opens(prog, pc)
  BY <1>1, InsideNext, InsideOpener DEF Opens, Openers
<1>4. CASE Node.k = "fn"
  BY <1>1, <1>2, <1>3, <1>4
<1>5. CASE Node.k # "fn"
  BY <1>1, <1>2, <1>3, <1>5
<1> QED
  BY <1>4, <1>5

\* The parts of Checked at the next token.
LEMMA CheckedNext ==
  ASSUME Met, prog' = prog, pc' = pc + 1,
         Around(prog, pc + 1, calls'), {calls'[k] : k \in DOMAIN calls'} = Inside(prog, pc + 1),
         TableAt(prog, pc + 1, scopes'),
         is_glob_var_allowed' <=> \A o \in DOMAIN prog : o < pc + 1 => prog[o].k # "fn",
         g_in_fn' <=> \E o \in Inside(prog, pc + 1) : prog[o].k = "fn",
         ~Peculiar(prog) => WellScopedAt(prog, pc)
  PROVE  Checked'
<1>1. GlobalsRead(prog, Len(prog) + 1)
  BY DEF Met, Checked
<1>2. ASSUME ~Peculiar(prog), NEW p \in DOMAIN prog, p < pc + 1
      PROVE  WellScopedAt(prog, p)
  <2>1. p < pc \/ p = pc
    BY <1>2, MetFacts
  <2> QED
    BY <1>2, <2>1 DEF Met, Checked
<1> QED
  BY <1>1, <1>2 DEF Checked

\* A token that only reads, if anything.
LEMMA ReadsOnly ==
  ASSUME Met, Node.k \notin {"end", "var", "set", "step", "param", "break", "ret"}, ~Peculiar(prog)
  PROVE  WellScopedAt(prog, pc) <=> exists(Node.rhs) = "SUCCESS"
BY ReadJudged, MetFacts DEF WellScopedAt

LEMMA UseJudged ==
  ASSUME Met, ~derefs_null, prog' = prog, pc' = pc + 1,
         Node.k \in {"use", "if", "while"}, Bind, errors' = errors \cup ReadErrors,
         IF Node.k = "use" THEN calls' = calls ELSE Call,
         UNCHANGED <<scopes, g_in_fn, is_glob_var_allowed, target>>
  PROVE  Judged
<1>1. /\ Node.k # "end" /\ prog \in Programs /\ pc \in DOMAIN prog /\ prog[pc] = Node /\ errors = {}
      /\ TableAt(prog, pc, scopes)
  BY MetFacts DEF Met, Checked
<1>2. errors' = ReadErrors
  BY <1>1
<1>3. ASSUME errors' = {} PROVE Checked' /\ Bound'
  <2>1. exists(Node.rhs) = "SUCCESS"
    BY <1>2, <1>3, ReadErrorsMean
  <2>2. ~Peculiar(prog) => WellScopedAt(prog, pc)
    BY <2>1, ReadsOnly
  <2>3. TableAt(prog, pc + 1, scopes')
    BY <1>1, TableStays
  <2>4. /\ Around(prog, pc + 1, calls')
        /\ {calls'[k] : k \in DOMAIN calls'} = Inside(prog, pc + 1)
    BY <1>1, CallsFollow DEF Openers
  <2>5. /\ is_glob_var_allowed' <=> \A o \in DOMAIN prog : o < pc + 1 => prog[o].k # "fn"
        /\ g_in_fn' <=> \E o \in Inside(prog, pc + 1) : prog[o].k = "fn"
    BY <1>1, FlagsFollow
  <2> QED
    BY <1>1, <2>2, <2>3, <2>4, <2>5, CheckedNext, BoundNext
<1>4. ASSUME errors' # {}, ~Peculiar(prog) PROVE ~WellScopedAt(prog, pc)
  BY <1>2, <1>4, ReadErrorsMean, ReadsOnly
<1> QED
  BY <1>3, <1>4 DEF Judged

LEMMA ElseJudged ==
  ASSUME Met, check_else
  PROVE  Judged
<1>1. /\ Node.k = "else" /\ prog \in Programs /\ pc \in DOMAIN prog /\ prog[pc] = Node /\ errors = {}
      /\ TableAt(prog, pc, scopes) /\ prog' = prog /\ pc' = pc + 1
      /\ UNCHANGED <<calls, scopes, g_in_fn, is_glob_var_allowed, target, bind, errors>>
  BY MetFacts DEF Met, Checked, check_else, Check, Step, semantic
<1>2. Node.rhs = NoRef
  BY <1>1, ProgramConstants
<1>3. exists(Node.rhs) = "SUCCESS" /\ Bind
  BY <1>1, <1>2 DEF exists, Bind
<1>4. ~Peculiar(prog) => WellScopedAt(prog, pc)
  BY <1>1, <1>3, ReadsOnly
<1>5. TableAt(prog, pc + 1, scopes')
  BY <1>1, TableStays
<1>6. /\ Around(prog, pc + 1, calls')
      /\ {calls'[k] : k \in DOMAIN calls'} = Inside(prog, pc + 1)
  BY <1>1, CallsFollow DEF Openers
<1>7. /\ is_glob_var_allowed' <=> \A o \in DOMAIN prog : o < pc + 1 => prog[o].k # "fn"
      /\ g_in_fn' <=> \E o \in Inside(prog, pc + 1) : prog[o].k = "fn"
  BY <1>1, FlagsFollow
<1>8. Checked' /\ Bound'
  BY <1>1, <1>3, <1>4, <1>5, <1>6, <1>7, CheckedNext, BoundNext
<1> QED
  BY <1>1, <1>8 DEF Judged

LEMMA ForJudged ==
  ASSUME Met, check_for_loop
  PROVE  Judged
<1>1. /\ Node.k = "for" /\ prog \in Programs /\ pc \in DOMAIN prog /\ prog[pc] = Node /\ errors = {}
      /\ scopes \in Seq([Names -> Decls]) /\ pc \in Decls /\ Node.lhs.name \in Names
      /\ TableAt(prog, pc, scopes) /\ prog' = prog /\ ~derefs_null /\ Bind
      /\ UNCHANGED <<g_in_fn, is_glob_var_allowed, target>>
  BY MetFacts, NodeFacts DEF Met, Checked, check_for_loop, Check
<1>2. CASE exists(Node.rhs) = "NOT_DECLARED"
  <2>1. errors' # {} /\ exists(Node.rhs) # "SUCCESS"
    BY <1>2 DEF check_for_loop
  <2> QED
    BY <1>1, <2>1, ReadsOnly DEF Judged
<1>3. CASE exists(Node.rhs) # "NOT_DECLARED"
  <2> DEFINE new == [EmptyScope EXCEPT ![Node.lhs.name] = pc]
  <2>1. pc' = pc + 1 /\ errors' = ReadErrors /\ Call /\ scopes' = Append(scopes, new)
    BY <1>1, <1>3 DEF check_for_loop
  <2>2. ASSUME errors' = {} PROVE Checked' /\ Bound'
    <3>1. exists(Node.rhs) = "SUCCESS"
      BY <1>1, <2>1, <2>2, ReadErrorsMean
    <3>2. ~Peculiar(prog) => WellScopedAt(prog, pc)
      BY <1>1, <3>1, ReadsOnly
    <3>3. TableAt(prog, pc + 1, scopes')
      <4>1. new \in [Names -> Decls]
        BY <1>1, EmptyScopes
      <4> QED
        BY <1>1, <2>1, <4>1, TableOpens
    <3>4. /\ Around(prog, pc + 1, calls')
          /\ {calls'[k] : k \in DOMAIN calls'} = Inside(prog, pc + 1)
      BY <1>1, <2>1, CallsFollow DEF Openers
    <3>5. /\ is_glob_var_allowed' <=> \A o \in DOMAIN prog : o < pc + 1 => prog[o].k # "fn"
          /\ g_in_fn' <=> \E o \in Inside(prog, pc + 1) : prog[o].k = "fn"
      BY <1>1, FlagsFollow
    <3> QED
      BY <1>1, <2>1, <3>2, <3>3, <3>4, <3>5, CheckedNext, BoundNext
  <2>3. ASSUME errors' # {}, ~Peculiar(prog) PROVE ~WellScopedAt(prog, pc)
    BY <1>1, <2>1, <2>3, ReadErrorsMean, ReadsOnly
  <2> QED
    BY <2>2, <2>3 DEF Judged
<1> QED
  BY <1>2, <1>3

LEMMA FnJudged ==
  ASSUME Met, handle_fn
  PROVE  Judged
<1>1. /\ Node.k = "fn" /\ prog \in Programs /\ pc \in DOMAIN prog /\ prog[pc] = Node /\ errors = {}
      /\ scopes \in Seq([Names -> Decls])
      /\ TableAt(prog, pc, scopes) /\ prog' = prog /\ pc' = pc + 1 /\ Call
      /\ scopes' = Append(scopes, EmptyScope) /\ g_in_fn' = TRUE /\ is_glob_var_allowed' = FALSE
      /\ UNCHANGED <<target, bind, errors>>
  BY MetFacts DEF Met, Checked, handle_fn, Check, Step
<1>2. Node.rhs = NoRef
  BY <1>1, ProgramConstants
<1>3. exists(Node.rhs) = "SUCCESS" /\ Bind
  BY <1>1, <1>2 DEF exists, Bind
<1>4. ~Peculiar(prog) => WellScopedAt(prog, pc)
  BY <1>1, <1>3, ReadsOnly
<1>5. TableAt(prog, pc + 1, scopes')
  BY <1>1, TableOpens, EmptyScopes
<1>6. /\ Around(prog, pc + 1, calls')
      /\ {calls'[k] : k \in DOMAIN calls'} = Inside(prog, pc + 1)
  BY <1>1, CallsFollow DEF Openers
<1>7. /\ is_glob_var_allowed' <=> \A o \in DOMAIN prog : o < pc + 1 => prog[o].k # "fn"
      /\ g_in_fn' <=> \E o \in Inside(prog, pc + 1) : prog[o].k = "fn"
  BY <1>1, FlagsFollow
<1>8. Checked' /\ Bound'
  BY <1>1, <1>3, <1>4, <1>5, <1>6, <1>7, CheckedNext, BoundNext
<1> QED
  BY <1>1, <1>8 DEF Judged

\* Functions and global declarations, as the scope rules see them.
LEMMA FunctionFacts ==
  ASSUME NEW P \in Programs, NEW p \in DOMAIN P
  PROVE  /\ Function(P, p) # 0 <=> \E o \in DOMAIN P : P[o].k = "fn" /\ Within(P, p, o)
         /\ P[p].k # "end" => (Function(P, p) # 0 <=> \E o \in Inside(P, p) : P[o].k = "fn")
<1> DEFINE around == {o \in DOMAIN P : P[o].k = "fn" /\ Within(P, p, o)}
<1>1. \A o \in around : o # 0
  BY ProgramFacts
<1>2. Function(P, p) = IF around = {} THEN 0 ELSE CHOOSE o \in around : TRUE
  BY DEF Function
<1> HIDE DEF around
<1>3. around # {} => Function(P, p) \in around
  BY <1>2
<1>4. Function(P, p) # 0 <=> around # {}
  BY <1>1, <1>2, <1>3
<1>5. P[p].k # "end" => (around # {} <=> \E o \in Inside(P, p) : P[o].k = "fn")
  BY WithinInside DEF around, Inside
<1> QED
  BY <1>4, <1>5 DEF around

LEMMA RetJudged ==
  ASSUME Met, ret
  PROVE  Judged
<1>1. /\ Node.k = "ret" /\ prog \in Programs /\ pc \in DOMAIN prog /\ prog[pc] = Node /\ errors = {}
      /\ TableAt(prog, pc, scopes) /\ prog' = prog /\ pc' = pc + 1
      /\ UNCHANGED <<calls, scopes, g_in_fn, is_glob_var_allowed, target, bind>>
      /\ errors' = IF g_in_fn THEN errors ELSE errors \cup {"SEM_RETURN_OUTSIDE_FN"}
  BY MetFacts DEF Met, Checked, ret, Check, Step
<1>2. Node.rhs = NoRef
  BY <1>1, ProgramConstants
<1>3. Bind
  BY <1>1, <1>2 DEF Bind
<1>4. WellScopedAt(prog, pc) <=> Function(prog, pc) # 0
  BY <1>1, <1>2 DEF WellScopedAt
<1>5. g_in_fn <=> Function(prog, pc) # 0
  BY <1>1, FunctionFacts DEF Met, Checked
<1>6. TableAt(prog, pc + 1, scopes')
  BY <1>1, TableStays
<1>7. /\ Around(prog, pc + 1, calls')
      /\ {calls'[k] : k \in DOMAIN calls'} = Inside(prog, pc + 1)
  BY <1>1, CallsFollow DEF Openers
<1>8. /\ is_glob_var_allowed' <=> \A o \in DOMAIN prog : o < pc + 1 => prog[o].k # "fn"
      /\ g_in_fn' <=> \E o \in Inside(prog, pc + 1) : prog[o].k = "fn"
  BY <1>1, FlagsFollow
<1>9. errors' = {} => Checked' /\ Bound'
  <2> SUFFICES ASSUME errors' = {} PROVE Checked' /\ Bound'
    OBVIOUS
  <2>1. WellScopedAt(prog, pc)
    BY <1>1, <1>4, <1>5
  <2> QED
    BY <1>1, <1>3, <1>6, <1>7, <1>8, <2>1, CheckedNext, BoundNext
<1>10. errors' # {} => ~WellScopedAt(prog, pc)
  BY <1>1, <1>4, <1>5
<1> QED
  BY <1>9, <1>10 DEF Judged

LEMMA BranchJudged ==
  ASSUME Met, check_unconditional_branches
  PROVE  Judged
<1>1. /\ Node.k = "break" /\ prog \in Programs /\ pc \in DOMAIN prog /\ prog[pc] = Node /\ errors = {}
      /\ TableAt(prog, pc, scopes) /\ prog' = prog /\ pc' = pc + 1
      /\ UNCHANGED <<calls, scopes, g_in_fn, is_glob_var_allowed, target, bind>>
      /\ errors' = IF g_in_loop <= 0 THEN errors \cup {"SEM_BREAK_OUTSIDE_LOOP"} ELSE errors
  BY MetFacts DEF Met, Checked, check_unconditional_branches, Check, Step
<1>2. Node.rhs = NoRef
  BY <1>1, ProgramConstants
<1>3. Bind
  BY <1>1, <1>2 DEF Bind
<1>4. WellScopedAt(prog, pc) <=> \E o \in DOMAIN prog : prog[o].k \in {"for", "while"} /\ Within(prog, pc, o)
  BY <1>1, <1>2 DEF WellScopedAt
<1>5. g_in_loop <= 0 <=> ~WellScopedAt(prog, pc)
  <2> DEFINE R == Running({"for", "while"})
  <2>1. calls \in Seq(DOMAIN prog) /\ {calls[k] : k \in DOMAIN calls} = Inside(prog, pc)
    BY DEF Met, Checked, Around
  <2>2. g_in_loop = Cardinality(R)
    BY DEF Met, ScopeInv, ScopesMatchCalls
  <2>3. IsFiniteSet(R)
    <3>1. R \subseteq 1 .. Len(calls) /\ IsFiniteSet(1 .. Len(calls))
      BY <2>1, FS_Interval DEF Running
    <3> QED
      BY <3>1, FS_Subset
  <2>4. R # {} <=> \E o \in Inside(prog, pc) : prog[o].k \in {"for", "while"}
    BY <2>1 DEF Running
  <2>5. (\E o \in Inside(prog, pc) : prog[o].k \in {"for", "while"}) <=> WellScopedAt(prog, pc)
    BY <1>1, <1>4, WithinInside DEF Inside
  <2> HIDE DEF R
  <2>6. Cardinality(R) \in Nat /\ (Cardinality(R) = 0 <=> R = {})
    BY <2>3, FS_CardinalityType, FS_EmptySet
  <2> QED
    BY <2>2, <2>4, <2>5, <2>6
<1>6. TableAt(prog, pc + 1, scopes')
  BY <1>1, TableStays
<1>7. /\ Around(prog, pc + 1, calls')
      /\ {calls'[k] : k \in DOMAIN calls'} = Inside(prog, pc + 1)
  BY <1>1, CallsFollow DEF Openers
<1>8. /\ is_glob_var_allowed' <=> \A o \in DOMAIN prog : o < pc + 1 => prog[o].k # "fn"
      /\ g_in_fn' <=> \E o \in Inside(prog, pc + 1) : prog[o].k = "fn"
  BY <1>1, FlagsFollow
<1>9. errors' = {} => Checked' /\ Bound'
  <2> SUFFICES ASSUME errors' = {} PROVE Checked' /\ Bound'
    OBVIOUS
  <2>1. WellScopedAt(prog, pc)
    BY <1>1, <1>5
  <2> QED
    BY <1>1, <1>3, <1>6, <1>7, <1>8, <2>1, CheckedNext, BoundNext
<1>10. errors' # {} => ~WellScopedAt(prog, pc)
  BY <1>1, <1>5
<1> QED
  BY <1>9, <1>10 DEF Judged

\* Past a token that opens and ends nothing.
LEMMA CheckedPast ==
  ASSUME Met, Node.k # "end", Node.k \notin Openers, prog' = prog, pc' = pc + 1,
         UNCHANGED <<calls, g_in_fn, is_glob_var_allowed>>, TableAt(prog, pc + 1, scopes'),
         ~Peculiar(prog) => WellScopedAt(prog, pc)
  PROVE  Checked'
<1>1. /\ Around(prog, pc + 1, calls')
      /\ {calls'[k] : k \in DOMAIN calls'} = Inside(prog, pc + 1)
  BY CallsFollow
<1>2. /\ is_glob_var_allowed' <=> \A o \in DOMAIN prog : o < pc + 1 => prog[o].k # "fn"
      /\ g_in_fn' <=> \E o \in Inside(prog, pc + 1) : prog[o].k = "fn"
  BY FlagsFollow DEF Openers
<1> QED
  BY <1>1, <1>2, CheckedNext

LEMMA ParamJudged ==
  ASSUME Met, declare_param
  PROVE  Judged
<1> DEFINE x == Node.lhs.name
           taken == scopes[Len(scopes)][x] # 0
<1>1. /\ Node.k = "param" /\ prog \in Programs /\ pc \in DOMAIN prog /\ prog[pc] = Node /\ errors = {}
      /\ scopes \in Seq([Names -> Decls]) /\ TableAt(prog, pc, scopes) /\ prog' = prog /\ pc' = pc + 1
      /\ UNCHANGED <<calls, g_in_fn, is_glob_var_allowed, target, bind>>
  BY MetFacts DEF Met, Checked, declare_param, Check, Step
<1>2. /\ scopes' = IF taken THEN scopes ELSE With(scopes, Len(scopes), x, pc)
      /\ errors' = IF taken THEN errors \cup {"SEM_DUP_PARAM"} ELSE errors
  BY DEF declare_param, With
<1>3. Node.rhs = NoRef
  BY <1>1, ProgramConstants
<1>4. Bind
  BY <1>1, <1>3 DEF Bind
<1>5. ~IsGlobal(prog, pc)
  BY <1>1 DEF IsGlobal
<1>6. taken <=> Redeclared(prog, pc, x)
  BY <1>1, TakenMeansRedeclared
<1>7. WellScopedAt(prog, pc) <=> ~taken
  BY <1>1, <1>3, <1>5, <1>6 DEF WellScopedAt
<1>8. CASE ~taken
  <2>1. errors' = {} /\ scopes' = With(scopes, Len(scopes), x, pc)
    BY <1>1, <1>2, <1>8
  <2>2. TableAt(prog, pc + 1, scopes')
    BY <1>1, <1>5, <1>8, <2>1, TableDeclares
  <2>3. Checked' /\ Bound'
    BY <1>1, <1>4, <1>7, <1>8, <2>2, CheckedPast, BoundNext DEF Openers
  <2> QED
    BY <2>1, <2>3 DEF Judged
<1>9. CASE taken
  BY <1>1, <1>2, <1>7, <1>9 DEF Judged
<1> QED
  BY <1>8, <1>9

\* A function is in front if "@" is not allowed; at the top level, none is around.
LEMMA AtSymMeans ==
  ASSUME Met, Node.k # "end"
  PROVE  /\ is_glob_var_allowed => Function(prog, pc) = 0
         /\ TopLevel(prog, pc) => Function(prog, pc) = 0
         /\ ~is_glob_var_allowed => \E o \in DOMAIN prog : prog[o].k = "fn" /\ o < pc
<1>1. /\ prog \in Programs /\ pc \in DOMAIN prog /\ prog[pc] = Node
      /\ is_glob_var_allowed <=> \A o \in DOMAIN prog : o < pc => prog[o].k # "fn"
      /\ Around(prog, pc, calls) /\ {calls[k] : k \in DOMAIN calls} = Inside(prog, pc)
  BY MetFacts DEF Met, Checked
<1>2. Function(prog, pc) # 0 => \E o \in Inside(prog, pc) : prog[o].k = "fn"
  BY <1>1, FunctionFacts
<1>3. ASSUME TopLevel(prog, pc) PROVE Inside(prog, pc) = {}
  <2>1. calls \in Seq(DOMAIN prog) /\ Len(calls) = 0
    BY <1>1, <1>3 DEF Around, TopLevel
  <2>2. DOMAIN calls = {}
    BY <2>1
  <2> QED
    BY <1>1, <2>2
<1>4. \A o \in Inside(prog, pc) : o \in DOMAIN prog /\ o < pc
  BY DEF Inside
<1> QED
  BY <1>1, <1>2, <1>3, <1>4

LEMMA DeclarationJudged ==
  ASSUME Met, check_declaration
  PROVE  Judged
<1> DEFINE x == Node.lhs.name
           n == Len(scopes)
           readable == exists(Node.rhs) = "SUCCESS"
<1>1. /\ Node.k = "var" /\ prog \in Programs /\ pc \in DOMAIN prog /\ prog[pc] = Node /\ errors = {}
      /\ scopes \in Seq([Names -> Decls]) /\ TableAt(prog, pc, scopes) /\ prog' = prog /\ pc' = pc + 1
      /\ Len(prog) \in Nat /\ x \in Names /\ ~derefs_null /\ Bind /\ declare_variable
      /\ UNCHANGED <<calls, g_in_fn, is_glob_var_allowed, target>>
  BY MetFacts DEF Met, Checked, check_declaration, declare_variable, Check, Step
<1>2. /\ readable <=> ReadErrors = {}
      /\ readable => exists(Node.rhs) # "NOT_DECLARED"
  BY <1>1, ReadErrorsMean
<1>3. ~Peculiar(prog) => ((Node.rhs # NoRef => Read(prog, pc, Node.rhs) # 0) <=> readable)
  BY <1>1, ReadJudged
<1>4. CASE IsGlobal(prog, pc)
  <2>1. scopes[1][x] # 0
    <3> DEFINE G == Globals(prog, x)
    <3>1. pc \in G /\ G \subseteq 1 .. Len(prog)
      BY <1>1, <1>4, DeclarationFacts DEF Globals, Declares
    <3>2. scopes[1][x] = First(G)
      BY <1>1 DEF TableAt
    <3> HIDE DEF G
    <3> QED
      BY <1>1, <3>1, <3>2, FirstOf
  <2>2. scopes' = scopes /\ errors' = AtSymErrors(TRUE) \cup ReadErrors
    BY <1>1, <1>4, <2>1 DEF declare_variable
  <2>3. TableAt(prog, pc + 1, scopes')
    BY <1>1, <1>4, <2>2, TableStays
  <2>4. ~Peculiar(prog) => (WellScopedAt(prog, pc) <=> readable)
    BY <1>1, <1>3, <1>4 DEF WellScopedAt
  <2>5. ASSUME errors' = {} PROVE Checked' /\ Bound'
    <3>1. ~Peculiar(prog) => WellScopedAt(prog, pc)
      BY <1>2, <2>2, <2>4, <2>5
    <3> QED
      BY <1>1, <2>3, <3>1, CheckedPast, BoundNext DEF Openers
  <2>6. ASSUME errors' # {}, ~Peculiar(prog) PROVE ~WellScopedAt(prog, pc)
    <3>1. ASSUME AtSymErrors(TRUE) # {} PROVE FALSE
      <4>1. ~is_glob_var_allowed
        BY <3>1 DEF AtSymErrors
      <4>2. Function(prog, pc) = 0
        BY <1>1, <1>4, AtSymMeans DEF IsGlobal
      <4>3. PICK o \in DOMAIN prog : prog[o].k = "fn" /\ o < pc
        BY <1>1, <4>1, AtSymMeans
      <4>4. GlobalBehindFunction(prog)
        BY <1>1, <1>4, <4>2, <4>3 DEF GlobalBehindFunction
      <4> QED
        BY <2>6, <4>4 DEF Peculiar
    <3> QED
      BY <1>2, <2>2, <2>4, <2>6, <3>1
  <2> QED
    BY <2>5, <2>6 DEF Judged
<1>5. CASE ~IsGlobal(prog, pc)
  <2> DEFINE taken == scopes[n][x] # 0
             typed == exists(Node.rhs) # "NOT_DECLARED"
  <2>1. AtSymErrors(FALSE) = {}
    BY DEF AtSymErrors
  <2>2. /\ scopes' = IF typed /\ ~taken THEN With(scopes, n, x, pc) ELSE scopes
        /\ errors' = ReadErrors \cup IF typed /\ taken THEN {"SEM_VAR_REDECL"} ELSE {}
    <3>1. IsGlobal(prog, pc) = FALSE
      BY <1>5 DEF IsGlobal
    <3> QED
      BY <1>1, <2>1, <3>1 DEF declare_variable, With
  <2>3. taken <=> Redeclared(prog, pc, x)
    BY <1>1, TakenMeansRedeclared
  <2>4. ~Peculiar(prog) => (WellScopedAt(prog, pc) <=> readable /\ ~taken)
    BY <1>1, <1>3, <1>5, <2>3 DEF WellScopedAt
  <2>5. errors' = {} <=> readable /\ ~taken
    BY <1>2, <2>2
  <2>6. ASSUME readable, ~taken PROVE Checked' /\ Bound'
    <3>1. scopes' = With(scopes, n, x, pc)
      BY <1>2, <2>2, <2>6
    <3>2. TableAt(prog, pc + 1, scopes')
      BY <1>1, <1>5, <2>6, <3>1, TableDeclares
    <3> QED
      BY <1>1, <2>4, <2>6, <3>2, CheckedPast, BoundNext DEF Openers
  <2> QED
    BY <2>4, <2>5, <2>6 DEF Judged
<1> QED
  BY <1>4, <1>5

LEMMA AssignJudged ==
  ASSUME Met, check_assign
  PROVE  Judged
<1> DEFINE r == Node.lhs
           s == AssignedSymbol(r)
           typed == exists(Node.rhs) # "NOT_DECLARED"
           readable == exists(Node.rhs) = "SUCCESS"
<1>1. /\ Node.k \in {"set", "step"} /\ prog \in Programs /\ pc \in DOMAIN prog /\ prog[pc] = Node
      /\ errors = {} /\ TableAt(prog, pc, scopes) /\ prog' = prog /\ pc' = pc + 1
      /\ r # NoRef /\ ~derefs_null /\ Bind /\ assign
      /\ UNCHANGED <<calls, scopes, g_in_fn, is_glob_var_allowed>>
  BY MetFacts DEF Met, Checked, check_assign, assign, Check, Step
<1>2. /\ target' = IF typed THEN [target EXCEPT ![pc] = s] ELSE target
      /\ errors' = AtSymErrors(r.isglobal) \cup ReadErrors
                     \cup IF typed /\ ~Mutable(prog, s) THEN {"SEM_ASSIGN_IMMUTABLE"} ELSE {}
  BY <1>1 DEF assign
<1>3. /\ readable <=> ReadErrors = {}
      /\ readable => typed
  BY <1>1, ReadErrorsMean
<1>4. ~Peculiar(prog) => ((Node.rhs # NoRef => Read(prog, pc, Node.rhs) # 0) <=> readable)
  BY <1>1, ReadJudged
<1>5. ~Peculiar(prog) => s = Assigned(prog, pc, r) /\ Assigned(prog, pc, r) # 0
  <2> SUFFICES ASSUME ~Peculiar(prog) PROVE s = Assigned(prog, pc, r) /\ Assigned(prog, pc, r) # 0
    OBVIOUS
  <2>1. ~Masked(prog, pc, r)
    BY <1>1 DEF Peculiar, MaskedGlobal
  <2>2. semantic_find_symbol(r.name) # 0
    BY <1>1 DEF derefs_null
  <2> QED
    BY <1>1, <2>1, <2>2, FoundIsAssigned
<1>6. ~Peculiar(prog) => (AtSymErrors(r.isglobal) = {} <=> (r.isglobal => Function(prog, pc) = 0))
  <2> SUFFICES ASSUME ~Peculiar(prog)
               PROVE  AtSymErrors(r.isglobal) = {} <=> (r.isglobal => Function(prog, pc) = 0)
    OBVIOUS
  <2>1. AtSymErrors(r.isglobal) = {} <=> (r.isglobal => is_glob_var_allowed)
    BY DEF AtSymErrors
  <2>2. is_glob_var_allowed => Function(prog, pc) = 0
    BY <1>1, AtSymMeans
  <2>3. ASSUME r.isglobal, ~is_glob_var_allowed, Function(prog, pc) = 0 PROVE FALSE
    <3>1. PICK o \in DOMAIN prog : prog[o].k = "fn" /\ o < pc
      BY <1>1, <2>3, AtSymMeans
    <3>2. GlobalBehindFunction(prog)
      BY <1>1, <2>3, <3>1 DEF GlobalBehindFunction
    <3> QED
      BY <3>2 DEF Peculiar
  <2> QED
    BY <2>1, <2>2, <2>3
<1>7. ~Peculiar(prog) => (WellScopedAt(prog, pc) <=>
        readable /\ Mutable(prog, s) /\ AtSymErrors(r.isglobal) = {})
  BY <1>1, <1>4, <1>5, <1>6 DEF WellScopedAt
<1>8. errors' = {} <=> readable /\ Mutable(prog, s) /\ AtSymErrors(r.isglobal) = {}
  BY <1>2, <1>3
<1>9. ASSUME errors' = {} PROVE Checked' /\ Bound'
  <2>1. TableAt(prog, pc + 1, scopes')
    BY <1>1, TableStays
  <2>2. ~Peculiar(prog) => WellScopedAt(prog, pc)
    BY <1>7, <1>8, <1>9
  <2>3. Checked'
    BY <1>1, <2>1, <2>2, CheckedPast DEF Openers
  <2>4. Bound'
    BY <1>1, <1>2, BoundNext
  <2> QED
    BY <2>3, <2>4
<1> QED
  BY <1>7, <1>8, <1>9 DEF Judged

LEMMA EndJudged ==
  ASSUME Met, check_end
  PROVE  Judged
<1> DEFINE n == Len(calls)
           o == calls[n]
           c == SubSeq(calls, 1, n - 1)
<1>1. /\ Node.k = "end" /\ prog \in Programs /\ pc \in DOMAIN prog /\ prog[pc] = Node /\ errors = {}
      /\ DOMAIN prog = 1 .. Len(prog) /\ Len(prog) \in Nat /\ Closed(prog)
      /\ scopes \in Seq([Names -> Decls]) /\ TableAt(prog, pc, scopes) /\ prog' = prog /\ pc' = pc + 1
      /\ calls # << >> /\ calls' = c
      /\ IF Caller \in {"for", "fn"} THEN scope_pop ELSE UNCHANGED scopes
      /\ g_in_fn' = IF Caller = "fn" THEN FALSE ELSE g_in_fn
      /\ UNCHANGED <<is_glob_var_allowed, errors, bind, target>>
  BY MetFacts DEF Met, Checked, check_end, Check, Step, Return
<1>2. /\ Around(prog, pc, calls) /\ {calls[k] : k \in DOMAIN calls} = Inside(prog, pc)
      /\ is_glob_var_allowed <=> \A q \in DOMAIN prog : q < pc => prog[q].k # "fn"
      /\ g_in_fn <=> \E q \in Inside(prog, pc) : prog[q].k = "fn"
  BY DEF Met, Checked
<1>3. calls \in Seq(DOMAIN prog) /\ n \in Nat \ {0} /\ n \in DOMAIN calls /\ n = Level(prog, pc)
  BY <1>1, <1>2 DEF Around
<1>4. o \in DOMAIN prog /\ pc = End(prog, o) /\ Around(prog, pc + 1, c)
  <2>1. prog[pc].k = "end" /\ Level(prog, pc) > 0
    BY <1>1, <1>3
  <2> HIDE DEF o, c, n
  <2>2. Around(prog, pc, calls) /\ Closed(prog) /\ pc \in DOMAIN prog
    BY <1>1, <1>2
  <2> QED
    BY <2>1, <2>2, AroundOutside DEF o, c, n
<1>5. o \in Inside(prog, pc) /\ Opens(prog, o)
  BY <1>2, <1>3 DEF Inside
<1>6. Inside(prog, pc + 1) = Inside(prog, pc) \ {o}
  BY <1>1, <1>4, <1>5, InsideEnd
<1>7. {c[k] : k \in DOMAIN c} = Inside(prog, pc + 1)
  <2>1. \A k, l \in DOMAIN calls : k # l => calls[k] # calls[l]
    BY <1>1, <1>2, AroundDistinct
  <2>2. DOMAIN c = DOMAIN calls \ {n} /\ \A k \in DOMAIN c : c[k] = calls[k]
    BY <1>1, <1>3
  <2> HIDE DEF c, n
  <2>3. {c[k] : k \in DOMAIN c} = {calls[k] : k \in DOMAIN calls} \ {calls[n]}
    BY <1>3, <2>1, <2>2
  <2> QED
    BY <1>2, <1>6, <2>3
<1>8. TableAt(prog, pc + 1, scopes')
  <2>1. TableAt(prog, pc + 1, IF prog[o].k \in {"fn", "for"} THEN SubSeq(scopes, 1, Len(scopes) - 1)
                                                             ELSE scopes)
    BY <1>1, <1>4, <1>5, TableCloses
  <2>2. Len(scopes) # 1
    <3>1. PICK d \in Seq(DOMAIN prog) : Layered(prog, pc, d, scopes)
      BY <1>1 DEF TableAt
    <3>2. Len(scopes) = Len(d) + 2 /\ Len(d) \in Nat
      BY <3>1 DEF Layered
    <3> QED
      BY <3>2
  <2>3. Caller = prog[o].k
    BY DEF Caller
  <2>4. scopes' = IF prog[o].k \in {"fn", "for"} THEN SubSeq(scopes, 1, Len(scopes) - 1)
                                                 ELSE scopes
    BY <1>1, <2>2, <2>3 DEF scope_pop
  <2> QED
    BY <2>1, <2>4
<1>9. g_in_fn' <=> \E q \in Inside(prog, pc + 1) : prog[q].k = "fn"
  <2>1. ASSUME NEW q \in Inside(prog, pc), prog[q].k = "fn", prog[o].k = "fn"
        PROVE  q = o
    <3>1. Level(prog, q) = 0 /\ Level(prog, o) = 0
      BY <1>1, <1>4, <2>1, ProgramConstants DEF TopLevel, Inside
    <3>2. /\ q \in DOMAIN prog /\ Opens(prog, q) /\ q < pc /\ pc <= End(prog, q)
          /\ o \in DOMAIN prog /\ Opens(prog, o) /\ o < pc /\ pc <= End(prog, o)
      BY <1>5 DEF Inside
    <3>3. pc \in Nat
      BY <1>1
    <3> QED
      BY <1>1, <3>1, <3>2, <3>3, OneConstruct
  <2>2. CASE prog[o].k = "fn"
    BY <1>1, <1>6, <2>1, <2>2 DEF Caller
  <2>3. CASE prog[o].k # "fn"
    BY <1>1, <1>2, <1>6, <2>3 DEF Caller
  <2> QED
    BY <2>2, <2>3
<1>10. is_glob_var_allowed' <=> \A q \in DOMAIN prog : q < pc + 1 => prog[q].k # "fn"
  <2>1. \A q \in DOMAIN prog : q < pc + 1 <=> q < pc \/ q = pc
    BY <1>1
  <2> QED
    BY <1>1, <1>2, <2>1
<1>11. WellScopedAt(prog, pc)
  <2>1. prog[pc].rhs = NoRef
    BY <1>1, ProgramConstants
  <2> QED
    BY <1>1, <2>1 DEF WellScopedAt
<1>12. Checked'
  BY <1>1, <1>4, <1>7, <1>8, <1>9, <1>10, <1>11, CheckedNext
<1>13. Bound'
  BY <1>1 DEF Met, Bound
<1> QED
  BY <1>1, <1>12, <1>13 DEF Judged

\* A crash, too, is at a token that does not obey the scope rules.
LEMMA CrashJudged ==
  ASSUME Met, derefs_null, ~Peculiar(prog)
  PROVE  ~WellScopedAt(prog, pc)
<1>1. prog \in Programs /\ pc \in DOMAIN prog /\ prog[pc] = Node
  BY MetFacts
<1>2. CASE exists(Node.rhs) # "SUCCESS"
  <2>1. Node.rhs # NoRef
    BY <1>2 DEF exists
  <2>2. Node.k # "end"
    BY <1>1, <2>1, ProgramConstants
  <2> QED
    BY <1>1, <1>2, <2>2, ReadJudged DEF WellScopedAt
<1>3. CASE Node.k \in {"set", "step"} /\ semantic_find_symbol(Node.lhs.name) = 0
  <2>1. ~Masked(prog, pc, Node.lhs)
    BY <1>1 DEF Peculiar, MaskedGlobal
  <2>2. Assigned(prog, pc, Node.lhs) = 0
    BY <1>3, <2>1, FoundIsAssigned
  <2> QED
    BY <1>1, <1>3, <2>2 DEF WellScopedAt
<1> QED
  BY <1>2, <1>3 DEF derefs_null

\* So each check of a token decides as the scope rules do.
CheckToken ==
  \/ check_declaration \/ check_assign \/ check_use \/ check_if \/ check_else
  \/ check_while_loop \/ check_for_loop \/ handle_fn \/ declare_param
  \/ check_unconditional_branches \/ ret \/ check_end

LEMMA TokenJudged ==
  ASSUME Met, CheckToken
  PROVE  Judged
<1>1. ASSUME check_use PROVE Judged
  BY <1>1, UseJudged DEF check_use, Check, Step
<1>2. ASSUME check_if PROVE Judged
  BY <1>2, UseJudged DEF check_if, Check, Step
<1>3. ASSUME check_while_loop PROVE Judged
  BY <1>3, UseJudged DEF check_while_loop, Check, Step
<1> QED
  BY <1>1, <1>2, <1>3, DeclarationJudged, AssignJudged, ElseJudged, ForJudged, FnJudged,
     ParamJudged, BranchJudged, RetJudged, EndJudged DEF CheckToken

-----------------------------------------------------------------------------
(* The registration of the globals *)

LEMMA Appended ==
  ASSUME NEW T, NEW s \in Seq(T), NEW t \in T
  PROVE  /\ Len(Append(s, t)) = Len(s) + 1 /\ Append(s, t)[Len(s) + 1] = t
         /\ \A i \in 1 .. Len(s) : Append(s, t)[i] = s[i]
OBVIOUS

LEMMA OneEntry ==
  ASSUME NEW T, NEW s \in Seq(T), Len(s) = 1
  PROVE  /\ 1 \in DOMAIN s /\ s[1] \in T
         /\ \A t \in T : Len(Append(s, t)) = 2 /\ Append(s, t)[1] = s[1] /\ Append(s, t)[2] = t
<1>1. DOMAIN s = 1 .. 1
  OBVIOUS
<1>2. 1 \in DOMAIN s /\ s[1] \in T
  BY <1>1
<1>3. ASSUME NEW t \in T
      PROVE  Len(Append(s, t)) = 2 /\ Append(s, t)[1] = s[1] /\ Append(s, t)[2] = t
  <2>1. /\ Len(Append(s, t)) = Len(s) + 1 /\ Append(s, t)[Len(s) + 1] = t
        /\ \A i \in 1 .. Len(s) : Append(s, t)[i] = s[i]
    BY Appended
  <2>2. Len(s) + 1 = 2 /\ 1 \in 1 .. Len(s)
    OBVIOUS
  <2> DEFINE a == Append(s, t)
  <2> HIDE DEF a
  <2>3. Len(a) = 2
    BY <2>1, <2>2 DEF a
  <2>4. a[2] = t
    BY <2>1, <2>2 DEF a
  <2>5. a[1] = s[1]
    BY <2>1, <2>2 DEF a
  <2> QED
    BY <2>3, <2>4, <2>5 DEF a
<1> QED
  BY <1>2, <1>3

\* It passes over no global declaration.
LEMMA PassesNoGlobal ==
  ASSUME NEW P \in Programs, NEW p \in DOMAIN P, TopLevel(P, p),
         NEW d \in DOMAIN P, IsGlobal(P, d)
  PROVE  d < Behind(P, p) <=> d < p \/ d = p
<1>1. DOMAIN P = 1 .. Len(P) /\ Len(P) \in Nat /\ Closed(P)
  BY ProgramFacts, ProgramClosed
<1>2. CASE Opens(P, p)
  <2>1. /\ End(P, p) \in DOMAIN P /\ p < End(P, p) /\ P[End(P, p)].k = "end"
        /\ \A r \in p + 1 .. End(P, p) - 1 : Level(P, r) > Level(P, p)
    BY <1>1, <1>2, EndCloses
  <2>2. Level(P, d) = 0 /\ Level(P, p) = 0 /\ P[d].k = "var"
    BY DEF IsGlobal, TopLevel
  <2>3. d \notin p + 1 .. End(P, p) - 1
    BY <2>1, <2>2
  <2>4. d # End(P, p)
    BY <2>1, <2>2
  <2>5. Behind(P, p) = End(P, p) + 1
    BY <1>2 DEF Behind
  <2> QED
    BY <1>1, <2>1, <2>3, <2>4, <2>5
<1>3. CASE ~Opens(P, p)
  BY <1>1, <1>3 DEF Behind
<1> QED
  BY <1>2, <1>3

\* A token is met, and there was no error in front of it.
Listed == ScopeInv /\ phase = "register" /\ AtNode /\ errors = {} /\ Registering /\ Bound

LEMMA ListedFacts ==
  ASSUME Listed
  PROVE  /\ prog \in Programs /\ pc \in DOMAIN prog /\ pc \in Nat \ {0} /\ pc \in Positions
         /\ Len(prog) \in Nat /\ prog[pc] = Node /\ TopLevel(prog, pc)
         /\ scopes \in Seq([Names -> Decls]) /\ Len(scopes) = 1
         /\ bind \in [Positions -> Decls]
         /\ Node.rhs # NoRef => Node.rhs.name \in Names /\ Node.rhs.isglobal \in BOOLEAN
<1>1. /\ prog \in Programs /\ pc \in DOMAIN prog /\ pc \in Positions
      /\ scopes \in Seq([Names -> Decls]) /\ Len(scopes) = 1 /\ bind \in [Positions -> Decls]
  BY NodeFacts DEF Listed, ScopeInv, TypeOK, SemanticTypeOK, Shape
<1>2. TopLevel(prog, pc)
  BY DEF Listed, ScopeInv, Shape, TopLevel, Checking
<1> QED
  BY <1>1, <1>2, ProgramFacts DEF Node, Positions

\* What is read by a global's value is found if it is a global in front of it.
LEMMA ListedRead ==
  ASSUME Listed, IsGlobal(prog, pc), Node.rhs # NoRef
  PROVE  /\ exists(Node.rhs) # "crash"
         /\ exists(Node.rhs) = "SUCCESS" <=> Read(prog, pc, Node.rhs) # 0
         /\ exists(Node.rhs) = "SUCCESS" =>
              Node.rhs.isglobal /\ semantic_find_symbol(Node.rhs.name) = Read(prog, pc, Node.rhs)
<1> DEFINE r == Node.rhs
           x == r.name
           d == semantic_find_symbol(x)
           T == {e \in Globals(prog, x) : e < pc}
<1>1. /\ prog \in Programs /\ x \in Names /\ r.isglobal \in BOOLEAN /\ Len(prog) \in Nat
      /\ scopes \in Seq([Names -> Decls]) /\ Len(scopes) = 1 /\ scopes[1][x] = First(T)
  BY ListedFacts DEF Listed, Registering
<1>2. d = First(T)
  <2> DEFINE found == {i \in DOMAIN scopes : scopes[i][x] # 0}
  <2>1. d = IF found = {} THEN 0 ELSE scopes[CHOOSE i \in found : \A j \in found : j <= i][x]
    BY DEF semantic_find_symbol
  <2>2. DOMAIN scopes = {1}
    BY <1>1
  <2>3. CASE scopes[1][x] = 0
    <3>1. found = {}
      BY <2>2, <2>3
    <3> QED
      BY <1>1, <2>1, <2>3, <3>1
  <2>4. CASE scopes[1][x] # 0
    <3>1. found = {1}
      BY <2>2, <2>4
    <3> HIDE DEF found
    <3>2. (CHOOSE i \in found : \A j \in found : j <= i) = 1
      BY <3>1
    <3> QED
      BY <1>1, <2>1, <3>1, <3>2
  <2> QED
    BY <2>3, <2>4
<1>3. T \subseteq 1 .. Len(prog) /\ \A e \in T : IsGlobal(prog, e) /\ prog[e].k = "var"
  BY <1>1, DeclarationFacts
<1>4. ASSUME d # 0 PROVE prog[d].k = "var" /\ node_ptr_isglobal(d) = TRUE
  <2>1. d \in T
    <3> HIDE DEF T, d
    <3> QED
      BY <1>1, <1>2, <1>3, <1>4, FirstOf
  <2>2. IsGlobal(prog, d) /\ prog[d].k = "var"
    BY <1>3, <2>1
  <2> QED
    BY <2>2 DEF node_ptr_isglobal, IsGlobal
<1>5. Read(prog, pc, r) = IF r.isglobal THEN First(T) ELSE 0
  <2>1. T = {e \in Globals(prog, x) : IsGlobal(prog, pc) => e < pc}
    OBVIOUS
  <2> HIDE DEF T
  <2> QED
    BY <2>1 DEF Read
<1>6. exists(r) = "SUCCESS" <=> d # 0 /\ r.isglobal
  BY <1>1, <1>4, ExistsCases
<1>7. exists(r) # "crash"
  BY <1>4, ExistsCases
<1> HIDE DEF d, T, r
<1> QED
  BY <1>1, <1>2, <1>5, <1>6, <1>7 DEF d, r

\* The first global of each name, in front of the next statement.
LEMMA FirstNext ==
  ASSUME NEW P \in Programs, NEW p \in DOMAIN P, TopLevel(P, p), NEW x
  PROVE  LET T == {d \in Globals(P, x) : d < p}
             U == {d \in Globals(P, x) : d < Behind(P, p)} IN
         /\ p \notin Globals(P, x) => First(U) = First(T)
         /\ p \in Globals(P, x) => First(U) = IF First(T) = 0 THEN p ELSE First(T)
<1> DEFINE G == Globals(P, x)
           T == {d \in G : d < p}
           U == {d \in G : d < Behind(P, p)}
<1>1. DOMAIN P = 1 .. Len(P) /\ Len(P) \in Nat /\ p \in Nat
  BY ProgramFacts
<1>2. \A d \in G : d \in DOMAIN P /\ IsGlobal(P, d)
  BY DEF Globals
<1>3. \A d \in G : d < Behind(P, p) <=> d < p \/ d = p
  BY <1>2, PassesNoGlobal
<1> HIDE DEF G
<1>4. G \subseteq 1 .. Len(P) /\ U \subseteq 1 .. Len(P)
  BY <1>1, <1>2
<1>5. ASSUME p \notin G PROVE First(U) = First(T)
  <2>1. U = T
    BY <1>3, <1>5
  <2> QED
    BY <2>1
<1>6. ASSUME p \in G PROVE First(U) = IF First(T) = 0 THEN p ELSE First(T)
  <2>1. U = T \cup {p}
    BY <1>3, <1>6
  <2>2. T = {d \in U : d < p}
    BY <1>1, <2>1
  <2>3. T \subseteq 1 .. Len(P) /\ p \in U
    BY <1>4, <2>1
  <2> HIDE DEF T, U
  <2>4. CASE T = {}
    <3>1. U = {p}
      BY <2>1, <2>4
    <3>2. First(U) = p
      BY <3>1 DEF First
    <3> QED
      BY <2>4, <3>2 DEF First
  <2>5. CASE T # {}
    <3>1. First(T) = First(U)
      BY <1>1, <1>4, <2>2, <2>5, FirstBelow
    <3>2. First(T) # 0
      BY <1>1, <2>3, <2>5, FirstOf
    <3> QED
      BY <3>1, <3>2
  <2> QED
    BY <2>4, <2>5
<1> QED
  BY <1>5, <1>6 DEF G

LEMMA RegisterJudged ==
  ASSUME Listed, register
  PROVE  /\ errors' = {} => Registering' /\ Bound'
         /\ errors' # {} => ~WellScopedAt(prog, pc)
<1>1. /\ prog \in Programs /\ pc \in DOMAIN prog /\ pc \in Nat \ {0} /\ pc \in Positions
      /\ Len(prog) \in Nat /\ prog[pc] = Node /\ TopLevel(prog, pc)
      /\ scopes \in Seq([Names -> Decls]) /\ Len(scopes) = 1 /\ bind \in [Positions -> Decls]
  BY ListedFacts
<1>2. prog' = prog /\ pc' = Behind(prog, pc) /\ errors = {}
  BY DEF register, Listed
<1>3. /\ \A x \in Names : scopes[1][x] = First({d \in Globals(prog, x) : d < pc})
      /\ is_glob_var_allowed /\ ~g_in_fn /\ GlobalsRead(prog, pc) /\ Bound
  BY DEF Listed, Registering
<1>4. CASE ~IsGlobal(prog, pc)
  <2>1. UNCHANGED <<calls, semantic>>
    BY <1>4 DEF register
  <2>2. UNCHANGED <<scopes, g_in_fn, is_glob_var_allowed, errors, bind, target>>
    BY <2>1 DEF semantic
  <2>3. \A x \in Names : pc \notin Globals(prog, x)
    BY <1>4 DEF Globals
  <2>4. \A x \in Names : scopes[1][x] = First({d \in Globals(prog, x) : d < Behind(prog, pc)})
    BY <1>1, <1>3, <2>3, FirstNext
  <2>5. GlobalsRead(prog, Behind(prog, pc))
    BY <1>1, <1>3, <1>4, PassesNoGlobal DEF GlobalsRead
  <2>6. Registering'
    BY <1>2, <1>3, <2>2, <2>4, <2>5 DEF Registering
  <2>7. Bound'
    BY <1>2, <1>3, <2>2 DEF Bound
  <2> QED
    BY <1>2, <2>2, <2>6, <2>7
<1>5. CASE IsGlobal(prog, pc)
  <2> DEFINE x == Node.lhs.name
             typed == exists(Node.rhs) # "NOT_DECLARED"
             taken == scopes[1][x] # 0
             readable == exists(Node.rhs) = "SUCCESS"
  <2>1. Node.k = "var" /\ x \in Names /\ pc \in Globals(prog, x)
    BY <1>1, <1>5, ProgramFacts DEF IsGlobal, Globals, Declares
  <2>2. /\ scopes' = IF typed /\ ~taken THEN With(scopes, 1, x, pc) ELSE scopes
        /\ errors' = ReadErrors /\ Bind
        /\ UNCHANGED <<g_in_fn, is_glob_var_allowed, target>>
    <3>1. declare_variable /\ IsGlobal(prog, pc) = TRUE
      BY <1>5 DEF register, IsGlobal
    <3>2. AtSymErrors(TRUE) = {}
      BY <1>3 DEF AtSymErrors
    <3> QED
      BY <1>2, <3>1, <3>2 DEF declare_variable, With
  <2>3. /\ readable <=> (Node.rhs # NoRef => Read(prog, pc, Node.rhs) # 0)
        /\ exists(Node.rhs) # "crash"
        /\ readable /\ Node.rhs # NoRef =>
             Node.rhs.isglobal /\ semantic_find_symbol(Node.rhs.name) = Read(prog, pc, Node.rhs)
    <3>1. CASE Node.rhs = NoRef
      BY <3>1 DEF exists
    <3>2. CASE Node.rhs # NoRef
      BY <1>5, <3>2, ListedRead
    <3> QED
      BY <3>1, <3>2
  <2>4. ReadErrors = {} <=> readable
    <3>1. Node.rhs # NoRef =>
            exists(Node.rhs) \in {"SUCCESS", "NOT_DECLARED", "crash", "NOT_DEC_AT_GLOB_SCOPE"}
      BY ExistsCases
    <3>2. Node.rhs = NoRef => readable
      BY DEF exists
    <3> QED
      BY <2>3, <3>1, <3>2 DEF ReadErrors
  <2>5. ASSUME readable PROVE Registering' /\ Bound'
    <3>1. scopes' = IF ~taken THEN With(scopes, 1, x, pc) ELSE scopes
      BY <2>2, <2>5
    <3>2. \A y \in Names : scopes'[1][y] = First({d \in Globals(prog, y) : d < Behind(prog, pc)})
      <4> TAKE y \in Names
      <4>1. CASE y # x
        <5>1. pc \notin Globals(prog, y)
          BY <1>1, <4>1 DEF Globals, Declares
        <5>2. scopes'[1][y] = scopes[1][y]
          BY <1>1, <3>1, <4>1 DEF With
        <5> QED
          BY <1>1, <1>3, <5>1, <5>2, FirstNext
      <4>2. CASE y = x
        <5>1. scopes'[1][x] = IF scopes[1][x] = 0 THEN pc ELSE scopes[1][x]
          <6>1. scopes[1] \in [Names -> Decls] /\ 1 \in DOMAIN scopes
            BY <1>1, OneEntry
          <6>2. With(scopes, 1, x, pc)[1][x] = pc
            BY <2>1, <6>1 DEF With
          <6> QED
            BY <3>1, <6>2
        <5> QED
          BY <1>1, <1>3, <2>1, <4>2, <5>1, FirstNext
      <4> QED
        BY <4>1, <4>2
    <3>3. GlobalsRead(prog, Behind(prog, pc))
      <4> SUFFICES ASSUME NEW d \in DOMAIN prog, IsGlobal(prog, d), d < Behind(prog, pc),
                          prog[d].rhs # NoRef
                   PROVE  prog[d].rhs.isglobal /\ Read(prog, d, prog[d].rhs) # 0
        BY DEF GlobalsRead
      <4>1. d < pc \/ d = pc
        BY <1>1, PassesNoGlobal
      <4>2. CASE d < pc
        BY <1>3, <4>2 DEF GlobalsRead
      <4>3. CASE d = pc
        BY <1>1, <2>3, <2>5, <4>3
      <4> QED
        BY <4>1, <4>2, <4>3
    <3>4. Registering'
      BY <1>2, <1>3, <2>2, <3>2, <3>3 DEF Registering
    <3>5. ASSUME NEW p \in DOMAIN prog, bind'[p] # 0, ~Masked(prog, p, prog[p].rhs)
          PROVE  bind'[p] = Read(prog, p, prog[p].rhs)
      <4>1. \/ bind'[p] = bind[p]
            \/ p = pc /\ Node.rhs # NoRef /\ bind'[p] = semantic_find_symbol(Node.rhs.name)
        <5>1. p \in Positions
          BY <1>1, ProgramFacts
        <5> QED
          BY <1>1, <2>2, <5>1 DEF Bind
      <4>2. CASE bind'[p] = bind[p]
        BY <1>3, <3>5, <4>2 DEF Bound
      <4>3. CASE p = pc /\ Node.rhs # NoRef /\ bind'[p] = semantic_find_symbol(Node.rhs.name)
        BY <1>1, <2>3, <2>5, <4>3
      <4> QED
        BY <4>1, <4>2, <4>3
    <3>6. Bound'
      BY <1>2, <1>3, <2>2, <3>5 DEF Bound
    <3> QED
      BY <3>4, <3>6
  <2>6. ASSUME ~readable PROVE ~WellScopedAt(prog, pc)
    BY <1>1, <2>3, <2>6 DEF WellScopedAt
  <2> QED
    BY <2>2, <2>4, <2>5, <2>6
<1> QED
  BY <1>4, <1>5

\* When all are registered, the check begins with them and an empty scope for the file.
LEMMA CheckBegins ==
  ASSUME ScopeInv, phase = "register", Registering, Bound, register_end
  PROVE  Checked' /\ Bound'
<1>1. /\ prog \in Programs /\ Len(prog) \in Nat /\ DOMAIN prog = 1 .. Len(prog)
      /\ scopes \in Seq([Names -> Decls]) /\ Len(scopes) = 1 /\ calls = << >> /\ pc = Len(prog) + 1
  BY ProgramFacts DEF ScopeInv, TypeOK, SemanticTypeOK, Shape, register_end, AtNode
<1>2. /\ prog' = prog /\ pc' = 1 /\ scopes' = Append(scopes, EmptyScope)
      /\ UNCHANGED <<calls, g_in_fn, is_glob_var_allowed, bind, target>>
  BY DEF register_end
<1>3. Len(scopes') = 2 /\ scopes'[1] = scopes[1] /\ scopes'[2] = EmptyScope
  <2>1. EmptyScope \in [Names -> Decls]
    BY EmptyScopes
  <2> QED
    BY <1>1, <1>2, <2>1, OneEntry
<1>4. \A x \in Names : scopes'[1][x] = First(Globals(prog, x))
  <2> TAKE x \in Names
  <2>1. \A d \in Globals(prog, x) : d \in 1 .. Len(prog)
    BY <1>1, DeclarationFacts
  <2>2. {d \in Globals(prog, x) : d < pc} = Globals(prog, x)
    BY <1>1, <2>1
  <2> QED
    BY <1>3, <2>2 DEF Registering
<1>5. TableAt(prog, 1, scopes')
  BY <1>1, <1>3, <1>4, TableStart
<1>6. Around(prog, 1, calls) /\ {calls[k] : k \in DOMAIN calls} = {} /\ Inside(prog, 1) = {}
  BY <1>1, NoneAround, InsideStart
<1>7. GlobalsRead(prog, Len(prog) + 1) /\ is_glob_var_allowed /\ ~g_in_fn
  BY <1>1 DEF Registering
<1>8. \A p \in DOMAIN prog : ~(p < 1)
  BY <1>1
<1>9. Checked'
  BY <1>2, <1>5, <1>6, <1>7, <1>8 DEF Checked
<1>10. Bound'
  BY <1>2 DEF Bound
<1> QED
  BY <1>9, <1>10

-----------------------------------------------------------------------------
(* The rules through both passes *)

LEMMA WellScopedEverywhere ==
  ASSUME NEW P
  PROVE  WellScoped(P) <=> \A p \in DOMAIN P : WellScopedAt(P, p)
BY DEF WellScoped, WellScopedAt

\* Errors are kept.
LEMMA ErrorsStay ==
  ASSUME register \/ CheckToken
  PROVE  prog' = prog /\ phase' = phase /\ errors \subseteq errors'
<1>1. CASE register
  BY <1>1 DEF register, semantic, declare_variable
<1>2. CASE CheckToken
  BY <1>2 DEF CheckToken, Check, Step, semantic, declare_variable, assign,
       check_declaration, check_assign, check_use, check_if, check_else, check_while_loop,
       check_for_loop, handle_fn, declare_param, check_unconditional_branches, ret, check_end
<1> QED
  BY <1>1, <1>2

LEMMA RulesRegister ==
  ASSUME ScopeInv, RulesInv, register
  PROVE  RulesInv'
<1>1. /\ phase = "register" /\ AtNode /\ prog' = prog /\ phase' = "register"
      /\ errors \subseteq errors'
  BY ErrorsStay DEF register
<1>2. prog \in Programs /\ pc \in DOMAIN prog
  BY <1>1, NodeFacts
<1>3. errors = {} => Listed
  BY <1>1 DEF RulesInv, Listed
<1>4. errors' = {} => Registering' /\ Bound'
  BY <1>1, <1>3, RegisterJudged
<1>5. errors' # {} /\ ~Peculiar(prog) => ~WellScoped(prog)
  <2>1. CASE errors = {}
    BY <1>2, <1>3, <2>1, RegisterJudged, WellScopedEverywhere
  <2>2. CASE errors # {}
    BY <1>1, <2>2 DEF RulesInv, Checking
  <2> QED
    BY <2>1, <2>2
<1>6. BindsLexically' /\ AcceptsWellScoped'
  BY <1>1 DEF BindsLexically, AcceptsWellScoped, Accepted, Emitting
<1> QED
  BY <1>1, <1>4, <1>5, <1>6 DEF RulesInv

LEMMA RulesRegisterEnd ==
  ASSUME ScopeInv, RulesInv, register_end
  PROVE  RulesInv'
<1>1. phase = "register" /\ prog' = prog /\ phase' = "check" /\ errors' = errors
  BY DEF register_end
<1>2. errors' = {} => Checked' /\ Bound'
  BY <1>1, CheckBegins DEF RulesInv
<1>3. errors' # {} /\ ~Peculiar(prog) => ~WellScoped(prog)
  BY <1>1 DEF RulesInv, Checking
<1>4. BindsLexically' /\ AcceptsWellScoped'
  BY <1>1 DEF BindsLexically, AcceptsWellScoped, Accepted, Emitting
<1> QED
  BY <1>1, <1>2, <1>3, <1>4 DEF RulesInv

LEMMA RulesCheck ==
  ASSUME ScopeInv, RulesInv, CheckToken
  PROVE  RulesInv'
<1>1. phase = "check" /\ AtNode
  BY DEF CheckToken, Check,
       check_declaration, check_assign, check_use, check_if, check_else, check_while_loop,
       check_for_loop, handle_fn, declare_param, check_unconditional_branches, ret, check_end
<1>2. prog' = prog /\ phase' = "check" /\ errors \subseteq errors'
  BY <1>1, ErrorsStay
<1>3. prog \in Programs /\ pc \in DOMAIN prog
  BY <1>1, NodeFacts
<1>4. errors = {} => Judged
  BY <1>1, TokenJudged DEF RulesInv, Met
<1>5. errors' = {} => Checked' /\ Bound'
  BY <1>2, <1>4 DEF Judged
<1>6. errors' # {} /\ ~Peculiar(prog) => ~WellScoped(prog)
  <2>1. CASE errors = {}
    BY <1>3, <1>4, <2>1, WellScopedEverywhere DEF Judged
  <2>2. CASE errors # {}
    BY <1>1, <2>2 DEF RulesInv, Checking
  <2> QED
    BY <2>1, <2>2
<1>7. BindsLexically' /\ AcceptsWellScoped'
  BY <1>2 DEF BindsLexically, AcceptsWellScoped, Accepted, Emitting
<1> QED
  BY <1>2, <1>5, <1>6, <1>7 DEF RulesInv

\* Every token was checked: without an error, the whole program obeys the rules.
LEMMA RulesCheckEnd ==
  ASSUME ScopeInv, RulesInv, semantic_check_end
  PROVE  RulesInv'
<1>1. /\ phase = "check" /\ ~AtNode /\ prog' = prog
      /\ phase' = IF errors = {} THEN "functions" ELSE "rejected"
      /\ UNCHANGED <<errors, bind, target>>
  BY DEF semantic_check_end
<1>2. /\ prog \in Programs /\ Len(prog) \in Nat /\ DOMAIN prog = 1 .. Len(prog)
      /\ pc = Len(prog) + 1
  BY <1>1, ProgramFacts DEF ScopeInv, TypeOK, SemanticTypeOK, Shape, AtNode
<1>3. CASE errors = {}
  <2>1. Checked /\ Bound
    BY <1>1, <1>3 DEF RulesInv
  <2>2. ~Peculiar(prog) => WellScoped(prog)
    <3>1. \A p \in DOMAIN prog : p < pc
      BY <1>2
    <3> QED
      BY <2>1, <3>1, WellScopedEverywhere DEF Checked
  <2>3. phase' = "functions"
    BY <1>1, <1>3
  <2>4. BindsLexically'
    BY <1>1, <2>1 DEF BindsLexically, Bound
  <2>5. AcceptsWellScoped'
    BY <1>1, <2>2, <2>3 DEF AcceptsWellScoped
  <2> QED
    BY <2>3, <2>4, <2>5 DEF RulesInv, Checking
<1>4. CASE errors # {}
  <2>1. phase' = "rejected"
    BY <1>1, <1>4
  <2>2. ~Peculiar(prog) => ~WellScoped(prog)
    BY <1>1, <1>4 DEF RulesInv, Checking
  <2>3. BindsLexically'
    BY <2>1 DEF BindsLexically, Accepted, Emitting
  <2>4. AcceptsWellScoped'
    BY <1>1, <2>1, <2>2 DEF AcceptsWellScoped, Accepted, Emitting
  <2> QED
    BY <2>1, <2>3, <2>4 DEF RulesInv, Checking
<1> QED
  BY <1>3, <1>4

LEMMA RulesCrash ==
  ASSUME ScopeInv, RulesInv, crash
  PROVE  RulesInv'
<1>1. phase = "check" /\ AtNode /\ derefs_null /\ phase' = "crashed" /\ prog' = prog
  BY DEF crash
<1>2. prog \in Programs /\ pc \in DOMAIN prog
  BY <1>1, NodeFacts
<1>3. ~Peculiar(prog) => ~WellScoped(prog)
  <2>1. CASE errors = {}
    <3>1. Met
      BY <1>1, <2>1 DEF RulesInv, Met
    <3> QED
      BY <1>1, <1>2, <3>1, CrashJudged, WellScopedEverywhere
  <2>2. CASE errors # {}
    BY <1>1, <2>2 DEF RulesInv, Checking
  <2> QED
    BY <2>1, <2>2
<1>4. BindsLexically'
  BY <1>1 DEF BindsLexically, Accepted, Emitting
<1>5. AcceptsWellScoped'
  BY <1>1, <1>3 DEF AcceptsWellScoped, Accepted, Emitting
<1> QED
  BY <1>1, <1>4, <1>5 DEF RulesInv, Checking

\* Codegen changes nothing of it.
LEMMA RulesCodegen ==
  ASSUME ScopeInv, RulesInv, CodegenNext
  PROVE  RulesInv'
<1>1. /\ phase \in Emitting /\ phase' \in Emitting \cup {"done", "aborted"}
      /\ UNCHANGED <<prog, errors, bind, target>>
  BY DEF CodegenNext, Emit, Live, Semantic, semantic, Step, Emitting, skip, emit_functions_end,
       emit_init_end, emit_function, emit_param, emit_declaration, bad_cast, emit_assing,
       emit_while_expr, emit_use, emit_if, emit_else, emit_whileloop, emit_for_loop, emit_jump,
       emit_end
<1>2. BindsLexically'
  BY <1>1 DEF RulesInv, BindsLexically, Accepted
<1>3. AcceptsWellScoped'
  BY <1>1 DEF RulesInv, AcceptsWellScoped, Accepted, Emitting
<1> QED
  BY <1>1, <1>2, <1>3 DEF RulesInv, Checking, Emitting

LEMMA RulesStutter ==
  ASSUME RulesInv, UNCHANGED vars
  PROVE  RulesInv'
<1>1. UNCHANGED <<prog, phase, pc, calls, scopes, g_in_fn, is_glob_var_allowed, errors, bind, target>>
  BY DEF vars, semantic
<1>2. (phase = "register" /\ errors = {} => Registering /\ Bound)'
  BY <1>1 DEF RulesInv, Registering, Bound
<1>3. (phase = "check" /\ errors = {} => Checked /\ Bound)'
  BY <1>1 DEF RulesInv, Checked, Bound
<1>4. (phase \in Checking /\ errors # {} /\ ~Peculiar(prog) => ~WellScoped(prog))'
  BY <1>1 DEF RulesInv
<1>5. BindsLexically' /\ AcceptsWellScoped'
  BY <1>1 DEF RulesInv, BindsLexically, AcceptsWellScoped, Accepted
<1> QED
  BY <1>2, <1>3, <1>4, <1>5 DEF RulesInv

LEMMA RulesInit == Init => RulesInv
<1> SUFFICES ASSUME Init PROVE RulesInv
  OBVIOUS
<1>1. /\ prog \in Programs /\ phase = "register" /\ pc = 1 /\ scopes = <<EmptyScope>>
      /\ g_in_fn = FALSE /\ is_glob_var_allowed = TRUE /\ errors = {}
      /\ bind = [p \in Positions |-> 0] /\ target = [p \in Positions |-> 0]
  BY DEF Init, SemanticInit
<1>2. DOMAIN prog = 1 .. Len(prog) /\ \A p \in DOMAIN prog : p \in Positions
  BY <1>1, ProgramFacts
<1>3. \A x \in Names : scopes[1][x] = First({d \in Globals(prog, x) : d < pc})
  <2> TAKE x \in Names
  <2>1. {d \in Globals(prog, x) : d < pc} = {}
    BY <1>1, <1>2 DEF Globals
  <2>2. scopes[1][x] = 0
    BY <1>1 DEF EmptyScope
  <2> QED
    BY <2>1, <2>2 DEF First
<1>4. GlobalsRead(prog, pc)
  BY <1>1, <1>2 DEF GlobalsRead
<1>5. Registering
  BY <1>1, <1>3, <1>4 DEF Registering
<1>6. Bound
  BY <1>1, <1>2 DEF Bound
<1>7. BindsLexically /\ AcceptsWellScoped
  BY <1>1 DEF BindsLexically, AcceptsWellScoped, Accepted, Emitting
<1> QED
  BY <1>1, <1>5, <1>6, <1>7 DEF RulesInv

-----------------------------------------------------------------------------
(* Binding and judging names: theorems *)

\* As long as the pass has not reported an error, its symbol table is what the scope
\* rules say; it has reported one as soon as a token does not obey them
\* (semantic_check), and codegen (emit_functions, emit_init) changes neither the tree
\* nor what its names are bound to.
THEOREM RulesInvariant == Spec => []RulesInv
<1>1. Init => RulesInv
  BY RulesInit
<1>2. ScopeInv /\ RulesInv /\ [Next]_vars => RulesInv'
  <2> SUFFICES ASSUME ScopeInv, RulesInv, [Next]_vars PROVE RulesInv'
    OBVIOUS
  <2>1. CASE SemanticNext
    <3>1. register \/ register_end \/ CheckToken \/ semantic_check_end \/ crash
      BY <2>1 DEF SemanticNext, CheckToken
    <3> QED
      BY <3>1, RulesRegister, RulesRegisterEnd, RulesCheck, RulesCheckEnd, RulesCrash
  <2>2. CASE CodegenNext
    BY <2>2, RulesCodegen
  <2>3. CASE UNCHANGED vars
    BY <2>3, RulesStutter
  <2> QED
    BY <2>1, <2>2, <2>3 DEF Next
<1> QED
  BY <1>1, <1>2, ScopeInvariant, PTL DEF Spec

\* In an accepted program, a read or an assignment is bound to the declaration the
\* scope rules name, except for @x where a local x is in scope
\* (semantic_find_symbol, semantic_find_global_symbol, exists).
THEOREM BindingIsLexical == Spec => []BindsLexically
<1>1. RulesInv => BindsLexically
  BY DEF RulesInv
<1> QED
  BY <1>1, RulesInvariant, PTL

\* Outside the four kinds of programs Peculiar names, semantic_check accepts a program
\* if, and only if, its names obey the scope rules, whatever its order of errors.
THEOREM AcceptsExactlyWellScoped == Spec => []AcceptsWellScoped
<1>1. RulesInv => AcceptsWellScoped
  BY DEF RulesInv
<1> QED
  BY <1>1, RulesInvariant, PTL

-----------------------------------------------------------------------------
(* The storage of names *)

\* The function whose body is emitted; 0 is the rest of the top level.
Current == IF phase = "functions" /\ calls # << >> THEN calls[1] ELSE 0

\* A variable is an alloca that was made for a declaration of that name in the same
\* function.  st is what the declarations were given.
Origin(P, st, d) ==
  /\ P[d].k \in {"var", "for", "param"}
  /\ IF IsGlobal(P, d) THEN st[d] = Global(P[d].lhs.name)
     ELSE \/ \E a \in DOMAIN P :
               /\ Declares(P, a, P[d].lhs.name) /\ Function(P, a) = Function(P, d)
               /\ st[d] = Alloca(a)
          \/ Doubled(P, d) /\ st[d] = Global(P[d].lhs.name)
Origins(P, st) == \A d \in DOMAIN P : st[d] # Unvisited => Origin(P, st, d)

Akin(P, d, e) == P[d].lhs.name = P[e].lhs.name /\ Function(P, d) = Function(P, e)
Sharing(P, st) ==
  \A d, e \in DOMAIN P :
    /\ IsLocal(P, d) /\ st[d] # Unvisited /\ ~Doubled(P, d)
    /\ IsLocal(P, e) /\ st[e] # Unvisited /\ Akin(P, d, e)
    => st[d] = st[e]

\* The outermost scope of function f knows a name as the storage of the variable of that
\* name.
Root(P, root, st, f) ==
  \A x \in Names :
    /\ root[x] # Null =>
         \E d \in DOMAIN P :
           /\ st[d] # Unvisited /\ Declares(P, d, x) /\ Function(P, d) = f
           /\ root[x] = st[d]
    /\ \A d \in DOMAIN P :
         /\ st[d] # Unvisited /\ Declares(P, d, x) /\ ~IsGlobal(P, d) /\ ~Doubled(P, d)
         /\ Function(P, d) = f
         => root[x] = st[d]

\* Every other scope knows it as the outermost one does, or not at all.
Uniform(env) == \A k \in DOMAIN env : \A x \in Names : env[k][x] \in {Null, env[1][x]}

\* What a name was emitted for, whether its declaration has been emitted or will be.
Reached(P, st, p, ref, d, s) ==
  d # 0 /\ s # Unvisited
    /\ ~Captured(P, p, d) /\ ~Doubled(P, d) /\ ~Masked(P, p, ref)
    /\ (Covered(P, p, d) => ref.isglobal)
    => /\ IsGlobal(P, d) => s = Global(P[d].lhs.name)
       /\ st[d] # Unvisited => s = st[d]

\* No two parameters of a function have one name.
DistinctUpTo(p) ==
  \A q \in DOMAIN prog :
    q < p /\ prog[q].k = "param" => ~Redeclared(prog, q, prog[q].lhs.name)

\* The walk is inside the constructs that calls names.
Walking ==
  /\ Around(prog, pc, calls)
  /\ phase = "functions" /\ calls # << >> => prog[calls[1]].k = "fn"

\* Functions are emitted first, and everything in the order of the text.
Visited(p) == storage[p] # Unvisited \/ load[p] # Unvisited \/ dest[p] # Unvisited
InOrder ==
  \A p \in DOMAIN prog :
    Visited(p) =>
      /\ phase = "functions" => p < pc /\ Function(prog, p) # 0
      /\ phase = "init" /\ Function(prog, p) = 0 => p < pc

Tables ==
  /\ InOrder /\ Uniform(locals)
  /\ locals # << >> => Root(prog, locals[1], storage, Current)

Followed ==
  \A p \in DOMAIN prog :
    /\ load[p] # Unvisited => prog[p].rhs # NoRef
    /\ dest[p] # Unvisited => prog[p].k \in {"set", "step"}
    /\ Reached(prog, storage, p, prog[p].rhs, bind[p], load[p])
    /\ Reached(prog, storage, p, prog[p].lhs, target[p], dest[p])

Histories == Origins(prog, storage) /\ Sharing(prog, storage) /\ Followed

StorageInv ==
  /\ phase \in Checking => \A p \in DOMAIN prog : ~Visited(p)
  /\ phase = "check" /\ errors = {} => DistinctUpTo(pc)
  /\ phase \in Emitting => DistinctUpTo(Len(prog) + 1) /\ Walking /\ Tables
  /\ phase \in Emitting \cup {"done"} => Histories


-----------------------------------------------------------------------------
(* The function around a token *)

\* Functions are at the top level, so that there is one at most.
LEMMA FunctionIs ==
  ASSUME NEW P \in Programs, NEW p \in DOMAIN P, NEW f \in DOMAIN P, P[f].k = "fn", Within(P, p, f)
  PROVE  Function(P, p) = f
<1> DEFINE around == {o \in DOMAIN P : P[o].k = "fn" /\ Within(P, p, o)}
<1>1. Function(P, p) = IF around = {} THEN 0 ELSE CHOOSE o \in around : TRUE
  BY DEF Function
<1>2. Closed(P) /\ p \in Nat /\ \A o \in DOMAIN P : o \in Nat
  BY ProgramClosed, ProgramFacts
<1>3. ASSUME NEW o \in around PROVE o = f
  <2>1. Level(P, o) = 0 /\ Level(P, f) = 0
    BY <1>3, ProgramConstants DEF TopLevel
  <2>2. Opens(P, o) /\ Opens(P, f) /\ End(P, o) \in DOMAIN P /\ End(P, f) \in DOMAIN P
    BY <1>2, <1>3, EndCloses DEF Within
  <2>3. o < p /\ p <= End(P, o) /\ f < p /\ p <= End(P, f)
    BY <1>2, <1>3, <2>2 DEF Within
  <2> QED
    BY <1>2, <1>3, <2>1, <2>2, <2>3, OneConstruct
<1>4. f \in around
  OBVIOUS
<1> HIDE DEF around
<1> QED
  BY <1>1, <1>3, <1>4

LEMMA FunctionOf ==
  ASSUME NEW P \in Programs, NEW p \in DOMAIN P, Function(P, p) # 0
  PROVE  /\ Function(P, p) \in DOMAIN P /\ P[Function(P, p)].k = "fn"
         /\ Within(P, p, Function(P, p)) /\ Function(P, p) < p
<1>1. PICK o \in DOMAIN P : P[o].k = "fn" /\ Within(P, p, o)
  BY FunctionFacts
<1>2. Function(P, p) = o
  BY <1>1, FunctionIs
<1> QED
  BY <1>1, <1>2 DEF Within

LEMMA GlobalOutside ==
  ASSUME NEW P \in Programs, NEW p \in DOMAIN P, IsGlobal(P, p)
  PROVE  Function(P, p) = 0
<1>1. SUFFICES ASSUME NEW o \in DOMAIN P, P[o].k = "fn", Within(P, p, o) PROVE FALSE
  BY FunctionFacts
<1>2. Level(P, p) = 0 /\ Level(P, o) = 0 /\ Opens(P, o) /\ o < p /\ p < End(P, o)
  BY <1>1, ProgramConstants DEF IsGlobal, TopLevel, Within
<1>3. Closed(P) /\ p \in Nat /\ o \in Nat /\ p \in Nat \ {0} /\ o \in Nat \ {0}
  BY ProgramClosed, ProgramFacts
<1>4. /\ \A r \in o + 1 .. End(P, o) - 1 : Level(P, r) > Level(P, o)
      /\ End(P, o) \in Nat
  BY <1>2, <1>3, EndCloses, ProgramFacts
<1>5. p \in o + 1 .. End(P, o) - 1
  BY <1>2, <1>3, <1>4
<1>6. Level(P, p) > Level(P, o)
  BY <1>4, <1>5
<1> QED
  BY <1>2, <1>6

\* The function codegen is in is the one around the token.
LEMMA CurrentFunction ==
  ASSUME ScopeInv, Walking, phase \in Emitting, AtNode, ~Elsewhere, Node.k \notin {"fn", "end"}
  PROVE  Function(prog, pc) = Current /\ (phase = "functions" <=> Current # 0)
<1>1. /\ prog \in Programs /\ pc \in DOMAIN prog /\ prog[pc] = Node /\ Closed(prog)
      /\ DOMAIN prog = 1 .. Len(prog) /\ Len(prog) \in Nat /\ pc \in Nat
  BY NodeFacts, ProgramClosed, ProgramFacts DEF Node
<1>2. /\ calls \in Seq(DOMAIN prog) /\ Len(calls) = Level(prog, pc)
      /\ \A k \in DOMAIN calls :
           Opens(prog, calls[k]) /\ calls[k] < pc /\ pc <= End(prog, calls[k]) /\ Level(prog, calls[k]) = k - 1
  BY DEF Walking, Around
<1>3. CASE phase = "functions"
  <2>1. calls # << >>
    BY <1>3 DEF Elsewhere
  <2>2. 1 \in DOMAIN calls /\ calls[1] \in DOMAIN prog
    BY <2>1, <1>2
  <2>3. prog[calls[1]].k = "fn" /\ calls[1] \in Inside(prog, pc)
    BY <2>1, <2>2, <1>2, <1>3 DEF Walking, Inside
  <2>4. Within(prog, pc, calls[1])
    BY <2>2, <2>3, <1>1, WithinInside
  <2>5. Function(prog, pc) = calls[1]
    BY <2>2, <2>3, <2>4, <1>1, FunctionIs
  <2>6. Current = calls[1] /\ Current # 0
    BY <2>1, <2>2, <1>1, <1>3 DEF Current
  <2> QED
    BY <2>5, <2>6, <1>3
<1>4. CASE phase # "functions"
  <2>1. phase = "init" /\ Current = 0
    BY <1>4 DEF Emitting, Current
  <2>2. SUFFICES ASSUME NEW o \in DOMAIN prog, prog[o].k = "fn", Within(prog, pc, o) PROVE FALSE
    BY <2>1, <1>1, FunctionFacts
  <2>3. /\ Level(prog, o) = 0 /\ Opens(prog, o) /\ o < pc /\ pc < End(prog, o)
        /\ o \in Nat /\ End(prog, o) \in Nat
        /\ \A r \in o + 1 .. End(prog, o) - 1 : Level(prog, r) > Level(prog, o)
    BY <2>2, <1>1, ProgramConstants, EndCloses DEF Within, TopLevel
  <2>4. Level(prog, pc) > 0
    <3>1. pc \in o + 1 .. End(prog, o) - 1
      BY <2>3, <1>1
    <3> QED
      BY <2>3, <3>1
  <2>5. 1 \in DOMAIN calls /\ calls[1] \in DOMAIN prog
    BY <2>4, <1>2
  <2>6. /\ Opens(prog, calls[1]) /\ calls[1] < pc /\ pc <= End(prog, calls[1])
        /\ Level(prog, calls[1]) = Level(prog, o)
    BY <2>3, <2>5, <1>2
  <2>7. o = calls[1]
    <3>1. pc <= End(prog, o)
      BY <2>3, <1>1
    <3> QED
      BY <2>3, <2>5, <2>6, <3>1, <1>1, OneConstruct
  <2>8. prog[calls[1]].k # "fn"
    BY <2>1, <2>5 DEF ScopeInv, Shape, Emitting
  <2> QED
    BY <2>2, <2>7, <2>8
<1> QED
  BY <1>3, <1>4

-----------------------------------------------------------------------------
(* The tables of codegen *)

\* A name is looked up as in the outermost scope.
LEMMA UniformLookup ==
  ASSUME NEW env \in Stacks(Storages), env # << >>, Uniform(env), NEW x \in Names
  PROVE  lookup(env, x) = env[1][x]
<1>1. Len(env) \in Nat /\ DOMAIN env = 1 .. Len(env) /\ 1 \in DOMAIN env
  BY DEF Stacks
<1>2. \A k \in DOMAIN env : env[k][x] # Null => env[k][x] = env[1][x]
  BY DEF Uniform
<1>3. CASE Found(env, x, Null) = {}
  <2>1. lookup(env, x) = Null /\ ~(env[1][x] # Null)
    BY <1>1, <1>3 DEF lookup, Found
  <2> QED
    BY <2>1
<1>4. CASE Found(env, x, Null) # {}
  <2> DEFINE found == Found(env, x, Null)
             i == CHOOSE k \in found : \A j \in found : j <= k
  <2>1. found \subseteq 1 .. Len(env)
    BY <1>1 DEF Found
  <2>2. \E k \in found : \A j \in found : j <= k
    BY <2>1, <1>1, <1>4, MaxExists
  <2>3. i \in found
    BY <2>2
  <2>4. lookup(env, x) = env[i][x]
    BY <1>4 DEF lookup, Found
  <2>5. i \in DOMAIN env /\ env[i][x] # Null
    BY <2>3 DEF Found
  <2> QED
    BY <2>4, <2>5, <1>2
<1> QED
  BY <1>3, <1>4

LEMMA EnterEntries ==
  ASSUME NEW env \in Stacks(Storages), NEW k \in DOMAIN env, NEW x \in Names, NEW s
  PROVE  /\ DOMAIN Enter(env, k, x, s) = DOMAIN env
         /\ \A j \in DOMAIN env, y \in Names :
              Enter(env, k, x, s)[j][y] = IF j = k /\ y = x THEN s ELSE env[j][y]
<1>1. \A j \in DOMAIN env : DOMAIN env[j] = Names
  BY DEF Stacks
<1> QED
  BY <1>1 DEF Enter

LEMMA UniformPushed ==
  ASSUME NEW env \in Stacks(Storages), env # << >>, Uniform(env)
  PROVE  LET d == Append(env, NoLocals) IN
         d # << >> /\ d[1] = env[1] /\ Uniform(d)
<1> DEFINE d == Append(env, NoLocals)
<1>1. /\ env \in Seq([Names -> Storages]) /\ NoLocals \in [Names -> Storages]
      /\ Len(env) \in Nat \ {0} /\ DOMAIN env = 1 .. Len(env)
  BY StorageTypes DEF Stacks
<1>2. /\ Len(d) = Len(env) + 1 /\ d[Len(env) + 1] = NoLocals
      /\ \A i \in 1 .. Len(env) : d[i] = env[i]
  BY <1>1, Appended
<1>3. DOMAIN d = 1 .. Len(env) + 1 /\ d # << >>
  BY <1>1
<1> HIDE DEF d
<1>4. d[1] = env[1]
  BY <1>1, <1>2
<1>5. ASSUME NEW k \in DOMAIN d, NEW x \in Names PROVE d[k][x] \in {Null, d[1][x]}
  <2>1. CASE k = Len(env) + 1
    BY <2>1, <1>2 DEF NoLocals
  <2>2. CASE k # Len(env) + 1
    <3>1. k \in DOMAIN env /\ d[k] = env[k]
      BY <2>2, <1>1, <1>2, <1>3
    <3> QED
      BY <3>1, <1>4 DEF Uniform
  <2> QED
    BY <2>1, <2>2
<1> QED
  BY <1>3, <1>4, <1>5 DEF Uniform, d

LEMMA UniformPopped ==
  ASSUME NEW env \in Stacks(Storages), Len(env) > 1, Uniform(env)
  PROVE  LET d == SubSeq(env, 1, Len(env) - 1) IN
         d # << >> /\ d[1] = env[1] /\ Uniform(d)
<1> DEFINE d == SubSeq(env, 1, Len(env) - 1)
<1>1. env \in Seq([Names -> Storages]) /\ env # << >> /\ Len(env) \in Nat
  BY DEF Stacks
<1>2. /\ d \in Seq([Names -> Storages]) /\ Len(d) = Len(env) - 1
      /\ \A i \in 1 .. Len(env) - 1 : d[i] = env[i]
  BY <1>1, AllButLast
<1> HIDE DEF d
<1>3. DOMAIN d = 1 .. Len(env) - 1 /\ DOMAIN env = 1 .. Len(env) /\ d # << >>
  BY <1>1, <1>2
<1>4. d[1] = env[1]
  BY <1>1, <1>2
<1>5. \A k \in DOMAIN d : k \in DOMAIN env /\ d[k] = env[k]
  BY <1>1, <1>2, <1>3
<1>6. Uniform(d)
  BY <1>4, <1>5 DEF Uniform
<1> QED
  BY <1>3, <1>4, <1>6 DEF d

\* What a name is emitted for in a function whose outermost scope is root.
Resolved(P, root, ref) ==
  IF ~ref.isglobal /\ root[ref.name] # Null THEN root[ref.name]
  ELSE IF Globals(P, ref.name) = {} THEN Null ELSE Global(ref.name)

LEMMA VariableResolved ==
  ASSUME NEW env \in Stacks(Storages), env # << >>, Uniform(env), NEW ref, ref.name \in Names
  PROVE  variable(env, ref) = Resolved(prog, env[1], ref)
<1>1. lookup(env, ref.name) = env[1][ref.name]
  BY UniformLookup
<1> QED
  BY <1>1 DEF variable, getGlobalVariable, Resolved

-----------------------------------------------------------------------------
(* A declaration *)

\* A declaration is given what the outermost scope has for its name, and shares it with
\* the others of that name in its function.
LEMMA DeclarationShares ==
  ASSUME NEW P \in Programs, NEW p \in DOMAIN P, P[p].k \in {"var", "for", "param"},
         NEW root \in [Names -> Storages],
         NEW st \in [Positions -> Storages \cup {Unvisited}], st[p] = Unvisited,
         Origins(P, st), Sharing(P, st), Root(P, root, st, Function(P, p)),
         NEW s, s = IF IsGlobal(P, p) THEN Global(P[p].lhs.name)
                    ELSE IF root[P[p].lhs.name] # Null THEN root[P[p].lhs.name] ELSE Alloca(p)
  PROVE  LET nst == [st EXCEPT ![p] = s]
             nroot == [root EXCEPT ![P[p].lhs.name] = s] IN
         Origins(P, nst) /\ Sharing(P, nst) /\ Root(P, nroot, nst, Function(P, p))
<1> DEFINE x == P[p].lhs.name
           f == Function(P, p)
           nst == [st EXCEPT ![p] = s]
           nroot == [root EXCEPT ![x] = s]
<1>1. x \in Names /\ p \in Positions /\ DOMAIN P \subseteq Positions
  BY ProgramFacts
<1>2. /\ nst[p] = s /\ \A d \in DOMAIN P : d # p => nst[d] = st[d]
      /\ nroot[x] = s /\ \A y \in Names : y # x => nroot[y] = root[y]
  BY <1>1
<1>3. Declares(P, p, x) /\ Null # Unvisited /\ \A d : Alloca(d) # Null /\ Alloca(d) # Unvisited
  BY DEF Declares, Null, Unvisited, Alloca
<1> HIDE DEF nst, nroot
<1>4. IsGlobal(P, p) => f = 0 /\ p \in Globals(P, x)
  BY <1>3, GlobalOutside DEF Globals
<1>5. ASSUME ~IsGlobal(P, p), root[x] # Null
      PROVE  \/ \E a \in DOMAIN P : Declares(P, a, x) /\ Function(P, a) = f /\ root[x] = Alloca(a)
             \/ Doubled(P, p) /\ root[x] = Global(x)
  <2>1. PICK d \in DOMAIN P :
          st[d] # Unvisited /\ Declares(P, d, x) /\ Function(P, d) = f /\ root[x] = st[d]
    BY <1>1, <1>5 DEF Root
  <2>2. Origin(P, st, d) /\ P[d].lhs.name = x
    BY <2>1 DEF Origins, Declares
  <2>3. CASE IsGlobal(P, d)
    <3>1. f = 0 /\ d \in Globals(P, x) /\ st[d] = Global(x)
      BY <2>1, <2>2, <2>3, GlobalOutside DEF Globals, Origin
    <3> QED
      BY <3>1, <2>1, <1>5 DEF Doubled
  <2>4. CASE ~IsGlobal(P, d) /\ Doubled(P, d) /\ st[d] = Global(x)
    BY <2>1, <2>2, <2>4, <1>5 DEF Doubled
  <2>5. CASE ~IsGlobal(P, d) /\ ~(Doubled(P, d) /\ st[d] = Global(x))
    BY <2>1, <2>2, <2>5 DEF Origin
  <2> QED
    BY <2>3, <2>4, <2>5
<1>6. Origin(P, nst, p)
  <2>1. CASE IsGlobal(P, p)
    BY <2>1, <1>2 DEF Origin
  <2>2. CASE ~IsGlobal(P, p) /\ root[x] # Null
    BY <2>2, <1>2, <1>5 DEF Origin
  <2>3. CASE ~IsGlobal(P, p) /\ root[x] = Null
    BY <2>3, <1>2, <1>3 DEF Origin
  <2> QED
    BY <2>1, <2>2, <2>3
<1>7. Origins(P, nst)
  <2> SUFFICES ASSUME NEW d \in DOMAIN P, nst[d] # Unvisited, d # p PROVE Origin(P, nst, d)
    BY <1>6 DEF Origins
  <2> QED
    BY <1>2 DEF Origins, Origin
\* What was given to a variable of that name before.
<1>8. ASSUME NEW d \in DOMAIN P, d # p, nst[d] # Unvisited, Declares(P, d, x), ~IsGlobal(P, d),
             ~Doubled(P, d), Function(P, d) = f
      PROVE  nst[d] = s
  <2>1. st[d] = root[x] /\ Origin(P, st, d) /\ nst[d] = st[d]
    BY <1>1, <1>2, <1>8 DEF Root, Origins
  <2>2. PICK a \in DOMAIN P : st[d] = Alloca(a)
    BY <2>1, <1>8 DEF Origin
  <2>3. P[d].lhs.name = x
    BY <1>8 DEF Declares
  <2>4. ~IsGlobal(P, p)
    BY <1>4, <1>8, <2>3 DEF Doubled
  <2> QED
    BY <2>1, <2>2, <2>4, <1>3
<1>9. Sharing(P, nst)
  <2> SUFFICES ASSUME NEW d \in DOMAIN P, NEW e \in DOMAIN P,
                      IsLocal(P, d), nst[d] # Unvisited, ~Doubled(P, d),
                      IsLocal(P, e), nst[e] # Unvisited, Akin(P, d, e)
               PROVE  nst[d] = nst[e]
    BY DEF Sharing
  <2>1. /\ ~Doubled(P, e) /\ ~IsGlobal(P, d) /\ ~IsGlobal(P, e)
        /\ Declares(P, d, P[d].lhs.name) /\ Declares(P, e, P[d].lhs.name)
    BY DEF Akin, Doubled, IsLocal, Declares
  <2>2. CASE d = p
    BY <2>1, <2>2, <1>2, <1>8 DEF Akin
  <2>3. CASE e = p
    BY <2>1, <2>3, <1>2, <1>8 DEF Akin
  <2>4. CASE d # p /\ e # p
    BY <2>4, <1>2 DEF Sharing
  <2> QED
    BY <2>2, <2>3, <2>4
<1>10. Root(P, nroot, nst, f)
  <2> SUFFICES ASSUME NEW y \in Names
               PROVE  /\ nroot[y] # Null =>
                           \E d \in DOMAIN P :
                             /\ nst[d] # Unvisited /\ Declares(P, d, y) /\ Function(P, d) = f
                             /\ nroot[y] = nst[d]
                      /\ \A d \in DOMAIN P :
                           /\ nst[d] # Unvisited /\ Declares(P, d, y) /\ ~IsGlobal(P, d)
                           /\ ~Doubled(P, d) /\ Function(P, d) = f
                           => nroot[y] = nst[d]
    BY DEF Root
  <2>1. CASE y = x
    <3>1. s # Unvisited
      BY <1>1, <1>3 DEF Global, Unvisited, Storages, Positions
    <3> QED
      BY <2>1, <3>1, <1>2, <1>3, <1>8
  <2>2. CASE y # x
    <3>1. \A d \in DOMAIN P : Declares(P, d, y) => d # p
      BY <2>2 DEF Declares
    <3>2. nroot[y] = root[y]
      BY <2>2, <1>2
    <3>3. \A d \in DOMAIN P : st[d] # Unvisited => d # p /\ nst[d] = st[d]
      BY <1>2
    <3> QED
      BY <3>1, <3>2, <3>3, <1>2 DEF Root
  <2> QED
    BY <2>1, <2>2
<1> QED
  BY <1>7, <1>9, <1>10 DEF nst, nroot

-----------------------------------------------------------------------------
(* A use of a name *)

\* What a name in p can be bound to.
Means(P, p, ref, d) ==
  /\ d \in DOMAIN P
  /\ d \in Globals(P, ref.name) \/ (~ref.isglobal /\ d \in Locals(P, p, ref.name))

LEMMA ReadMeans ==
  ASSUME NEW P \in Programs, NEW p \in DOMAIN P, NEW ref, Read(P, p, ref) # 0
  PROVE  /\ Means(P, p, ref, Read(P, p, ref))
         /\ Read(P, p, ref) \in Globals(P, ref.name) => ref.isglobal
<1> DEFINE G == {d \in Globals(P, ref.name) : IsGlobal(P, p) => d < p}
           L == Locals(P, p, ref.name)
<1>1. /\ Len(P) \in Nat /\ DOMAIN P = 1 .. Len(P)
      /\ G \subseteq 1 .. Len(P) /\ L \subseteq 1 .. Len(P) /\ G \subseteq Globals(P, ref.name)
      /\ \A d \in L : d \notin Globals(P, ref.name)
  BY ProgramFacts, DeclarationFacts
<1>2. Read(P, p, ref) = IF ref.isglobal THEN First(G) ELSE IF IsGlobal(P, p) THEN 0 ELSE Last(L)
  BY DEF Read
<1> HIDE DEF G, L
<1>3. CASE ref.isglobal
  <2>1. First(G) \in G
    BY <1>1, <1>2, <1>3, FirstOf
  <2> QED
    BY <2>1, <1>1, <1>2, <1>3 DEF Means
<1>4. CASE ~ref.isglobal
  <2>1. Last(L) \in L
    BY <1>1, <1>2, <1>4, LastOf
  <2> QED
    BY <2>1, <1>1, <1>2, <1>4 DEF Means, L
<1> QED
  BY <1>3, <1>4

LEMMA AssignedMeans ==
  ASSUME NEW P \in Programs, NEW p \in DOMAIN P, NEW ref, Assigned(P, p, ref) # 0
  PROVE  Means(P, p, ref, Assigned(P, p, ref))
<1> DEFINE G == Globals(P, ref.name)
           L == Locals(P, p, ref.name)
<1>1. Len(P) \in Nat /\ DOMAIN P = 1 .. Len(P) /\ G \subseteq 1 .. Len(P) /\ L \subseteq 1 .. Len(P)
  BY ProgramFacts, DeclarationFacts
<1>2. Assigned(P, p, ref) = IF ~ref.isglobal /\ L # {} THEN Last(L) ELSE First(G)
  BY DEF Assigned
<1> HIDE DEF G, L
<1>3. CASE ~ref.isglobal /\ L # {}
  <2>1. Last(L) \in L
    BY <1>1, <1>3, LastOf
  <2> QED
    BY <2>1, <1>1, <1>2, <1>3 DEF Means, L
<1>4. CASE ~(~ref.isglobal /\ L # {})
  <2>1. First(G) \in G
    BY <1>1, <1>2, <1>4, FirstOf
  <2> QED
    BY <2>1, <1>1, <1>2, <1>4 DEF Means, G
<1> QED
  BY <1>3, <1>4

\* The storage a name is emitted for is that of its declaration.
LEMMA NameReaches ==
  ASSUME NEW P \in Programs, NEW p \in DOMAIN P, NEW ref, ref.name \in Names,
         NEW d, d # 0 /\ ~Masked(P, p, ref) /\ ref # NoRef => Means(P, p, ref, d), ref # NoRef,
         NEW root, NEW st, Origins(P, st), Root(P, root, st, Function(P, p)),
         d \in Globals(P, ref.name) /\ ~ref.isglobal =>
           \A e \in DOMAIN P : st[e] # Unvisited /\ Function(P, e) = Function(P, p) => e < p
  PROVE  Reached(P, st, p, ref, d, Resolved(P, root, ref))
<1> DEFINE x == ref.name
           s == Resolved(P, root, ref)
<1> SUFFICES ASSUME d # 0, ~Captured(P, p, d), ~Doubled(P, d), ~Masked(P, p, ref),
                    Covered(P, p, d) => ref.isglobal
             PROVE  /\ IsGlobal(P, d) => s = Global(P[d].lhs.name)
                    /\ st[d] # Unvisited => s = st[d]
  BY DEF Reached
<1>1. /\ d \in DOMAIN P
      /\ d \in Globals(P, x) \/ (~ref.isglobal /\ d \in Locals(P, p, x))
  BY DEF Means
<1>2. P[d].lhs.name = x /\ Declares(P, d, x)
  BY <1>1 DEF Globals, Locals, Declares
<1>3. CASE d \in Globals(P, x)
  <2>1. IsGlobal(P, d) /\ Globals(P, x) # {}
    BY <1>3 DEF Globals
  <2>2. st[d] # Unvisited => st[d] = Global(x)
    BY <1>1, <1>2, <2>1 DEF Origins, Origin
  <2>3. s = Global(x)
    <3>1. CASE ref.isglobal \/ root[x] = Null
      BY <3>1, <2>1 DEF Resolved
    <3>2. CASE ~ref.isglobal /\ root[x] # Null
      <4>1. PICK e \in DOMAIN P :
              /\ st[e] # Unvisited /\ Declares(P, e, x) /\ Function(P, e) = Function(P, p)
              /\ root[x] = st[e]
        BY <3>2 DEF Root
      <4>2. e < p
        BY <4>1, <3>2, <1>3
      <4>3. IsGlobal(P, e)
        BY <4>1, <4>2, <3>2, <2>1, <1>2 DEF Covered
      <4>4. st[e] = Global(x)
        BY <4>1, <4>3 DEF Origins, Origin, Declares
      <4> QED
        BY <4>1, <4>4, <3>2 DEF Resolved
    <3> QED
      BY <3>1, <3>2
  <2> QED
    BY <2>2, <2>3, <1>2
<1>4. CASE d \notin Globals(P, x)
  <2>1. ~IsGlobal(P, d) /\ ~ref.isglobal /\ Function(P, d) = Function(P, p)
    BY <1>1, <1>4 DEF Locals, Captured
  <2>2. SUFFICES ASSUME st[d] # Unvisited PROVE s = st[d]
    BY <2>1
  <2>3. root[x] = st[d]
    BY <2>1, <2>2, <1>1, <1>2 DEF Root
  <2>4. st[d] # Null
    <3>1. PICK a : st[d] = Alloca(a)
      BY <2>1, <2>2, <1>1 DEF Origins, Origin
    <3> QED
      BY <3>1 DEF Alloca, Null
  <2> QED
    BY <2>1, <2>3, <2>4 DEF Resolved
<1> QED
  BY <1>3, <1>4

-----------------------------------------------------------------------------
(* Parameters *)

\* Between a function and a parameter there are only parameters.
LEMMA ParamsFirst ==
  ASSUME NEW P \in Programs, NEW p \in DOMAIN P, P[p].k = "param"
  PROVE  /\ Function(P, p) # 0
         /\ \A q \in Function(P, p) + 1 .. p : P[q].k = "param"
<1> DEFINE others == {q \in 1 .. p : P[q].k # "param"}
<1>1. /\ Len(P) \in Nat /\ DOMAIN P = 1 .. Len(P) /\ p \in Nat \ {0} /\ Closed(P)
      /\ \A q \in DOMAIN P : P[q].k = "param" => q > 1 /\ P[q - 1].k \in {"fn", "param"}
  BY ProgramFacts, ProgramClosed, ProgramConstants
<1>2. 1 \in others
  <2>1. 1 \in DOMAIN P /\ 1 \in 1 .. p
    BY <1>1
  <2>2. P[1].k = "param" => 1 > 1
    BY <2>1, <1>1
  <2>3. P[1].k # "param"
    BY <2>2
  <2> QED
    BY <2>1, <2>3
<1>3. others \subseteq 1 .. p
  OBVIOUS
<1> HIDE DEF others
<1>4. PICK f \in others : \A q \in others : q <= f
  BY <1>1, <1>2, <1>3, MaxExists
<1>5. f \in DOMAIN P /\ f \in Nat /\ f < p /\ \A q \in f + 1 .. p : P[q].k = "param"
  BY <1>1, <1>4 DEF others
<1>6. P[f].k = "fn"
  <2>1. P[f + 1].k = "param" /\ f + 1 \in DOMAIN P
    BY <1>1, <1>5
  <2>2. P[(f + 1) - 1].k \in {"fn", "param"} /\ (f + 1) - 1 = f
    BY <2>1, <1>1, <1>5
  <2> QED
    BY <2>2, <1>4 DEF others
<1>7. Within(P, p, f)
  <2>1. Opens(P, f)
    BY <1>6 DEF Opens, Openers
  <2>2. End(P, f) \in DOMAIN P /\ f < End(P, f) /\ P[End(P, f)].k = "end"
    BY <2>1, <1>1, <1>5, EndCloses
  <2>3. End(P, f) \notin f + 1 .. p
    BY <2>2, <1>5
  <2> QED
    BY <2>1, <2>2, <2>3, <1>1, <1>5 DEF Within
<1>8. Function(P, p) = f /\ f # 0
  BY <1>1, <1>5, <1>6, <1>7, FunctionIs
<1> QED
  BY <1>5, <1>8

\* A parameter belongs to the function.
LEMMA ParamsScope ==
  ASSUME NEW P \in Programs, NEW p \in DOMAIN P, P[p].k = "param"
  PROVE  ScopeOf(P, p) = Function(P, p) /\ Within(P, p, Function(P, p))
<1> DEFINE f == Function(P, p)
           A == {o \in Inside(P, p) : P[o].k \in {"fn", "for"}}
<1>1. /\ f \in DOMAIN P /\ P[f].k = "fn" /\ Within(P, p, f) /\ f < p
      /\ \A q \in f + 1 .. p : P[q].k = "param"
  BY ParamsFirst, FunctionOf
<1> HIDE DEF f
<1>2. f \in A
  BY <1>1, WithinInside
<1>3. A # {} => ScopeOf(P, p) \in A /\ \A o \in A : o <= ScopeOf(P, p)
  BY ScopeOfFacts
<1>4. \A o \in A : o \in DOMAIN P /\ o < p /\ P[o].k # "param"
  BY DEF Inside
<1> HIDE DEF A
<1>5. ScopeOf(P, p) \in DOMAIN P /\ ScopeOf(P, p) < p /\ f <= ScopeOf(P, p)
      /\ P[ScopeOf(P, p)].k # "param"
  BY <1>2, <1>3, <1>4
<1>6. f \in Nat /\ p \in Nat /\ ScopeOf(P, p) \in Nat
  BY <1>1, <1>5, ProgramFacts
<1>7. ScopeOf(P, p) = f
  <2>1. ScopeOf(P, p) \notin f + 1 .. p
    BY <1>1, <1>5
  <2> QED
    BY <2>1, <1>5, <1>6
<1> QED
  BY <1>1, <1>7 DEF f

\* In front of a parameter its function declares nothing of its name.
LEMMA ParamAlone ==
  ASSUME NEW P \in Programs, NEW p \in DOMAIN P, P[p].k = "param",
         ~Redeclared(P, p, P[p].lhs.name),
         NEW e \in DOMAIN P, e < p, Function(P, e) = Function(P, p)
  PROVE  ~Declares(P, e, P[p].lhs.name)
<1> DEFINE f == Function(P, p)
<1> SUFFICES ASSUME Declares(P, e, P[p].lhs.name) PROVE FALSE
  OBVIOUS
<1>1. f # 0 /\ \A q \in f + 1 .. p : P[q].k = "param"
  BY ParamsFirst
<1>2. f \in DOMAIN P /\ f < e /\ Within(P, p, f) /\ f \in Nat /\ e \in Nat /\ p \in Nat
  BY <1>1, FunctionOf, ProgramFacts
<1>3. P[e].k = "param"
  BY <1>1, <1>2
<1>4. ScopeOf(P, p) = f /\ ScopeOf(P, e) = f
  BY <1>3, ParamsScope
<1>5. e \in Locals(P, p, P[p].lhs.name)
  BY <1>2, <1>3, <1>4 DEF Locals, InScope, IsGlobal
<1> QED
  BY <1>4, <1>5 DEF Redeclared

\* No other construct is around a parameter.
LEMMA ParamsCalls ==
  ASSUME NEW P \in Programs, NEW p \in DOMAIN P, P[p].k = "param", NEW c, Around(P, p, c)
  PROVE  Len(c) = 1
<1> DEFINE f == Function(P, p)
<1>1. /\ f \in DOMAIN P /\ P[f].k = "fn" /\ Within(P, p, f) /\ f < p
      /\ \A q \in f + 1 .. p : P[q].k = "param"
  BY ParamsFirst, FunctionOf
<1> HIDE DEF f
<1>2. /\ Level(P, f) = 0 /\ p \in Nat /\ Closed(P) /\ Opens(P, f) /\ p <= End(P, f)
      /\ DOMAIN P = 1 .. Len(P) /\ Len(P) \in Nat /\ f \in Nat \ {0}
  <2>1. f \in Inside(P, p)
    BY <1>1, WithinInside
  <2> QED
    BY <2>1, <1>1, ProgramConstants, ProgramFacts, ProgramClosed DEF TopLevel, Inside
<1>3. /\ c \in Seq(DOMAIN P) /\ Len(c) = Level(P, p)
      /\ \A k \in DOMAIN c :
           Opens(P, c[k]) /\ c[k] < p /\ p <= End(P, c[k]) /\ Level(P, c[k]) = k - 1
  BY DEF Around
<1>4. ASSUME NEW k \in DOMAIN c PROVE c[k] <= f
  <2>1. c[k] \in DOMAIN P /\ P[c[k]].k # "param" /\ c[k] < p
    BY <1>3, <1>4 DEF Opens, Openers
  <2>2. c[k] \notin f + 1 .. p
    BY <2>1, <1>1
  <2> QED
    BY <2>1, <2>2, <1>2
<1>5. ASSUME 2 \in DOMAIN c PROVE FALSE
  <2>1. c[2] \in DOMAIN P /\ Opens(P, c[2]) /\ p <= End(P, c[2]) /\ Level(P, c[2]) = 1
    BY <1>3, <1>5
  <2>2. /\ End(P, c[2]) \in DOMAIN P
        /\ \A r \in c[2] + 1 .. End(P, c[2]) - 1 : Level(P, r) > Level(P, c[2])
    BY <2>1, <1>2, EndCloses
  <2>3. c[2] # f /\ c[2] <= f
    BY <2>1, <1>2, <1>4, <1>5
  <2>4. f \in c[2] + 1 .. End(P, c[2]) - 1
    BY <2>1, <2>2, <2>3, <1>1, <1>2
  <2>5. Level(P, f) > Level(P, c[2])
    BY <2>2, <2>4
  <2> QED
    BY <2>1, <2>5, <1>2
<1>6. c # << >>
  <2>1. \A r \in f + 1 .. End(P, f) - 1 : Level(P, r) > Level(P, f)
    BY <1>1, <1>2, EndCloses
  <2>2. End(P, f) \in DOMAIN P /\ p # End(P, f)
    BY <1>1, <1>2, EndCloses
  <2>3. p \in f + 1 .. End(P, f) - 1
    BY <2>2, <1>1, <1>2
  <2>4. Level(P, p) > 0
    BY <2>1, <2>3, <1>2
  <2> QED
    BY <2>4, <1>3
<1> QED
  BY <1>3, <1>5, <1>6

-----------------------------------------------------------------------------
(* The walk of codegen *)

LEMMA CountSome ==
  ASSUME NEW P, NEW A, NEW c \in Seq(A), NEW kinds, NEW i \in DOMAIN c, P[c[i]].k \in kinds
  PROVE  Count(P, c, kinds) >= 1
<1> DEFINE S == {k \in DOMAIN c : P[c[k]].k \in kinds}
<1>1. i \in S /\ IsFiniteSet(S) /\ Count(P, c, kinds) = Cardinality(S) /\ Cardinality(S) \in Nat
  BY CountType DEF Count
<1> HIDE DEF S
<1>2. Cardinality(S) # 0
  BY <1>1, FS_EmptySet
<1> QED
  BY <1>1, <1>2

LEMMA TopCounts ==
  ASSUME ScopeInv, phase \in Emitting
  PROVE  /\ Top = Count(prog, calls, Opened) + (IF phase = "init" THEN 1 ELSE 0)
         /\ calls \in Seq(Positions) /\ Count(prog, calls, Opened) \in Nat /\ Top \in Nat
<1>1. calls \in Seq(Positions)
  BY DEF ScopeInv, TypeOK, SemanticTypeOK
<1>2. Top = Count(prog, calls, Opened) + (IF phase = "init" THEN 1 ELSE 0)
  BY MatchCounts DEF ScopeInv, Opened
<1> QED
  BY <1>1, <1>2, CountType, LocalsType

\* Inside a function, and in front of the rest of the top level, there is a scope.
LEMMA SomeScope ==
  ASSUME ScopeInv, Walking, phase \in Emitting, phase = "functions" => calls # << >>
  PROVE  locals # << >> /\ locals \in Stacks(Storages) /\ locals[1] \in [Names -> Storages]
<1>1. locals \in Stacks(Storages) /\ Top = Len(locals)
  BY LocalsType DEF Top
<1>2. Top >= 1
  <2>1. CASE phase = "init"
    BY <2>1, TopCounts
  <2>2. CASE phase # "init"
    <3>1. phase = "functions" /\ 1 \in DOMAIN calls /\ prog[calls[1]].k \in Opened
      BY <2>2, TopCounts DEF Emitting, Walking, Opened
    <3>2. Count(prog, calls, Opened) >= 1
      BY <3>1, TopCounts, CountSome
    <3> QED
      BY <3>1, <3>2, TopCounts
  <2> QED
    BY <2>1, <2>2
<1>3. locals # << >> /\ 1 \in DOMAIN locals
  BY <1>1, <1>2 DEF Stacks
<1> QED
  BY <1>1, <1>3 DEF Stacks

\* Codegen is at a token that it does not pass over.
AtToken ==
  /\ ScopeInv /\ RulesInv /\ StorageInv
  /\ phase \in Emitting /\ AtNode /\ ~Elsewhere /\ Node.k \notin {"fn", "end"}

LEMMA TokenFacts ==
  ASSUME AtToken
  PROVE  /\ prog \in Programs /\ pc \in DOMAIN prog /\ pc \in Positions /\ prog[pc] = Node
         /\ DOMAIN prog \subseteq Positions /\ Positions \subseteq Nat
         /\ Function(prog, pc) = Current /\ (phase = "functions" <=> Current # 0)
         /\ locals # << >> /\ locals \in Stacks(Storages) /\ locals[1] \in [Names -> Storages]
         /\ InOrder /\ Uniform(locals) /\ Root(prog, locals[1], storage, Current)
         /\ Origins(prog, storage) /\ Sharing(prog, storage) /\ Followed
         /\ DistinctUpTo(Len(prog) + 1) /\ Walking
<1>1. ScopeInv /\ Walking /\ Tables /\ Histories /\ DistinctUpTo(Len(prog) + 1)
  BY DEF AtToken, StorageInv
<1>2. phase = "functions" => calls # << >>
  BY DEF AtToken, Elsewhere
<1>3. locals # << >> /\ locals \in Stacks(Storages) /\ locals[1] \in [Names -> Storages]
  BY <1>1, <1>2, SomeScope DEF AtToken
<1>4. prog \in Programs /\ pc \in DOMAIN prog /\ pc \in Positions /\ prog[pc] = Node
  BY <1>1, NodeFacts DEF AtToken, Node
<1>5. DOMAIN prog \subseteq Positions /\ Positions \subseteq Nat
  BY <1>4, ProgramFacts DEF Positions
<1>6. Function(prog, pc) = Current /\ (phase = "functions" <=> Current # 0)
  BY <1>1, CurrentFunction DEF AtToken
<1> QED
  BY <1>1, <1>3, <1>4, <1>5, <1>6 DEF Tables, Histories

\* What was visited in the function is in front of the token.
LEMMA VisitedBefore ==
  ASSUME AtToken, NEW p \in DOMAIN prog, Visited(p), Function(prog, p) = Current
  PROVE  p < pc
<1>1. InOrder /\ (phase = "functions" <=> Current # 0) /\ phase \in Emitting
  BY TokenFacts DEF AtToken
<1> QED
  BY <1>1 DEF InOrder, Emitting

LEMMA TokenUnvisited ==
  ASSUME AtToken
  PROVE  storage[pc] = Unvisited /\ load[pc] = Unvisited /\ dest[pc] = Unvisited
<1>1. pc \in DOMAIN prog /\ Function(prog, pc) = Current /\ pc \in Nat
  BY TokenFacts
<1>2. ~Visited(pc)
  BY <1>1, VisitedBefore
<1> QED
  BY <1>2 DEF Visited

LEMMA HistoryTypes ==
  ASSUME ScopeInv
  PROVE  /\ storage \in [Positions -> Storages \cup {Unvisited}]
         /\ load \in [Positions -> Storages \cup {Unvisited}]
         /\ dest \in [Positions -> Storages \cup {Unvisited}]
         /\ bind \in [Positions -> Decls] /\ target \in [Positions -> Decls]
BY DEF ScopeInv, TypeOK, SemanticTypeOK

\* The call stack follows the walk.
LEMMA WalkingPast ==
  ASSUME ScopeInv, Walking, phase \in Emitting, AtNode, Node.k # "end",
         UNCHANGED <<prog, phase, calls>>, pc' = Behind(prog, pc)
  PROVE  Walking' /\ Current' = Current
<1>1. Closed(prog) /\ pc \in DOMAIN prog /\ prog[pc] = Node
  BY NodeFacts, ProgramClosed DEF Node
<1>2. Around(prog, Behind(prog, pc), calls)
  BY <1>1, AroundBehind DEF Walking
<1> QED
  BY <1>2 DEF Walking, Current

LEMMA WalkingInto ==
  ASSUME ScopeInv, Walking, phase \in Emitting, AtNode, Node.k \in Openers,
         UNCHANGED <<prog, phase>>, pc' = pc + 1, Call
  PROVE  /\ phase = "functions" /\ calls = << >> => Current' = pc
         /\ ~(phase = "functions" /\ calls = << >>) => Current' = Current
         /\ (phase = "functions" /\ calls = << >> => Node.k = "fn") => Walking'
<1>1. Closed(prog) /\ pc \in DOMAIN prog /\ prog[pc] = Node /\ Opens(prog, pc) /\ pc \in Positions
  BY NodeFacts, ProgramClosed DEF Node
<1>2. Around(prog, pc + 1, Append(calls, pc))
  BY <1>1, AroundInside DEF Walking
<1>3. /\ calls \in Seq(Positions) /\ Len(calls) \in Nat /\ Append(calls, pc) # << >>
      /\ calls = << >> => Append(calls, pc)[1] = pc
      /\ calls # << >> => Append(calls, pc)[1] = calls[1]
  <2>1. calls \in Seq(Positions)
    BY DEF ScopeInv, TypeOK, SemanticTypeOK
  <2>2. /\ Len(Append(calls, pc)) = Len(calls) + 1 /\ Append(calls, pc)[Len(calls) + 1] = pc
        /\ \A i \in 1 .. Len(calls) : Append(calls, pc)[i] = calls[i]
    BY <2>1, <1>1, Appended
  <2>3. Len(calls) \in Nat /\ (calls = << >> <=> Len(calls) = 0)
    BY <2>1
  <2>4. Append(calls, pc) # << >>
    BY <2>1, <1>1
  <2> QED
    BY <2>1, <2>2, <2>3, <2>4
<1>4. calls' = Append(calls, pc)
  BY DEF Call
<1>5. calls' # << >> /\ (calls = << >> => calls'[1] = pc) /\ (calls # << >> => calls'[1] = calls[1])
  BY <1>3, <1>4
<1>6. /\ phase = "functions" /\ calls = << >> => Current' = pc
      /\ ~(phase = "functions" /\ calls = << >>) => Current' = Current
  BY <1>5 DEF Current
<1>7. ASSUME phase = "functions" /\ calls = << >> => Node.k = "fn" PROVE Walking'
  <2>1. Around(prog', pc', calls')
    BY <1>2, <1>4
  <2>2. phase = "functions" => prog[calls'[1]].k = "fn"
    BY <1>1, <1>5, <1>7 DEF Walking
  <2> QED
    BY <2>1, <2>2 DEF Walking
<1> QED
  BY <1>6, <1>7

LEMMA WalkingOut ==
  ASSUME ScopeInv, Walking, phase \in Emitting, AtNode, Node.k = "end", calls # << >>,
         UNCHANGED <<prog, phase>>, pc' = pc + 1, Return
  PROVE  /\ Walking'
         /\ phase = "functions" /\ Caller # "fn" =>
              Len(calls) > 1 /\ calls' # << >> /\ prog[calls'[1]].k = "fn"
         /\ Caller # "fn" => Current' = Current
<1>1. Closed(prog) /\ pc \in DOMAIN prog /\ prog[pc] = Node
  BY NodeFacts, ProgramClosed DEF Node
<1>2. /\ calls \in Seq(Positions) /\ Len(calls) \in Nat \ {0} /\ Len(calls) = Level(prog, pc)
      /\ calls' \in Seq(Positions) /\ Len(calls') = Len(calls) - 1
      /\ \A i \in 1 .. Len(calls) - 1 : calls'[i] = calls[i]
  <2>1. calls \in Seq(Positions) /\ Len(calls) = Level(prog, pc)
    BY DEF ScopeInv, TypeOK, SemanticTypeOK, Walking, Around
  <2> QED
    BY <2>1, AllButLast DEF Return
<1>3. Around(prog, pc + 1, SubSeq(calls, 1, Len(calls) - 1))
  BY <1>1, <1>2, AroundOutside DEF Walking
<1>4. Around(prog', pc', calls')
  BY <1>3 DEF Return
<1>5. calls' # << >> => Len(calls) > 1 /\ calls'[1] = calls[1]
  BY <1>2
<1>6. Walking'
  BY <1>4, <1>5 DEF Walking
<1>7. phase = "functions" /\ Caller # "fn" => Len(calls) > 1 /\ calls' # << >>
  BY <1>2 DEF Walking, Caller
<1>8. Caller # "fn" => Current' = Current
  BY <1>5, <1>7 DEF Current
<1> QED
  BY <1>5, <1>6, <1>7, <1>8 DEF Walking

-----------------------------------------------------------------------------
(* The semantic pass leaves the storage alone *)

LEMMA TokenDistinct ==
  ASSUME Met, CheckToken, errors' = {}, DistinctUpTo(pc)
  PROVE  DistinctUpTo(pc)'
<1>1. /\ prog \in Programs /\ pc \in DOMAIN prog /\ pc \in Nat \ {0} /\ prog[pc] = Node
      /\ DOMAIN prog = 1 .. Len(prog) /\ scopes \in Seq([Names -> Decls])
  BY MetFacts
<1>2. prog' = prog
  BY ErrorsStay
<1>3. Node.k = "param" => ~Redeclared(prog, pc, Node.lhs.name)
  <2>1. SUFFICES ASSUME Node.k = "param" PROVE ~Redeclared(prog, pc, Node.lhs.name)
    OBVIOUS
  <2>2. declare_param
    BY <2>1 DEF CheckToken, check_declaration, check_assign, check_use, check_if, check_else,
                check_while_loop, check_for_loop, handle_fn, check_unconditional_branches, ret,
                check_end, Check
  <2>3. scopes[Len(scopes)][Node.lhs.name] = 0
    BY <2>2 DEF declare_param
  <2>4. TableAt(prog, pc, scopes)
    BY DEF Met, Checked
  <2> QED
    BY <2>1, <2>3, <2>4, <1>1, TakenMeansRedeclared
<1>4. pc' = pc + 1
  <2>1. check_for_loop => pc' = pc + 1
    BY DEF check_for_loop
  <2> QED
    BY <2>1 DEF CheckToken, check_declaration, check_assign, check_use, check_if, check_else,
                check_while_loop, handle_fn, declare_param, check_unconditional_branches, ret,
                check_end, Step
<1>5. ASSUME NEW q \in DOMAIN prog, q < pc + 1, prog[q].k = "param"
      PROVE  ~Redeclared(prog, q, prog[q].lhs.name)
  <2>1. CASE q = pc
    BY <2>1, <1>1, <1>3, <1>5
  <2>2. CASE q # pc
    <3>1. q < pc
      BY <2>2, <1>1, <1>5
    <3> QED
      BY <3>1, <1>5 DEF DistinctUpTo
  <2> QED
    BY <2>1, <2>2
<1> QED
  BY <1>2, <1>4, <1>5 DEF DistinctUpTo

LEMMA StorageChecked ==
  ASSUME ScopeInv, RulesInv, StorageInv, SemanticNext, UNCHANGED generated
  PROVE  StorageInv'
<1>1. phase \in Checking /\ prog' = prog
  BY ErrorsStay
  DEF SemanticNext, CheckToken, register, register_end, check_declaration, check_assign, check_use,
      check_if, check_else, check_while_loop, check_for_loop, handle_fn, declare_param,
      check_unconditional_branches, ret, check_end, semantic_check_end, crash, Check, Checking
<1>2. \A p \in DOMAIN prog : ~Visited(p)
  BY <1>1 DEF StorageInv
<1>3. \A p \in DOMAIN prog' : ~Visited(p)'
  BY <1>1, <1>2 DEF Visited, generated
<1>4. Histories' /\ InOrder'
  BY <1>3 DEF Origins, Sharing, Followed, Reached, Visited, Histories, InOrder
<1>5. ASSUME phase' = "check", errors' = {} PROVE DistinctUpTo(pc)'
  <2>1. CASE register_end
    <3>1. pc' = 1 /\ prog \in Programs
      BY <2>1 DEF register_end, ScopeInv, TypeOK, SemanticTypeOK
    <3>2. \A q \in DOMAIN prog : q \in Nat \ {0}
      BY <3>1, ProgramFacts
    <3> QED
      BY <3>1, <3>2, <1>1 DEF DistinctUpTo
  <2>2. CASE CheckToken
    <3>1. phase = "check" /\ errors = {} /\ AtNode
      BY <2>2, <1>5, ErrorsStay
      DEF CheckToken, check_declaration, check_assign, check_use, check_if, check_else,
          check_while_loop, check_for_loop, handle_fn, declare_param,
          check_unconditional_branches, ret, check_end, Check
    <3>2. Met
      BY <3>1 DEF Met, RulesInv
    <3> QED
      BY <3>1, <3>2, <2>2, <1>5, TokenDistinct DEF StorageInv
  <2> QED
    BY <2>1, <2>2, <1>5
    DEF SemanticNext, CheckToken, register, semantic_check_end, crash
<1>6. ASSUME phase' \in Emitting
      PROVE  DistinctUpTo(Len(prog) + 1)' /\ Walking' /\ Tables'
  <2>1. semantic_check_end /\ phase' = "functions" /\ errors = {}
    BY <1>1, <1>6, ErrorsStay
    DEF SemanticNext, CheckToken, register, register_end, check_declaration, check_assign, check_use,
        check_if, check_else, check_while_loop, check_for_loop, handle_fn, declare_param,
        check_unconditional_branches, ret, check_end, semantic_check_end, crash, Check, Checking,
        Emitting, Step
  <2>2. calls' = << >> /\ pc' = 1 /\ locals' = << >> /\ pc = Len(prog) + 1 /\ phase = "check"
    <3>1. calls = << >> /\ ~AtNode /\ phase = "check"
      BY <2>1, <1>1, AtTheEnd DEF semantic_check_end
    <3>2. pc \in 1 .. Len(prog) + 1 /\ Len(prog) \in Nat
      BY ProgramFacts DEF ScopeInv, Shape, TypeOK, SemanticTypeOK
    <3>3. locals = << >>
      BY <1>1 DEF ScopeInv, Shape
    <3> QED
      BY <3>1, <3>2, <3>3, <2>1 DEF semantic_check_end, generated, AtNode
  <2>3. DistinctUpTo(Len(prog) + 1)'
    BY <2>1, <2>2, <1>1 DEF StorageInv, DistinctUpTo
  <2>4. Walking'
    BY <2>2, NoneAround DEF Walking
  <2>5. Tables'
    BY <2>2, <1>4 DEF Tables, Uniform
  <2> QED
    BY <2>3, <2>4, <2>5
<1> QED
  BY <1>3, <1>4, <1>5, <1>6 DEF StorageInv

-----------------------------------------------------------------------------
(* A step of codegen *)

\* What the semantic pass has bound.
LEMMA BoundMeans ==
  ASSUME AtToken, NEW p \in DOMAIN prog
  PROVE  /\ bind[p] # 0 /\ ~Masked(prog, p, prog[p].rhs) =>
              /\ Means(prog, p, prog[p].rhs, bind[p])
              /\ bind[p] \in Globals(prog, prog[p].rhs.name) => prog[p].rhs.isglobal
         /\ target[p] # 0 /\ ~Masked(prog, p, prog[p].lhs) =>
              Means(prog, p, prog[p].lhs, target[p])
<1>1. prog \in Programs
  BY TokenFacts
<1>2. /\ bind[p] # 0 /\ ~Masked(prog, p, prog[p].rhs) => bind[p] = Read(prog, p, prog[p].rhs)
      /\ target[p] # 0 /\ ~Masked(prog, p, prog[p].lhs) => target[p] = Assigned(prog, p, prog[p].lhs)
  BY DEF AtToken, RulesInv, BindsLexically, Accepted
<1> QED
  BY <1>1, <1>2, ReadMeans, AssignedMeans

\* What was emitted before keeps its storage, also if it is declared only now.
LEMMA ReachedStays ==
  ASSUME AtToken, NEW p \in DOMAIN prog, Visited(p), p # pc,
         NEW ref, NEW d, NEW s, Reached(prog, storage, p, ref, d, s),
         d # 0 /\ ~Masked(prog, p, ref) => Means(prog, p, ref, d),
         NEW st, \A q \in DOMAIN prog : q # pc => st[q] = storage[q], Origins(prog, st)
  PROVE  Reached(prog, st, p, ref, d, s)
<1> SUFFICES ASSUME d # 0, s # Unvisited, ~Captured(prog, p, d), ~Doubled(prog, d),
                    ~Masked(prog, p, ref), Covered(prog, p, d) => ref.isglobal
             PROVE  /\ IsGlobal(prog, d) => s = Global(prog[d].lhs.name)
                    /\ st[d] # Unvisited => s = st[d]
  BY DEF Reached
<1>1. /\ d \in DOMAIN prog
      /\ d \in Globals(prog, ref.name) \/ d \in Locals(prog, p, ref.name)
  BY DEF Means
<1>2. /\ IsGlobal(prog, d) => s = Global(prog[d].lhs.name)
      /\ storage[d] # Unvisited => s = storage[d]
  BY DEF Reached
<1>3. CASE d # pc
  BY <1>1, <1>2, <1>3
<1>4. CASE d = pc /\ IsGlobal(prog, d)
  BY <1>1, <1>2, <1>4 DEF Origins, Origin
<1>5. CASE d = pc /\ ~IsGlobal(prog, d)
  <2>1. d \in Locals(prog, p, ref.name)
    BY <1>1, <1>5 DEF Globals
  <2>2. pc < p
    BY <2>1, <1>5 DEF Locals, InScope
  <2>3. Function(prog, p) = Current
    BY <1>5, TokenFacts DEF Captured
  <2>4. p < pc /\ p \in Nat /\ pc \in Nat
    BY <2>3, VisitedBefore, TokenFacts
  <2> QED
    BY <2>2, <2>4
<1> QED
  BY <1>3, <1>4, <1>5

\* The walk goes on in the same function, and nothing changes but what is known of pc.
Proceeds ==
  /\ UNCHANGED <<prog, phase, bind, target>> /\ Walking' /\ Current' = Current /\ pc' > pc
  /\ pc' \in Nat
  /\ \A p \in DOMAIN prog :
       p # pc => storage'[p] = storage[p] /\ load'[p] = load[p] /\ dest'[p] = dest[p]

\* What is emitted for the token's names is what the outermost scope says.
Resolves ==
  /\ \/ load'[pc] = Unvisited
     \/ Node.rhs # NoRef /\ load'[pc] = Resolved(prog, locals'[1], Node.rhs)
  /\ \/ dest'[pc] = Unvisited
     \/ /\ Node.k \in {"set", "step"} /\ storage' = storage
        /\ dest'[pc] = Resolved(prog, locals'[1], Node.lhs)

LEMMA FollowedNext ==
  ASSUME AtToken, Proceeds, Resolves,
         Origins(prog, storage'), Root(prog, locals'[1], storage', Current)
  PROVE  Followed'
<1>1. prog' = prog /\ bind' = bind /\ target' = target /\ Followed
  BY TokenFacts DEF Proceeds
<1>2. /\ prog \in Programs /\ pc \in DOMAIN prog /\ prog[pc] = Node
      /\ Function(prog, pc) = Current
  BY TokenFacts
<1> DEFINE st == storage'
           ld == load'
           ds == dest'
           root == locals'[1]
<1>3. /\ \A q \in DOMAIN prog : q # pc => st[q] = storage[q] /\ ld[q] = load[q] /\ ds[q] = dest[q]
      /\ Origins(prog, st) /\ Root(prog, root, st, Function(prog, pc))
  BY <1>2 DEF Proceeds
<1>4. /\ ld[pc] = Unvisited \/ (Node.rhs # NoRef /\ ld[pc] = Resolved(prog, root, Node.rhs))
      /\ \/ ds[pc] = Unvisited
         \/ Node.k \in {"set", "step"} /\ st = storage /\ ds[pc] = Resolved(prog, root, Node.lhs)
  BY DEF Resolves
<1> SUFFICES ASSUME NEW p \in DOMAIN prog
             PROVE  /\ ld[p] # Unvisited => prog[p].rhs # NoRef
                    /\ ds[p] # Unvisited => prog[p].k \in {"set", "step"}
                    /\ Reached(prog, st, p, prog[p].rhs, bind[p], ld[p])
                    /\ Reached(prog, st, p, prog[p].lhs, target[p], ds[p])
  BY <1>1 DEF Followed
<1> HIDE DEF st, ld, ds, root
<1>5. CASE p # pc
  <2>1. st[p] = storage[p] /\ ld[p] = load[p] /\ ds[p] = dest[p]
    BY <1>3, <1>5
  <2>2. /\ Reached(prog, storage, p, prog[p].rhs, bind[p], load[p])
        /\ Reached(prog, storage, p, prog[p].lhs, target[p], dest[p])
        /\ load[p] # Unvisited => prog[p].rhs # NoRef
        /\ dest[p] # Unvisited => prog[p].k \in {"set", "step"}
    BY <1>1 DEF Followed
  <2>3. CASE Visited(p)
    <3>1. Reached(prog, st, p, prog[p].rhs, bind[p], load[p])
      BY <2>2, <2>3, <1>3, <1>5, BoundMeans, ReachedStays
    <3>2. Reached(prog, st, p, prog[p].lhs, target[p], dest[p])
      BY <2>2, <2>3, <1>3, <1>5, BoundMeans, ReachedStays
    <3> QED
      BY <2>1, <2>2, <3>1, <3>2
  <2>4. CASE ~Visited(p)
    BY <2>1, <2>4 DEF Visited, Reached
  <2> QED
    BY <2>3, <2>4
<1>6. CASE p = pc
  <2>1. Reached(prog, st, pc, Node.rhs, bind[pc], ld[pc])
    <3>1. CASE ld[pc] = Unvisited
      BY <3>1 DEF Reached
    <3>2. CASE Node.rhs # NoRef /\ ld[pc] = Resolved(prog, root, Node.rhs)
      <4>1. Node.rhs.name \in Names
        BY <3>2, NodeFacts DEF AtToken
      <4>2. CASE bind[pc] = 0 \/ Masked(prog, pc, Node.rhs)
        BY <4>2 DEF Reached
      <4>3. CASE bind[pc] # 0 /\ ~Masked(prog, pc, Node.rhs)
        <5>1. /\ Means(prog, pc, Node.rhs, bind[pc])
              /\ bind[pc] \in Globals(prog, Node.rhs.name) => Node.rhs.isglobal
          BY <4>3, <1>2, BoundMeans
        <5>2. Reached(prog, st, pc, Node.rhs, bind[pc], Resolved(prog, root, Node.rhs))
          BY <5>1, <4>1, <3>2, <1>2, <1>3, NameReaches
        <5> QED
          BY <5>2, <3>2
      <4> QED
        BY <4>2, <4>3
    <3> QED
      BY <3>1, <3>2, <1>4
  <2>2. Reached(prog, st, pc, Node.lhs, target[pc], ds[pc])
    <3>1. CASE ds[pc] = Unvisited
      BY <3>1 DEF Reached
    <3>2. CASE Node.k \in {"set", "step"} /\ st = storage /\ ds[pc] = Resolved(prog, root, Node.lhs)
      <4>1. Node.lhs.name \in Names /\ Node.lhs # NoRef
        BY <3>2, <1>2, NodeFacts, ProgramConstants DEF AtToken
      <4>2. CASE target[pc] = 0 \/ Masked(prog, pc, Node.lhs)
        BY <4>2 DEF Reached
      <4>3. CASE target[pc] # 0 /\ ~Masked(prog, pc, Node.lhs)
        <5>1. Means(prog, pc, Node.lhs, target[pc])
          BY <4>3, <1>2, BoundMeans
        <5>2. \A e \in DOMAIN prog :
                st[e] # Unvisited /\ Function(prog, e) = Function(prog, pc) => e < pc
          BY <3>2, <1>2, VisitedBefore DEF Visited
        <5>3. Reached(prog, st, pc, Node.lhs, target[pc], Resolved(prog, root, Node.lhs))
          BY <5>1, <5>2, <4>1, <1>2, <1>3, NameReaches
        <5> QED
          BY <5>3, <3>2
      <4> QED
        BY <4>2, <4>3
    <3> QED
      BY <3>1, <3>2, <1>4
  <2> QED
    BY <2>1, <2>2, <1>2, <1>4, <1>6
<1> QED
  BY <1>5, <1>6

LEMMA TokenEmitted ==
  ASSUME AtToken, Proceeds, Resolves, locals' # << >>, Uniform(locals)',
         Origins(prog, storage'), Sharing(prog, storage'),
         Root(prog, locals'[1], storage', Current)
  PROVE  StorageInv'
<1>1. prog' = prog /\ phase' = phase /\ Current' = Current /\ Walking' /\ pc' > pc
      /\ pc' \in Nat /\ phase \in Emitting
  BY DEF Proceeds, AtToken
<1>2. Followed'
  BY FollowedNext
<1>3. Histories'
  BY <1>1, <1>2 DEF Histories
<1>4. InOrder'
  <2>1. /\ InOrder /\ Function(prog, pc) = Current /\ (phase = "functions" <=> Current # 0)
        /\ pc \in Nat /\ \A p \in DOMAIN prog : p \in Nat
    BY TokenFacts
  <2>2. ASSUME NEW p \in DOMAIN prog, p # pc, Visited(p)'
        PROVE  Visited(p)
    BY <2>2 DEF Visited, Proceeds
  <2>3. ASSUME NEW p \in DOMAIN prog, Visited(p)'
        PROVE  /\ phase = "functions" => p < pc' /\ Function(prog, p) # 0
               /\ phase = "init" /\ Function(prog, p) = 0 => p < pc'
    <3>1. CASE p = pc
      BY <3>1, <2>1, <1>1
    <3>2. CASE p # pc
      BY <3>2, <2>1, <2>2, <2>3, <1>1 DEF InOrder
    <3> QED
      BY <3>1, <3>2
  <2> QED
    BY <2>3, <1>1 DEF InOrder
<1>5. Tables'
  BY <1>1, <1>4 DEF Tables
<1>6. DistinctUpTo(Len(prog) + 1)'
  BY <1>1, TokenFacts DEF DistinctUpTo
<1> QED
  BY <1>1, <1>3, <1>5, <1>6 DEF StorageInv, Emitting, Checking

-----------------------------------------------------------------------------
(* The actions of codegen *)

\* The scopes with a new declaration.
LEMMA DeclaredTable ==
  ASSUME AtToken, Node.k \in {"var", "for"},
         NEW s, s = IF IsGlobal(prog, pc) THEN Global(Node.lhs.name)
                    ELSE get_or_create_alloca(Node.lhs.name)
  PROVE  LET x == Node.lhs.name
             env == Declared(x, s) IN
         /\ s = IF IsGlobal(prog, pc) THEN Global(x)
                ELSE IF locals[1][x] # Null THEN locals[1][x] ELSE Alloca(pc)
         /\ env \in Stacks(Storages) /\ env # << >> /\ Uniform(env)
         /\ env[1] = [locals[1] EXCEPT ![x] = s]
<1> DEFINE x == Node.lhs.name
           env == Declared(x, s)
           reg == Registered(x)
           root == locals[1]
<1>1. /\ locals \in Stacks(Storages) /\ locals # << >> /\ Uniform(locals)
      /\ root \in [Names -> Storages] /\ ScopeInv /\ AtNode /\ phase \in Emitting
  BY TokenFacts DEF AtToken
<1>2. x \in Names /\ Alloca(pc) \in Storages /\ s \in Storages
  BY <1>1, ResolvedType
<1>3. lookup(locals, x) = root[x]
  BY <1>1, <1>2, UniformLookup
<1>4. s = IF IsGlobal(prog, pc) THEN Global(x)
          ELSE IF root[x] # Null THEN root[x] ELSE Alloca(pc)
  BY <1>3 DEF get_or_create_alloca
<1>5. /\ Len(locals) = Top /\ Top \in Nat \ {0} /\ DOMAIN locals = 1 .. Top
  BY <1>1 DEF Stacks, Top
<1>6. IsGlobal(prog, pc) => Top = 1
  <2>1. SUFFICES ASSUME IsGlobal(prog, pc) PROVE Top = 1
    OBVIOUS
  <2>2. Level(prog, pc) = 0 /\ phase = "init"
    BY <2>1, <1>1, GlobalOutside, TokenFacts DEF IsGlobal, TopLevel, Emitting
  <2>3. calls = << >>
    <3>1. calls \in Seq(DOMAIN prog) /\ Len(calls) = 0
      BY <2>2, TokenFacts DEF Walking, Around
    <3> QED
      BY <3>1
  <2> QED
    BY <2>2, <2>3, <1>1, TopCounts, CountNone
<1>7. /\ reg \in Stacks(Storages) /\ Len(reg) = Top
      /\ reg = IF IsGlobal(prog, pc) \/ root[x] # Null THEN locals ELSE Enter(locals, 1, x, Alloca(pc))
  BY <1>1, <1>2, <1>3, <1>5, EnterType DEF Registered
<1>8. env \in Stacks(Storages) /\ Len(env) = Top /\ env = Enter(reg, Top, x, s)
  BY <1>1, <1>2, DeclaredType DEF Declared
<1>9. DOMAIN reg = 1 .. Top /\ DOMAIN env = 1 .. Top
  BY <1>7, <1>8 DEF Stacks
<1> HIDE DEF env, reg, x, root
<1>10. ASSUME NEW j \in 1 .. Top, NEW y \in Names
       PROVE  reg[j][y] = IF ~IsGlobal(prog, pc) /\ root[x] = Null /\ j = 1 /\ y = x
                            THEN Alloca(pc) ELSE locals[j][y]
  <2>1. CASE IsGlobal(prog, pc) \/ root[x] # Null
    BY <2>1, <1>7
  <2>2. CASE ~IsGlobal(prog, pc) /\ root[x] = Null
    <3>1. reg = Enter(locals, 1, x, Alloca(pc)) /\ 1 \in DOMAIN locals /\ j \in DOMAIN locals
      BY <2>2, <1>5, <1>7
    <3>2. reg[j][y] = IF j = 1 /\ y = x THEN Alloca(pc) ELSE locals[j][y]
      BY <3>1, <1>1, <1>2, EnterEntries
    <3> QED
      BY <2>2, <3>2
  <2> QED
    BY <2>1, <2>2
<1>11. ASSUME NEW j \in 1 .. Top, NEW y \in Names
       PROVE  env[j][y] = IF j = Top /\ y = x THEN s ELSE reg[j][y]
  <2>1. Top \in DOMAIN reg /\ j \in DOMAIN reg
    BY <1>5, <1>9
  <2> QED
    BY <2>1, <1>2, <1>7, <1>8, EnterEntries
<1>12. ASSUME NEW y \in Names PROVE env[1][y] = IF y = x THEN s ELSE root[y]
  <2>1. 1 \in 1 .. Top
    BY <1>5
  <2>2. CASE y # x
    BY <2>1, <2>2, <1>10, <1>11 DEF root
  <2>3. CASE y = x /\ Top = 1
    BY <2>1, <2>3, <1>11
  <2>4. CASE y = x /\ Top # 1
    <3>1. env[1][x] = reg[1][x] /\ ~IsGlobal(prog, pc)
      BY <2>1, <2>4, <1>6, <1>11
    <3> QED
      BY <2>1, <2>4, <3>1, <1>4, <1>10 DEF root, x
  <2> QED
    BY <2>2, <2>3, <2>4
<1>13. env # << >> /\ env[1] \in [Names -> Storages]
  <2>1. 1 \in 1 .. Top
    BY <1>5
  <2> QED
    BY <2>1, <1>8, <1>9 DEF Stacks
<1>14. env[1] = [root EXCEPT ![x] = s]
  <2>1. \A y \in Names : env[1][y] = [root EXCEPT ![x] = s][y]
    BY <1>1, <1>2, <1>12 DEF root
  <2>2. [root EXCEPT ![x] = s] \in [Names -> Storages]
    BY <1>1, <1>2 DEF root
  <2> QED
    BY <2>1, <2>2, <1>13
<1>15. Uniform(env)
  <2> SUFFICES ASSUME NEW k \in 1 .. Top, NEW y \in Names PROVE env[k][y] \in {Null, env[1][y]}
    BY <1>9 DEF Uniform
  <2>1. locals[k][y] \in {Null, root[y]}
    BY <1>1, <1>5 DEF Uniform, root
  <2>2. CASE y # x
    BY <2>1, <2>2, <1>10, <1>11, <1>12
  <2>3. CASE y = x /\ k \in {1, Top}
    BY <2>3, <1>11, <1>12
  <2>4. CASE y = x /\ k \notin {1, Top}
    <3>1. env[k][x] = locals[k][x] /\ env[1][x] = s
      BY <2>4, <1>10, <1>11, <1>12
    <3>2. ~IsGlobal(prog, pc)
      BY <2>4, <1>5, <1>6
    <3>3. root[x] = Null \/ s = root[x]
      BY <3>2, <1>4 DEF x, root
    <3> QED
      BY <3>1, <3>3, <2>1, <2>4
  <2> QED
    BY <2>2, <2>3, <2>4
<1> QED
  BY <1>4, <1>8, <1>13, <1>14, <1>15 DEF env, x, root

\* The effect of a declaration on the storage.
LEMMA DeclarationStored ==
  ASSUME AtToken, Node.k \in {"var", "for", "param"},
         NEW s, s = IF IsGlobal(prog, pc) THEN Global(Node.lhs.name)
                    ELSE IF locals[1][Node.lhs.name] # Null THEN locals[1][Node.lhs.name]
                    ELSE Alloca(pc),
         storage' = [storage EXCEPT ![pc] = s],
         locals'[1] = [locals[1] EXCEPT ![Node.lhs.name] = s]
  PROVE  /\ Origins(prog, storage') /\ Sharing(prog, storage')
         /\ Root(prog, locals'[1], storage', Current)
         /\ \A p \in DOMAIN prog : p # pc => storage'[p] = storage[p]
<1>1. /\ prog \in Programs /\ pc \in DOMAIN prog /\ prog[pc] = Node /\ pc \in Positions
      /\ DOMAIN prog \subseteq Positions
      /\ locals[1] \in [Names -> Storages] /\ Function(prog, pc) = Current
      /\ Root(prog, locals[1], storage, Current)
      /\ Origins(prog, storage) /\ Sharing(prog, storage)
  BY TokenFacts
<1>2. storage \in [Positions -> Storages \cup {Unvisited}] /\ storage[pc] = Unvisited
  BY HistoryTypes, TokenUnvisited DEF AtToken
<1> DEFINE root == locals[1]
<1> HIDE DEF root
<1>3. LET nst == [storage EXCEPT ![pc] = s]
          nroot == [root EXCEPT ![prog[pc].lhs.name] = s] IN
      Origins(prog, nst) /\ Sharing(prog, nst) /\ Root(prog, nroot, nst, Function(prog, pc))
  BY <1>1, <1>2, DeclarationShares DEF root
<1>4. \A p \in DOMAIN prog : p # pc => storage'[p] = storage[p]
  BY <1>1, <1>2
<1> QED
  BY <1>1, <1>3, <1>4 DEF root

LEMMA LoadResolves ==
  ASSUME AtToken, NEW env \in Stacks(Storages), env # << >>, Uniform(env), Load(env),
         locals'[1] = env[1]
  PROVE  /\ \/ load'[pc] = Unvisited
            \/ Node.rhs # NoRef /\ load'[pc] = Resolved(prog, locals'[1], Node.rhs)
         /\ \A p \in DOMAIN prog : p # pc => load'[p] = load[p]
<1>1. pc \in Positions /\ DOMAIN prog \subseteq Positions /\ load[pc] = Unvisited
  BY TokenFacts, TokenUnvisited
<1>2. load \in [Positions -> Storages \cup {Unvisited}]
  BY HistoryTypes DEF AtToken
<1>3. Node.rhs # NoRef => Node.rhs.name \in Names
  BY NodeFacts DEF AtToken
<1>4. Node.rhs # NoRef => variable(env, Node.rhs) = Resolved(prog, env[1], Node.rhs)
  BY <1>3, VariableResolved
<1> QED
  BY <1>1, <1>2, <1>4 DEF Load

\* A token that is passed, and one that opens a construct.
LEMMA TokenPast ==
  ASSUME AtToken, Node.k \notin Openers, UNCHANGED calls, Step
  PROVE  /\ UNCHANGED <<prog, phase>> /\ Walking' /\ Current' = Current
         /\ pc' > pc /\ pc' \in Nat
<1>1. prog[pc] = Node /\ pc \in Nat /\ Walking
  BY TokenFacts
<1>2. Behind(prog, pc) = pc + 1
  BY <1>1 DEF Behind, Opens
<1> QED
  BY <1>1, <1>2, WalkingPast DEF AtToken, Step

LEMMA TokenInto ==
  ASSUME AtToken, Node.k \in Openers, Call, Step
  PROVE  /\ UNCHANGED <<prog, phase>> /\ Walking' /\ Current' = Current
         /\ pc' > pc /\ pc' \in Nat
<1>1. pc \in Nat /\ Walking
  BY TokenFacts
<1>2. phase = "functions" => calls # << >>
  BY DEF AtToken, Elsewhere
<1> QED
  BY <1>1, <1>2, WalkingInto DEF AtToken, Step

\* A token that declares nothing.
LEMMA NothingStored ==
  ASSUME AtToken, storage' = storage, locals'[1] = locals[1]
  PROVE  /\ Origins(prog, storage') /\ Sharing(prog, storage')
         /\ Root(prog, locals'[1], storage', Current)
BY TokenFacts

LEMMA StorageParam ==
  ASSUME ScopeInv, RulesInv, StorageInv, emit_param
  PROVE  StorageInv'
<1> DEFINE x == Node.lhs.name
<1>1. AtToken /\ Node.k = "param" /\ UNCHANGED calls /\ Step
  BY DEF emit_param, Emit, AtToken
<1>2. /\ prog \in Programs /\ pc \in DOMAIN prog /\ prog[pc] = Node /\ pc \in Nat
      /\ locals \in Stacks(Storages) /\ locals # << >> /\ locals[1] \in [Names -> Storages]
      /\ Root(prog, locals[1], storage, Current) /\ Function(prog, pc) = Current
      /\ Walking /\ DistinctUpTo(Len(prog) + 1) /\ x \in Names
      /\ phase \in Emitting /\ (phase = "functions" <=> Current # 0)
      /\ DOMAIN prog = 1 .. Len(prog) /\ Len(prog) \in Nat
  BY <1>1, TokenFacts, ResolvedType, ProgramFacts DEF AtToken
<1>3. phase = "functions" /\ calls # << >> /\ Len(calls) = 1 /\ prog[calls[1]].k = "fn"
  <2>1. Current # 0 /\ Len(calls) = 1
    BY <1>1, <1>2, ParamsFirst, ParamsCalls DEF Walking
  <2> QED
    BY <2>1, <1>2 DEF Walking, Current
<1>4. Top = 1
  <2> DEFINE e == SubSeq(calls, 1, Len(calls) - 1)
  <2>1. /\ calls \in Seq(Positions) /\ Top = Count(prog, calls, Opened)
        /\ Count(prog, calls, Opened) \in Nat /\ prog[calls[Len(calls)]].k \in Opened
    BY <1>2, <1>3, TopCounts DEF Opened
  <2>2. Count(prog, e, Opened) = Count(prog, calls, Opened) - 1
    BY <2>1, <1>3, CountReturn
  <2>3. e \in Seq(Positions) /\ Len(e) = 0
    BY <2>1, <1>3, AllButLast
  <2> HIDE DEF e
  <2>4. e = << >>
    BY <2>3
  <2>5. Count(prog, e, Opened) = 0
    BY <2>4, CountNone
  <2> QED
    BY <2>1, <2>2, <2>5
<1>5. locals[1][x] = Null
  <2>1. SUFFICES ASSUME locals[1][x] # Null PROVE FALSE
    OBVIOUS
  <2>2. PICK d \in DOMAIN prog :
          storage[d] # Unvisited /\ Declares(prog, d, x) /\ Function(prog, d) = Current
    BY <2>1, <1>2 DEF Root
  <2>3. d < pc
    BY <2>2, <1>1, VisitedBefore DEF Visited
  <2>4. ~Redeclared(prog, pc, prog[pc].lhs.name)
    BY <1>1, <1>2 DEF DistinctUpTo
  <2> QED
    BY <2>2, <2>3, <2>4, <1>1, <1>2, ParamAlone
<1>6. locals' = Enter(locals, 1, x, Alloca(pc)) /\ storage' = [storage EXCEPT ![pc] = Alloca(pc)]
  BY <1>4 DEF emit_param
<1>7. /\ locals'[1] = [locals[1] EXCEPT ![x] = Alloca(pc)]
      /\ locals' # << >> /\ Uniform(locals)'
  <2>1. DOMAIN locals = {1}
    BY <1>2, <1>4 DEF Stacks, Top
  <2>2. DOMAIN locals' = {1} /\ locals'[1] = [locals[1] EXCEPT ![x] = Alloca(pc)]
    BY <2>1, <1>6 DEF Enter
  <2>3. \A k \in DOMAIN locals' : locals'[k] = locals'[1]
    BY <2>2
  <2>4. locals' # << >>
    BY <2>2
  <2> QED
    BY <2>2, <2>3, <2>4 DEF Uniform
<1>8. ~IsGlobal(prog, pc)
  BY <1>1, <1>2 DEF IsGlobal
<1>9. /\ Origins(prog, storage') /\ Sharing(prog, storage')
      /\ Root(prog, locals'[1], storage', Current)
      /\ \A p \in DOMAIN prog : p # pc => storage'[p] = storage[p]
  BY <1>1, <1>5, <1>6, <1>7, <1>8, DeclarationStored
<1>10. load' = load /\ dest' = dest /\ UNCHANGED <<bind, target>>
  BY DEF emit_param, Semantic, semantic
<1>11. Proceeds
  BY <1>1, <1>9, <1>10, TokenPast DEF Proceeds, Openers
<1>12. Resolves
  BY <1>1, <1>10, TokenUnvisited DEF Resolves
<1> QED
  BY <1>1, <1>7, <1>9, <1>11, <1>12, TokenEmitted

LEMMA StorageDeclaration ==
  ASSUME ScopeInv, RulesInv, StorageInv, emit_declaration
  PROVE  StorageInv'
<1>1. AtToken /\ Node.k = "var" /\ UNCHANGED calls /\ Step
  BY DEF emit_declaration, Live, Emit, AtToken
<1>2. PICK s : /\ s = IF IsGlobal(prog, pc) THEN Global(Node.lhs.name)
                      ELSE get_or_create_alloca(Node.lhs.name)
               /\ locals' = Declared(Node.lhs.name, s)
               /\ storage' = [storage EXCEPT ![pc] = s]
               /\ Load(Declared(Node.lhs.name, s))
  BY DEF emit_declaration
<1>3. /\ s = IF IsGlobal(prog, pc) THEN Global(Node.lhs.name)
             ELSE IF locals[1][Node.lhs.name] # Null THEN locals[1][Node.lhs.name] ELSE Alloca(pc)
      /\ Declared(Node.lhs.name, s) \in Stacks(Storages) /\ Declared(Node.lhs.name, s) # << >>
      /\ Uniform(Declared(Node.lhs.name, s))
      /\ Declared(Node.lhs.name, s)[1] = [locals[1] EXCEPT ![Node.lhs.name] = s]
  BY <1>1, <1>2, DeclaredTable
<1>4. locals' # << >> /\ locals'[1] = [locals[1] EXCEPT ![Node.lhs.name] = s]
  BY <1>2, <1>3
<1>5. Uniform(locals)'
  BY <1>2, <1>3 DEF Uniform
<1>6. /\ Origins(prog, storage') /\ Sharing(prog, storage')
      /\ Root(prog, locals'[1], storage', Current)
      /\ \A p \in DOMAIN prog : p # pc => storage'[p] = storage[p]
  BY <1>1, <1>2, <1>3, <1>4, DeclarationStored
<1>7. /\ \/ load'[pc] = Unvisited
         \/ Node.rhs # NoRef /\ load'[pc] = Resolved(prog, locals'[1], Node.rhs)
      /\ \A p \in DOMAIN prog : p # pc => load'[p] = load[p]
  BY <1>1, <1>2, <1>3, LoadResolves
<1>8. dest' = dest /\ UNCHANGED <<bind, target>>
  BY DEF emit_declaration, Semantic, semantic
<1>9. Proceeds
  BY <1>1, <1>6, <1>7, <1>8, TokenPast DEF Proceeds, Openers
<1>10. Resolves
  BY <1>1, <1>7, <1>8, TokenUnvisited DEF Resolves
<1> QED
  BY <1>1, <1>4, <1>5, <1>6, <1>9, <1>10, TokenEmitted

LEMMA StorageFor ==
  ASSUME ScopeInv, RulesInv, StorageInv, emit_for_loop
  PROVE  StorageInv'
<1> DEFINE x == Node.lhs.name
           s == get_or_create_alloca(x)
           env == Declared(x, s)
<1>1. AtToken /\ Node.k = "for" /\ Node.k \in Openers /\ Call /\ Step
  BY DEF emit_for_loop, Live, Emit, AtToken, Openers
<1>2. ~IsGlobal(prog, pc)
  BY <1>1, TokenFacts DEF IsGlobal
<1>3. /\ locals' = Append(env, NoLocals) /\ storage' = [storage EXCEPT ![pc] = s] /\ Load(env)
      /\ dest' = dest /\ UNCHANGED <<bind, target>>
  BY DEF emit_for_loop, Semantic, semantic
<1>4. /\ s = IF IsGlobal(prog, pc) THEN Global(x)
             ELSE IF locals[1][x] # Null THEN locals[1][x] ELSE Alloca(pc)
      /\ env \in Stacks(Storages) /\ env # << >> /\ Uniform(env)
      /\ env[1] = [locals[1] EXCEPT ![x] = s]
  BY <1>1, <1>2, DeclaredTable
<1> HIDE DEF env, s
<1>5. /\ locals' # << >> /\ locals'[1] = env[1] /\ Uniform(locals)'
  <2> DEFINE d == Append(env, NoLocals)
  <2>1. d # << >> /\ d[1] = env[1] /\ Uniform(d)
    BY <1>4, UniformPushed
  <2> HIDE DEF d
  <2>2. locals' = d
    BY <1>3 DEF d
  <2> QED
    BY <2>1, <2>2 DEF Uniform
<1>6. /\ Origins(prog, storage') /\ Sharing(prog, storage')
      /\ Root(prog, locals'[1], storage', Current)
      /\ \A p \in DOMAIN prog : p # pc => storage'[p] = storage[p]
  BY <1>1, <1>3, <1>4, <1>5, DeclarationStored
<1>7. /\ \/ load'[pc] = Unvisited
         \/ Node.rhs # NoRef /\ load'[pc] = Resolved(prog, locals'[1], Node.rhs)
      /\ \A p \in DOMAIN prog : p # pc => load'[p] = load[p]
  BY <1>1, <1>3, <1>4, <1>5, LoadResolves
<1>8. Proceeds
  BY <1>1, <1>3, <1>6, <1>7, TokenInto DEF Proceeds
<1>9. Resolves
  BY <1>1, <1>3, <1>7, TokenUnvisited DEF Resolves
<1> QED
  BY <1>1, <1>5, <1>6, <1>8, <1>9, TokenEmitted

\* Tokens that enter no name.
LEMMA StorageToken ==
  ASSUME AtToken, UNCHANGED <<prog, phase, bind, target, storage>>,
         Walking', Current' = Current, pc' > pc, pc' \in Nat,
         locals' = locals \/ locals' = Append(locals, NoLocals),
         \/ load' = load
         \/ Load(locals) \/ (Load(Append(locals, NoLocals)) /\ locals' = Append(locals, NoLocals)),
         \/ dest' = dest
         \/ /\ Node.k \in {"set", "step"} /\ locals' = locals
            /\ dest' = [dest EXCEPT ![pc] = variable(locals, Node.lhs)]
  PROVE  StorageInv'
<1>1. /\ locals \in Stacks(Storages) /\ locals # << >> /\ Uniform(locals)
      /\ pc \in Positions /\ DOMAIN prog \subseteq Positions
  BY TokenFacts
<1> DEFINE pushed == Append(locals, NoLocals)
<1>2. pushed # << >> /\ pushed[1] = locals[1] /\ Uniform(pushed) /\ pushed \in Stacks(Storages)
  BY <1>1, UniformPushed, PushedLocals
<1> HIDE DEF pushed
<1>3. locals' = locals \/ locals' = pushed
  BY DEF pushed
<1>4. locals' # << >> /\ locals'[1] = locals[1] /\ Uniform(locals)'
  BY <1>1, <1>2, <1>3 DEF Uniform
<1>5. /\ Origins(prog, storage') /\ Sharing(prog, storage')
      /\ Root(prog, locals'[1], storage', Current)
  BY <1>4, NothingStored
<1>6. /\ \/ load'[pc] = Unvisited
         \/ Node.rhs # NoRef /\ load'[pc] = Resolved(prog, locals'[1], Node.rhs)
      /\ \A p \in DOMAIN prog : p # pc => load'[p] = load[p]
  <2>1. CASE load' = load
    BY <2>1, TokenUnvisited
  <2>2. CASE Load(locals)
    BY <2>2, <1>1, <1>4, LoadResolves
  <2>3. CASE Load(pushed)
    BY <2>3, <1>2, <1>4, LoadResolves
  <2> QED
    BY <2>1, <2>2, <2>3 DEF pushed
<1>7. /\ \/ dest'[pc] = Unvisited
         \/ /\ Node.k \in {"set", "step"} /\ storage' = storage
            /\ dest'[pc] = Resolved(prog, locals'[1], Node.lhs)
      /\ \A p \in DOMAIN prog : p # pc => dest'[p] = dest[p]
  <2>1. CASE dest' = dest
    BY <2>1, TokenUnvisited
  <2>2. CASE /\ Node.k \in {"set", "step"} /\ locals' = locals
             /\ dest' = [dest EXCEPT ![pc] = variable(locals, Node.lhs)]
    <3>1. Node.lhs.name \in Names
      BY <2>2, NodeFacts DEF AtToken
    <3>2. variable(locals, Node.lhs) = Resolved(prog, locals[1], Node.lhs)
      BY <3>1, <1>1, VariableResolved
    <3>3. dest \in [Positions -> Storages \cup {Unvisited}]
      BY HistoryTypes DEF AtToken
    <3> QED
      BY <2>2, <3>2, <3>3, <1>1, <1>4
  <2> QED
    BY <2>1, <2>2
<1>8. Proceeds
  BY <1>6, <1>7 DEF Proceeds
<1>9. Resolves
  BY <1>6, <1>7 DEF Resolves
<1> QED
  BY <1>4, <1>5, <1>8, <1>9, TokenEmitted

\* What changes nothing but the walk and the scopes.
LEMMA StorageElsewhere ==
  ASSUME ScopeInv, StorageInv, phase \in Emitting, phase' \in Emitting,
         UNCHANGED <<prog, bind, target, storage, load, dest>>,
         Walking', InOrder', Uniform(locals)',
         locals' # << >> => Root(prog, locals'[1], storage, Current')
  PROVE  StorageInv'
<1>1. Histories'
  BY DEF StorageInv, Histories, Followed
<1>2. DistinctUpTo(Len(prog) + 1)'
  BY DEF StorageInv, DistinctUpTo
<1>3. Tables'
  BY DEF Tables
<1> QED
  BY <1>1, <1>2, <1>3 DEF StorageInv, Emitting, Checking

LEMMA OrderStays ==
  ASSUME InOrder, UNCHANGED <<prog, phase, storage, load, dest>>, pc' >= pc,
         pc \in Nat, pc' \in Nat, \A p \in DOMAIN prog : p \in Nat
  PROVE  InOrder'
BY DEF InOrder, Visited

LEMMA StorageSkip ==
  ASSUME ScopeInv, StorageInv, skip
  PROVE  StorageInv'
<1>1. /\ phase \in Emitting /\ AtNode /\ pc' = Behind(prog, pc)
      /\ UNCHANGED <<prog, phase, calls, semantic, generated>>
  BY DEF skip
<1>2. prog \in Programs /\ pc \in DOMAIN prog /\ Closed(prog) /\ Walking /\ Tables /\ Node = prog[pc]
  BY <1>1, NodeFacts, ProgramClosed DEF StorageInv, Node
<1>3. Node.k # "end"
  <2>1. CASE ~Elsewhere
    BY <2>1 DEF skip
  <2>2. CASE Elsewhere /\ calls # << >>
    BY <2>2 DEF Elsewhere
  <2>3. CASE calls = << >>
    <3>1. Level(prog, pc) = 0
      BY <2>3, <1>2 DEF Walking, Around
    <3> QED
      BY <3>1, <1>1, NodeLevel
  <2> QED
    BY <2>1, <2>2, <2>3
<1>4. Walking' /\ Current' = Current
  BY <1>1, <1>2, <1>3, WalkingPast
<1>5. InOrder'
  <2>1. pc \in Nat /\ Behind(prog, pc) \in Nat /\ pc < Behind(prog, pc) /\ \A p \in DOMAIN prog : p \in Nat
    BY <1>2, LevelBehind, ProgramFacts
  <2> QED
    BY <2>1, <1>1, <1>2, OrderStays DEF Tables, generated
<1>6. Uniform(locals)' /\ (locals' # << >> => Root(prog, locals'[1], storage, Current'))
  BY <1>1, <1>2, <1>4 DEF Tables, Uniform, generated
<1> QED
  BY <1>1, <1>4, <1>5, <1>6, StorageElsewhere DEF semantic, generated

LEMMA StorageFunction ==
  ASSUME ScopeInv, StorageInv, emit_function
  PROVE  StorageInv'
<1>1. /\ phase = "functions" /\ calls = << >> /\ phase \in Emitting /\ AtNode /\ Node.k = "fn"
      /\ Node.k \in Openers /\ Call /\ pc' = pc + 1 /\ UNCHANGED <<prog, phase>>
      /\ UNCHANGED <<bind, target, storage, load, dest>> /\ locals' = <<NoLocals>>
  BY DEF emit_function, Emit, Elsewhere, Openers, Step, Semantic, semantic
<1>2. prog \in Programs /\ pc \in DOMAIN prog /\ pc \in Nat \ {0} /\ Walking /\ Tables
      /\ \A p \in DOMAIN prog : p \in Nat
  BY <1>1, NodeFacts, ProgramFacts DEF StorageInv
<1>3. Walking' /\ Current' = pc
  BY <1>1, <1>2, WalkingInto
<1>4. InOrder'
  BY <1>1, <1>2, OrderStays DEF Tables
<1>5. locals'[1] = NoLocals /\ Uniform(locals)'
  BY <1>1 DEF Uniform
<1>6. Root(prog, NoLocals, storage, pc)
  <2>1. ASSUME NEW d \in DOMAIN prog, storage[d] # Unvisited, Function(prog, d) = pc
        PROVE  FALSE
    <3>1. d < pc
      BY <2>1, <1>1, <1>2 DEF Tables, InOrder, Visited
    <3>2. pc < d
      BY <2>1, <1>2, FunctionOf
    <3> QED
      BY <3>1, <3>2, <1>2
  <2> QED
    BY <2>1 DEF Root, NoLocals
<1> QED
  BY <1>1, <1>3, <1>4, <1>5, <1>6, StorageElsewhere

LEMMA StorageFunctionsEnd ==
  ASSUME ScopeInv, StorageInv, emit_functions_end
  PROVE  StorageInv'
<1>1. /\ phase = "functions" /\ ~AtNode /\ phase' = "init" /\ pc' = 1 /\ locals' = <<NoLocals>>
      /\ UNCHANGED <<prog, calls, bind, target, storage, load, dest>> /\ phase \in Emitting
  BY DEF emit_functions_end, semantic, Emitting
<1>2. calls = << >> /\ Tables /\ prog \in Programs
  BY <1>1, AtTheEnd DEF StorageInv, ScopeInv, TypeOK, SemanticTypeOK
<1>3. Walking'
  BY <1>1, <1>2, NoneAround DEF Walking
<1>4. \A p \in DOMAIN prog : Visited(p) => Function(prog, p) # 0
  BY <1>1, <1>2 DEF Tables, InOrder
<1>5. InOrder'
  BY <1>1, <1>4 DEF InOrder, Visited
<1>6. locals'[1] = NoLocals /\ Uniform(locals)' /\ Current' = 0
  BY <1>1 DEF Uniform, Current
<1>7. Root(prog, NoLocals, storage, 0)
  BY <1>4 DEF Root, NoLocals, Visited
<1> QED
  BY <1>1, <1>3, <1>5, <1>6, <1>7, StorageElsewhere DEF Emitting

LEMMA StorageEnd ==
  ASSUME ScopeInv, StorageInv, emit_end
  PROVE  StorageInv'
<1>1. /\ phase \in Emitting /\ AtNode /\ Node.k = "end" /\ calls # << >> /\ Return /\ pc' = pc + 1
      /\ UNCHANGED <<prog, phase, bind, target, storage, load, dest>>
      /\ locals' = CASE Caller \in {"while", "for"} -> SubSeq(locals, 1, Top - 1)
                     [] Caller = "fn" -> << >>
                     [] OTHER -> locals
  BY DEF emit_end, Emit, Step, Semantic, semantic
<1>2. prog \in Programs /\ pc \in Nat /\ Walking /\ Tables /\ \A p \in DOMAIN prog : p \in Nat
  BY <1>1, NodeFacts, ProgramFacts DEF StorageInv
<1>3. /\ Walking'
      /\ phase = "functions" /\ Caller # "fn" =>
           Len(calls) > 1 /\ calls' # << >> /\ prog[calls'[1]].k = "fn"
      /\ Caller # "fn" => Current' = Current
  BY <1>1, <1>2, WalkingOut
<1>4. InOrder'
  BY <1>1, <1>2, OrderStays DEF Tables
<1>5. Uniform(locals)' /\ (locals' # << >> => Root(prog, locals'[1], storage, Current'))
  <2>1. CASE Caller \in {"while", "for"}
    <3>1. locals \in Stacks(Storages) /\ Top = Len(locals)
      BY LocalsType DEF Top
    <3>2. Top > 1
      <4>1. /\ calls \in Seq(Positions) /\ Count(prog, calls, Opened) \in Nat
            /\ Top = Count(prog, calls, Opened) + (IF phase = "init" THEN 1 ELSE 0)
            /\ prog[calls[Len(calls)]].k \in Opened
        BY <1>1, <2>1, TopCounts DEF Opened, Caller
      <4> DEFINE c == SubSeq(calls, 1, Len(calls) - 1)
      <4>2. /\ Count(prog, c, Opened) = Count(prog, calls, Opened) - 1
            /\ c \in Seq(Positions) /\ c = calls'
        BY <4>1, <1>1, CountReturn, AllButLast DEF Return
      <4> HIDE DEF c
      <4>3. Count(prog, c, Opened) \in Nat
        BY <4>2, CountType
      <4>4. CASE phase = "init"
        BY <4>1, <4>2, <4>3, <4>4
      <4>5. CASE phase = "functions"
        <5>1. 1 \in DOMAIN c /\ prog[c[1]].k \in Opened
          BY <4>2, <4>5, <2>1, <1>3 DEF Opened
        <5>2. Count(prog, c, Opened) >= 1
          BY <4>2, <5>1, CountSome
        <5> QED
          BY <4>1, <4>2, <4>3, <4>5, <5>2
      <4> QED
        BY <4>4, <4>5, <1>1 DEF Emitting
    <3> DEFINE d == SubSeq(locals, 1, Len(locals) - 1)
    <3>3. d # << >> /\ d[1] = locals[1] /\ Uniform(d)
      BY <3>1, <3>2, <1>2, UniformPopped DEF Tables
    <3>4. locals' = d /\ locals # << >>
      <4>1. locals' = SubSeq(locals, 1, Top - 1)
        BY <2>1, <1>1
      <4> QED
        BY <4>1, <3>1, <3>2
    <3> HIDE DEF d
    <3>5. Uniform(locals)'
      BY <3>3, <3>4 DEF Uniform
    <3> QED
      BY <3>3, <3>4, <3>5, <2>1, <1>2, <1>3 DEF Tables
  <2>2. CASE Caller = "fn"
    <3>1. locals' = << >>
      BY <2>2, <1>1
    <3> QED
      BY <3>1 DEF Uniform
  <2>3. CASE Caller \notin {"while", "for", "fn"}
    <3>1. locals' = locals /\ Current' = Current
      BY <2>3, <1>1, <1>3
    <3> QED
      BY <3>1, <1>2 DEF Uniform, Tables
  <2> QED
    BY <2>1, <2>2, <2>3
<1> QED
  BY <1>1, <1>3, <1>4, <1>5, StorageElsewhere

LEMMA StorageCodegen ==
  ASSUME ScopeInv, RulesInv, StorageInv, CodegenNext
  PROVE  StorageInv'
<1>1. ASSUME phase' \notin Checking \cup Emitting \cup {"done"}
      PROVE  StorageInv'
  BY <1>1 DEF StorageInv, Checking
<1>2. CASE skip
  BY <1>2, StorageSkip
<1>3. CASE emit_functions_end
  BY <1>3, StorageFunctionsEnd
<1>4. CASE emit_init_end
  <2>1. Histories /\ phase' = "done" /\ UNCHANGED <<prog, bind, target, storage, load, dest>>
    BY <1>4 DEF emit_init_end, StorageInv, Emitting, semantic, generated
  <2>2. Histories'
    BY <2>1 DEF Histories, Followed
  <2> QED
    BY <2>1, <2>2 DEF StorageInv, Checking, Emitting
<1>5. CASE emit_function
  BY <1>5, StorageFunction
<1>6. CASE emit_param
  BY <1>6, StorageParam
<1>7. CASE emit_declaration
  BY <1>7, StorageDeclaration
<1>8. CASE bad_cast
  BY <1>1, <1>8 DEF bad_cast, Checking, Emitting
<1>9. CASE emit_assing
  <2>1. /\ AtToken /\ Node.k = "set" /\ Node.k \notin Openers /\ Step /\ Store
        /\ UNCHANGED <<calls, bind, target, storage, locals>>
    BY <1>9 DEF emit_assing, Live, Emit, AtToken, Semantic, semantic, Openers
  <2> QED
    BY <2>1, TokenPast, StorageToken DEF Store
<1>10. CASE emit_while_expr
  <2>1. /\ AtToken /\ Node.k = "step" /\ Node.k \notin Openers /\ Step /\ Store
        /\ UNCHANGED <<calls, bind, target, storage, locals>>
    BY <1>10 DEF emit_while_expr, Emit, AtToken, Semantic, semantic, Openers
  <2> QED
    BY <2>1, TokenPast, StorageToken DEF Store
<1>11. CASE emit_use
  <2>1. /\ AtToken /\ Node.k \notin Openers /\ Step /\ Load(locals)
        /\ UNCHANGED <<calls, bind, target, storage, locals, dest>>
    BY <1>11 DEF emit_use, Live, Emit, AtToken, Semantic, semantic, Openers
  <2> QED
    BY <2>1, TokenPast, StorageToken
<1>12. CASE emit_if
  <2>1. /\ AtToken /\ Node.k \in Openers /\ Step /\ Call /\ Load(locals)
        /\ UNCHANGED <<bind, target, storage, locals, dest>>
    BY <1>12 DEF emit_if, Live, Emit, AtToken, Semantic, semantic, Openers
  <2> QED
    BY <2>1, TokenInto, StorageToken
<1>13. CASE emit_else
  <2>1. /\ AtToken /\ Node.k \notin Openers /\ Step
        /\ UNCHANGED <<calls, bind, target, storage, locals, load, dest>>
    BY <1>13 DEF emit_else, Emit, AtToken, Semantic, semantic, Openers
  <2> QED
    BY <2>1, TokenPast, StorageToken
<1>14. CASE emit_whileloop
  <2>1. /\ AtToken /\ Node.k \in Openers /\ Step /\ Call /\ Load(Append(locals, NoLocals))
        /\ locals' = Append(locals, NoLocals) /\ UNCHANGED <<bind, target, storage, dest>>
    BY <1>14 DEF emit_whileloop, Live, Emit, AtToken, Semantic, semantic, Openers
  <2> QED
    BY <2>1, TokenInto, StorageToken
<1>15. CASE emit_for_loop
  BY <1>15, StorageFor
<1>16. CASE emit_jump
  <2>1. /\ AtToken /\ Node.k \notin Openers /\ Step
        /\ UNCHANGED <<calls, bind, target, storage, locals, load, dest>>
    BY <1>16 DEF emit_jump, Live, Emit, AtToken, Semantic, semantic, Openers
  <2> QED
    BY <2>1, TokenPast, StorageToken
<1>17. CASE emit_end
  BY <1>17, StorageEnd
<1> QED
  BY <1>2, <1>3, <1>4, <1>5, <1>6, <1>7, <1>8, <1>9, <1>10, <1>11, <1>12, <1>13, <1>14, <1>15,
     <1>16, <1>17 DEF CodegenNext

LEMMA StorageStutter ==
  ASSUME StorageInv, UNCHANGED vars
  PROVE  StorageInv'
<1>1. /\ UNCHANGED <<prog, phase, pc, calls, errors, bind, target, locals, storage, load, dest>>
  BY DEF vars, semantic, generated
<1>2. Current' = Current
  BY <1>1 DEF Current
<1>3. \A p : Visited(p)' <=> Visited(p)
  BY <1>1 DEF Visited
<1>4. /\ Walking => Walking'
      /\ InOrder => InOrder'
      /\ Followed => Followed'
      /\ Uniform(locals) => Uniform(locals)'
      /\ \A n : DistinctUpTo(n) => DistinctUpTo(n)'
  BY <1>1, <1>3 DEF Walking, InOrder, Followed, Uniform, DistinctUpTo
<1>5. (Tables => Tables') /\ (Histories => Histories')
  BY <1>1, <1>2, <1>4 DEF Tables, Histories
<1> QED
  BY <1>1, <1>3, <1>4, <1>5 DEF StorageInv

LEMMA StorageInit == Init => StorageInv
<1> SUFFICES ASSUME Init PROVE StorageInv
  OBVIOUS
<1>1. \A p \in DOMAIN prog : p \in Positions
  BY ProgramFacts DEF Init, SemanticInit
<1>2. \A p \in DOMAIN prog : ~Visited(p)
  BY <1>1 DEF Init, Visited
<1> QED
  BY <1>2 DEF Init, SemanticInit, StorageInv, Checking, Emitting

-----------------------------------------------------------------------------
(* Storage: theorems *)

\* What the outermost of the scopes that emit_function, emit_init and the loops open knows
\* is the storage of the variable of that name, whatever was emitted before: that is what
\* get_or_create_alloca keeps up by entering new allocas there.
THEOREM StorageInvariant == Spec => []StorageInv
<1>1. ScopeInv /\ RulesInv /\ StorageInv /\ [Next]_vars => StorageInv'
  BY StorageChecked, StorageCodegen, StorageStutter DEF Next
<1> QED
  BY <1>1, StorageInit, ScopeInvariant, RulesInvariant, PTL DEF Spec

\* Codegen looks every name up again, in scopes of its own (variable_ref, emit_assing), and
\* reaches the declaration that the semantic pass bound it to, but for the cases that
\* StorageFollowsBinding names.
THEOREM StorageIsFollowed == Spec => []StorageFollowsBinding
<1>1. StorageInv => StorageFollowsBinding
  BY DEF StorageInv, StorageFollowsBinding, Histories, Followed, Reached, Reaches
<1> QED
  BY <1>1, StorageInvariant, PTL

\* get_or_create_alloca makes one alloca for each local name of a function, and never takes
\* that of another name or function.
THEOREM VariablesByName == Spec => []OneVariablePerName
<1>1. StorageInv => OneVariablePerName
  <2> SUFFICES ASSUME StorageInv, phase = "done",
                      NEW d \in DOMAIN prog, NEW e \in DOMAIN prog,
                      IsLocal(prog, d), storage[d] # Unvisited, ~Doubled(prog, d),
                      IsLocal(prog, e), storage[e] # Unvisited
               PROVE  storage[d] = storage[e] <=> Akin(prog, d, e)
    BY DEF OneVariablePerName, Akin
  <2>1. Sharing(prog, storage) /\ Origin(prog, storage, d) /\ Origin(prog, storage, e)
    BY DEF StorageInv, Histories, Origins
  <2>2. PICK a \in DOMAIN prog :
          /\ Declares(prog, a, prog[d].lhs.name) /\ Function(prog, a) = Function(prog, d)
          /\ storage[d] = Alloca(a)
    BY <2>1 DEF Origin, IsLocal
  <2>3. ASSUME storage[d] = storage[e] PROVE Akin(prog, d, e)
    <3>1. storage[e] # Global(prog[e].lhs.name)
      BY <2>2, <2>3 DEF Alloca, Global
    <3>2. PICK b \in DOMAIN prog :
            /\ Declares(prog, b, prog[e].lhs.name) /\ Function(prog, b) = Function(prog, e)
            /\ storage[e] = Alloca(b)
      BY <2>1, <3>1 DEF Origin, IsLocal
    <3>3. a = b
      BY <2>2, <2>3, <3>2 DEF Alloca
    <3> QED
      BY <2>2, <3>2, <3>3 DEF Akin, Declares
  <2>4. Akin(prog, d, e) => storage[d] = storage[e]
    BY <2>1 DEF Sharing
  <2> QED
    BY <2>3, <2>4
<1> QED
  BY <1>1, StorageInvariant, PTL

=============================================================================
