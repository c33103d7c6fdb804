------------------------- MODULE ModuleImportProofs -------------------------
(***************************************************************************)
(* Proofs about ModuleImport, for every set of files, every lookup and      *)
(* every program.  ImportInv is inductive, and the safety properties that   *)
(* do not speak of reachability in the import graph follow from it.         *)
(* GraphInv adds the graph: HIRGen exhausts the stack on the cyclic graphs  *)
(* only and lets none of them through, and codegen puts out exactly the     *)
(* modules in reach, imports first.                                         *)
(***************************************************************************)
EXTENDS ModuleImport, TLAPS, FiniteSetTheorems

-----------------------------------------------------------------------------
(* The call stack, frame by frame *)

LEMMA FrameType == ASSUME NEW u \in Units, NEW step \in {"begin", "first", "again"}
                   PROVE  Frame(u, step) \in Frames
  BY DEF Frame, Frames

\* Advance changes the index of the top frame and nothing else.
LEMMA AdvanceFacts ==
  ASSUME stack \in Seq(Frames), stack # << >>
  PROVE  /\ Advance \in Seq(Frames) /\ Advance # << >>
         /\ Len(Advance) = Len(stack)
         /\ \A k \in 1 .. Len(stack) : /\ Advance[k].unit = stack[k].unit
                                       /\ Advance[k].step = stack[k].step
                                       /\ k # 1 => Advance[k] = stack[k]
         /\ Advance[1].i = stack[1].i + 1
<1> DEFINE t == [stack[1] EXCEPT !.i = @ + 1]
<1>1. stack[1] \in Frames /\ 1 \in 1 .. Len(stack)
  OBVIOUS
<1>2. t \in Frames /\ t.unit = stack[1].unit /\ t.step = stack[1].step
        /\ t.i = stack[1].i + 1
  BY <1>1, SMTT(30) DEF Frames
<1>3. Advance = [stack EXCEPT ![1] = t]
  BY DEF Advance
<1> HIDE DEF t
<1> QED
  BY <1>1, <1>2, <1>3

LEMMA PushFacts ==
  ASSUME NEW s \in Seq(Frames), NEW x \in Frames
  PROVE  /\ Push(x, s) \in Seq(Frames) /\ Push(x, s) # << >>
         /\ Len(Push(x, s)) = Len(s) + 1 /\ DOMAIN Push(x, s) = 1 .. Len(s) + 1
         /\ Push(x, s)[1] = x
         /\ \A k \in 2 .. Len(s) + 1 : Push(x, s)[k] = s[k - 1]
         /\ \A k \in 1 .. Len(s) : Push(x, s)[k + 1] = s[k]
  BY DEF Push

LEMMA TailFacts ==
  ASSUME NEW s \in Seq(Frames), s # << >>
  PROVE  /\ Tail(s) \in Seq(Frames)
         /\ Len(Tail(s)) = Len(s) - 1
         /\ \A k \in 1 .. Len(s) - 1 : Tail(s)[k] = s[k + 1]
  OBVIOUS

\* The same for semantic_check, which moves the top frame to its first statement.
LEMMA BeginFacts ==
  ASSUME stack \in Seq(Frames), stack # << >>,
         NEW s, s = [stack EXCEPT ![1].step = "first"]
  PROVE  /\ s \in Seq(Frames) /\ s # << >> /\ Len(s) = Len(stack)
         /\ \A k \in 1 .. Len(stack) : /\ s[k].unit = stack[k].unit
                                       /\ s[k].i = stack[k].i
                                       /\ k # 1 => s[k] = stack[k]
         /\ s[1].step = "first"
<1> DEFINE t == [stack[1] EXCEPT !.step = "first"]
<1>1. stack[1] \in Frames /\ 1 \in 1 .. Len(stack)
  OBVIOUS
<1>2. t \in Frames /\ t.unit = stack[1].unit /\ t.step = "first" /\ t.i = stack[1].i
  BY <1>1 DEF Frames
<1>3. s = [stack EXCEPT ![1] = t]
  OBVIOUS
<1> HIDE DEF t
<1> QED
  BY <1>1, <1>2, <1>3

\* What the top frame is.
LEMMA TopFacts ==
  ASSUME stack \in Seq(Frames), stack # << >>
  PROVE  /\ top = stack[1] /\ 1 \in DOMAIN stack /\ DOMAIN stack = 1 .. Len(stack)
         /\ top \in Frames /\ top.unit \in Units /\ top.i \in Nat \ {0}
         /\ top.step \in {"begin", "first", "again"}
         /\ Len(stack) \in Nat \ {0}
         /\ \A k \in DOMAIN stack : stack[k] \in Frames /\ stack[k].unit \in Units
<1>1. /\ top = stack[1] /\ 1 \in DOMAIN stack /\ top \in Frames
      /\ DOMAIN stack = 1 .. Len(stack) /\ Len(stack) \in Nat \ {0}
  BY DEF top
<1>2. \A k \in DOMAIN stack : stack[k] \in Frames
  OBVIOUS
<1>3. \A x \in Frames : x.unit \in Units
  BY DEF Frames
<1> QED
  BY <1>1, <1>2, <1>3 DEF Frames

-----------------------------------------------------------------------------
(* Units and requests *)

LEMMA SeqExcept ==
  ASSUME NEW S, NEW s \in Seq(S), NEW i \in DOMAIN s, NEW x \in S
  PROVE  [s EXCEPT ![i] = x] \in Seq(S) /\ Len([s EXCEPT ![i] = x]) = Len(s)
<1>1. DOMAIN s = 1 .. Len(s) /\ Len(s) \in Nat /\ \A j \in 1 .. Len(s) : s[j] \in S
  OBVIOUS
<1> DEFINE t == [s EXCEPT ![i] = x]
<1>2. t = [j \in 1 .. Len(s) |-> IF j = i THEN x ELSE s[j]]
  BY <1>1
<1>3. \A j \in 1 .. Len(s) : t[j] \in S
  BY <1>1, <1>2
<1>4. DOMAIN t = 1 .. Len(s)
  BY <1>2
<1> HIDE DEF t
<1>5. t \in Seq(S) /\ Len(t) = Len(s)
  BY <1>1, <1>2, <1>3, <1>4
<1> QED
  BY <1>5 DEF t

LEMMA ModuleExcept ==
  \A r \in Module : /\ [r EXCEPT !.state = "MOD_LOADING"] \in Module
                    /\ [r EXCEPT !.semantic_done = TRUE] \in Module
  BY DEF Module

LEMMA FileOfType == \A u \in Units : FileOf(u) \in Files
  BY ImportConstants DEF FileOf, Units

\* The statement an import frame is at, and the file it names.
LEMMA RequestFacts ==
  ASSUME TypeOK, stack # << >>, top.i <= Len(path[top.unit])
  PROVE  /\ top.i \in DOMAIN path[top.unit]
         /\ path[top.unit][top.i] \in Names \cup Files
         /\ resolve(path[top.unit][top.i]) \in Files \cup {NoFile}
<1>1. stack \in Seq(Frames) /\ path \in [Units -> Seq(Names \cup Files)]
  BY DEF TypeOK
<1>2. top.unit \in Units /\ top.i \in Nat \ {0}
  BY <1>1, TopFacts
<1>3. path[top.unit] \in Seq(Names \cup Files)
  BY <1>1, <1>2
<1>4. /\ top.i \in DOMAIN path[top.unit]
      /\ path[top.unit][top.i] \in Names \cup Files
  BY <1>2, <1>3
<1> QED
  BY <1>4, ImportConstants DEF resolve

\* The top frame is at an import or at the body, never at both.
LEMMA ImportNotBody ==
  ASSUME ImportInv, NEW ph, NEW ph2, AtImport(ph) PROVE ~AtBody(ph2)
<1>1. /\ stack \in Seq(Frames) /\ stack # << >>
      /\ path \in [Units -> Seq(Names \cup Files)]
  BY DEF ImportInv, TypeOK, StackInv
<1>2. top.i \in Nat /\ Len(path[top.unit]) \in Nat
  BY <1>1, TopFacts
<1> QED
  BY <1>2 DEF AtImport, AtBody

\* The program never changes, and with it what depends on it alone.
LEMMA TextFacts ==
  ASSUME text' = text
  PROVE  \A u : (HasFn(u)' <=> HasFn(u)) /\ Fault(u)' = Fault(u)
  BY DEF HasFn, Body, Fault, FileOf

LEMMA ErrorType ==
  ASSUME NEW u \in Units, NEW kind \in ErrorKinds
  PROVE  Error(kind, u) \in [kind : ErrorKinds, at : Files, named : Files]
  BY FileOfType, ImportConstants DEF Error

LEMMA BodyErrorsType ==
  ASSUME NEW u \in Units
  PROVE  /\ BodyErrors(u) \subseteq [kind : ErrorKinds, at : Files, named : Files]
         /\ \A e \in BodyErrors(u) : e.kind # "redefinition"
<1>1. /\ Error("at_sym", u) \in [kind : ErrorKinds, at : Files, named : Files]
      /\ Error("type", u) \in [kind : ErrorKinds, at : Files, named : Files]
  BY ErrorType DEF ErrorKinds
<1>2. Error("at_sym", u).kind = "at_sym" /\ Error("type", u).kind = "type"
  BY DEF Error
<1> QED
  BY <1>1, <1>2 DEF BodyErrors

\* Where codegen and HIRGen go down: into units whose nodes are resolved.
LEMMA ResolvedTop ==
  ASSUME ImportInv, ~isError, phase # "semantic"
  PROVE  Resolved(top.unit)
<1>1. stack \in Seq(Frames) /\ stack # << >>
  BY DEF ImportInv, TypeOK, StackInv
<1>2. top.unit \in Units /\ HasTree(top.unit)
  BY <1>1, TopFacts DEF ImportInv, StackInv
<1> QED
  BY <1>2 DEF ImportInv, PathInv

-----------------------------------------------------------------------------
(* Type correctness of a step *)

LEMMA TypeInit == Init => TypeOK
<1> SUFFICES ASSUME Init PROVE TypeOK
  OBVIOUS
<1>1. text \in [Files -> Texts] /\ MainFile \in Files
  BY ImportConstants DEF Init
<1>2. text[MainFile].imports \in Seq(Names)
  BY <1>1 DEF Texts
<1>3. path \in [Units -> Seq(Names \cup Files)]
  BY <1>2 DEF Init
<1>4. stack \in Seq(Frames)
  BY FrameType DEF Init, Units
<1>5. g_modules \in [Files -> Module] /\ hirMod \in [Files -> {"absent", "null", "tree"}]
  BY DEF Init, Module
<1>6. fns \subseteq Files /\ errors = {} /\ ir_out \in Seq(Files)
  BY DEF Init
<1>7. phase = "semantic" /\ crash = "no" /\ is_glob_var_allowed \in BOOLEAN
  BY DEF Init
<1> QED
  BY <1>1, <1>3, <1>4, <1>5, <1>6, <1>7 DEF TypeOK

LEMMA TypeStep == ImportInv /\ [Next]_vars => TypeOK'
<1> SUFFICES ASSUME ImportInv, [Next]_vars PROVE TypeOK'
  OBVIOUS
<1> USE DEF TypeOK
<1>1. TypeOK /\ stack \in Seq(Frames) /\ stack # << >>
  BY DEF ImportInv, StackInv
<1>2. top \in Frames /\ top.unit \in Units /\ FileOf(top.unit) \in Files
  BY <1>1, TopFacts, FileOfType
<1>3. Advance \in Seq(Frames) /\ Tail(stack) \in Seq(Frames)
  BY <1>1, AdvanceFacts, TailFacts
<1>4. \A x \in Frames : Push(x, Advance) \in Seq(Frames)
                       /\ Push(x, Tail(stack)) \in Seq(Frames)
  BY <1>3, PushFacts
<1>5. CASE semantic_check
  <2>1. stack' \in Seq(Frames)
    BY <1>1, <1>5, BeginFacts DEF semantic_check
  <2>2. Error("redefinition", top.unit) \in [kind : ErrorKinds, at : Files, named : Files]
    BY <1>2, ErrorType DEF ErrorKinds
  <2> QED
    BY <1>1, <1>2, <1>5, <2>1, <2>2 DEF semantic_check
<1>6. CASE import_fails
  <2>1. Error("import", top.unit) \in [kind : ErrorKinds, at : Files, named : Files]
    BY <1>2, ErrorType DEF ErrorKinds
  <2>2. g_modules' \in [Files -> Module]
    <3> DEFINE f == resolve(path[top.unit][top.i])
    <3>1. f \in Files \cup {NoFile}
      BY <1>1, <1>6, RequestFacts DEF import_fails, AtImport
    <3>2. f # NoFile => [g_modules EXCEPT ![f].state = "MOD_LOADING"] \in [Files -> Module]
      <4> HIDE DEF f
      <4> QED
        BY <1>1, <3>1, ModuleExcept
    <3> QED
      BY <1>1, <1>6, <3>1, <3>2 DEF import_fails
  <2> QED
    BY <1>1, <1>3, <1>6, <2>1, <2>2 DEF import_fails
<1>7. CASE import_cached
  <2> DEFINE f == resolve(path[top.unit][top.i])
  <2>0. top.i \in DOMAIN path[top.unit]
    BY <1>1, <1>7, RequestFacts DEF import_cached, AtImport
  <2>1. f \in Files
    BY <1>1, <1>7, RequestFacts DEF import_cached, AtImport, cached
  <2>2. path' = [path EXCEPT ![top.unit][top.i] = f]
    BY <1>7 DEF import_cached
  <2>3. path' \in [Units -> Seq(Names \cup Files)]
    <3>1. path[top.unit] \in Seq(Names \cup Files)
      BY <1>1, <1>2
    <3>2. [path[top.unit] EXCEPT ![top.i] = f] \in Seq(Names \cup Files)
      BY <3>1, <2>1, <2>0, SeqExcept
    <3>3. path' = [path EXCEPT ![top.unit] = [path[top.unit] EXCEPT ![top.i] = f]]
      BY <2>2
    <3> HIDE DEF f
    <3> QED
      BY <1>1, <1>2, <3>2, <3>3
  <2> QED
    BY <1>1, <1>3, <1>7, <2>3 DEF import_cached
<1>8. CASE import_new
  <2> DEFINE f == resolve(path[top.unit][top.i])
             tree == ~Empty(text[f]) /\ Fault(f) # "syntax"
             q == [path EXCEPT ![top.unit][top.i] = f]
  <2>0. top.i \in DOMAIN path[top.unit]
    BY <1>1, <1>8, RequestFacts DEF import_new, AtImport
  <2>1. f \in Files
    BY <1>1, <1>8, RequestFacts DEF import_new, AtImport
  <2>2. path' = [q EXCEPT ![f] = IF tree THEN text[f].imports ELSE << >>]
    BY <1>8 DEF import_new
  <2>3. q \in [Units -> Seq(Names \cup Files)]
    <3>1. path[top.unit] \in Seq(Names \cup Files)
      BY <1>1, <1>2
    <3>2. [path[top.unit] EXCEPT ![top.i] = f] \in Seq(Names \cup Files)
      BY <3>1, <2>1, <2>0, SeqExcept
    <3>3. q = [path EXCEPT ![top.unit] = [path[top.unit] EXCEPT ![top.i] = f]]
      OBVIOUS
    <3> HIDE DEF f
    <3> QED
      BY <1>1, <1>2, <3>2, <3>3
  <2>4. text[f].imports \in Seq(Names)
    BY <1>1, <2>1 DEF Texts
  <2>5. path' \in [Units -> Seq(Names \cup Files)]
    <3> HIDE DEF q, f, tree
    <3> QED
      BY <2>1, <2>2, <2>3, <2>4 DEF Units
  <2>6. g_modules' \in [Files -> Module]
    <3>1. parsed_without_error(f) \in BOOLEAN
      BY DEF parsed_without_error
    <3> DEFINE parsed == parsed_without_error(f)
               r == [state |-> "MOD_LOADED", ast |-> IF tree THEN "tree" ELSE "null",
                     parsed |-> parsed, semantic_done |-> parsed /\ ~tree]
    <3>2. g_modules' = [g_modules EXCEPT ![f] = r]
      BY <1>8 DEF import_new
    <3>3. r \in Module
      <4> HIDE DEF tree, parsed
      <4> QED
        BY <3>1 DEF Module, parsed
    <3> HIDE DEF r
    <3> QED
      BY <1>1, <2>1, <3>2, <3>3
  <2>7. stack' \in Seq(Frames)
    <3>1. Frame(f, "begin") \in Frames
      BY <2>1, FrameType DEF Units
    <3> QED
      BY <1>3, <1>4, <1>8, <3>1 DEF import_new
  <2>8. errors' \subseteq [kind : ErrorKinds, at : Files, named : Files]
    BY <1>1, <1>8, <2>1 DEF import_new, ErrorKinds
  <2> QED
    BY <1>1, <1>8, <2>5, <2>6, <2>7, <2>8 DEF import_new
<1>9. CASE check_body
  <2>1. /\ Frame(ROOT, "first") \in Frames
        /\ Frame(top.unit, "again") \in Frames
    BY <1>2, FrameType DEF Units
  <2>2. stack' \in Seq(Frames)
    <3>1. <<Frame(ROOT, "first")>> \in Seq(Frames)
      BY <2>1
    <3>2. Push(Frame(top.unit, "again"), Tail(stack)) \in Seq(Frames)
      BY <1>4, <2>1
    <3> QED
      BY <1>3, <1>9, <3>1, <3>2 DEF check_body
  <2>3. errors' \subseteq [kind : ErrorKinds, at : Files, named : Files]
    BY <1>1, <1>2, <1>9, BodyErrorsType DEF check_body
  <2>4. g_modules' \in [Files -> Module]
    <3>1. top.unit # ROOT =>
            [g_modules EXCEPT ![top.unit].semantic_done = TRUE] \in [Files -> Module]
      BY <1>1, <1>2, ModuleExcept DEF Units
    <3> QED
      BY <1>1, <1>9, <3>1 DEF check_body
  <2>5. is_glob_var_allowed' \in BOOLEAN
    BY <1>9 DEF check_body
  <2> QED
    BY <1>1, <1>9, <2>2, <2>3, <2>4, <2>5 DEF check_body
<1>10. CASE generate_import
  <2> DEFINE f == path[top.unit][top.i]
  <2>1. stack' \in Seq(Frames)
    <3>1. CASE f \in Files /\ generate(f)
      <4>1. Frame(f, "first") \in Frames
        BY <3>1, FrameType DEF Units
      <4> QED
        BY <1>1, <1>4, <3>1, <4>1 DEF generate
    <3> QED
      BY <1>1, <1>3, <1>10, <3>1 DEF generate_import
  <2>2. hirMod' \in [Files -> {"absent", "null", "tree"}]
    BY <1>1, <1>10 DEF generate_import, loadOrCreateMod
  <2>3. phase' \in {"semantic", "HIRGen", "codegen"} \cup Ended
          /\ crash' \in {"no", "no_module", "stack", "bad_root"}
    BY <1>1, <1>10 DEF generate_import, generate, Crash, Ended
  <2> QED
    BY <1>1, <1>10, <2>1, <2>2, <2>3 DEF generate_import
<1>11. CASE generate_body
  <2>1. stack' \in Seq(Frames)
    <3>1. <<Frame(ROOT, "first")>> \in Seq(Frames)
      BY FrameType DEF Units
    <3> QED
      BY <1>1, <1>3, <1>11, <3>1 DEF generate_body
  <2>2. hirMod' \in [Files -> {"absent", "null", "tree"}]
    BY <1>1, <1>2, <1>11 DEF generate_body, loadOrCreateMod, Units
  <2>3. errors' \subseteq [kind : ErrorKinds, at : Files, named : Files]
    BY <1>1, <1>2, <1>11, ErrorType DEF generate_body, ErrorKinds
  <2>4. phase' \in {"semantic", "HIRGen", "codegen"} \cup Ended
    BY <1>1, <1>11 DEF generate_body, Ended
  <2> QED
    BY <1>1, <1>11, <2>1, <2>2, <2>3, <2>4 DEF generate_body
<1>12. CASE codegen_import
  <2> DEFINE f == path[top.unit][top.i]
  <2>1. ~isError /\ top.i \in DOMAIN path[top.unit]
    BY <1>1, <1>12, RequestFacts DEF codegen_import, AtImport, ImportInv, CodegenInv
  <2>2. f \in Files
    BY <1>12, <2>1, ResolvedTop DEF codegen_import, AtImport, Resolved
  <2>3. stack' \in Seq(Frames)
    BY <1>3, <1>4, <1>12, <2>2, FrameType DEF codegen_import, Units
  <2> QED
    BY <1>1, <1>12, <2>3 DEF codegen_import
<1>13. CASE codegen_lone
  BY <1>1, <1>3, <1>13 DEF codegen_lone, Crash, Ended
<1>14. CASE codegen_end
  <2>1. top.unit # ROOT => Append(ir_out, top.unit) \in Seq(Files)
    BY <1>1, <1>2 DEF Units
  <2>2. stack' \in Seq(Frames) /\ ir_out' \in Seq(Files)
    BY <1>1, <1>3, <1>14, <2>1 DEF codegen_end
  <2>3. phase' \in {"semantic", "HIRGen", "codegen"} \cup Ended
    BY <1>1, <1>14 DEF codegen_end, Ended
  <2> QED
    BY <1>1, <1>14, <2>2, <2>3 DEF codegen_end
<1>15. CASE UNCHANGED vars
  BY <1>1, <1>15 DEF vars
<1> QED
  BY <1>5, <1>6, <1>7, <1>8, <1>9, <1>10, <1>11, <1>12, <1>13, <1>14, <1>15
     DEF Next, Step, Finished

-----------------------------------------------------------------------------
(* What a step leaves alone *)

\* A module is parsed once: handle_import only parses a file that has no entry, and
\* such a file is not on the stack.
LEMMA NewIsAbsent ==
  ASSUME ImportInv, import_new
  PROVE  LET f == resolve(path[top.unit][top.i]) IN
         /\ f \in Files
         /\ g_modules[f].state = "absent" /\ g_modules[f].ast = "null"
         /\ ~HasTree(f) /\ f # ROOT
<1> DEFINE f == resolve(path[top.unit][top.i])
<1>1. TypeOK /\ stack # << >> /\ TableInv
  BY DEF ImportInv, StackInv
<1>2. f \in Files
  BY <1>1, RequestFacts DEF import_new, AtImport
<1>3. g_modules[f].state \notin {"MOD_LOADING", "MOD_LOADED"}
  BY <1>2, ImportConstants DEF import_new, cached
<1>4. g_modules[f] \in Module
  BY <1>1, <1>2 DEF TypeOK
<1>5. g_modules[f].state = "absent"
  BY <1>3, <1>4 DEF Module
<1>6. g_modules[f].ast = "null"
  BY <1>1, <1>2, <1>5 DEF TableInv
<1>7. f # ROOT
  BY <1>2, ImportConstants
<1> QED
  BY <1>2, <1>5, <1>6, <1>7 DEF HasTree

\* What the new module's entry becomes.
LEMMA NewEntry ==
  ASSUME ImportInv, import_new
  PROVE  LET f == resolve(path[top.unit][top.i]) IN
         /\ g_modules'[f].state = "MOD_LOADED"
         /\ g_modules'[f].parsed = parsed_without_error(f)
         /\ g_modules'[f].ast = IF ~Empty(text[f]) /\ Fault(f) # "syntax"
                                THEN "tree" ELSE "null"
         /\ g_modules'[f].semantic_done =
              (g_modules'[f].parsed /\ g_modules'[f].ast = "null")
         /\ \A h \in Files : h # f => g_modules'[h] = g_modules[h]
<1> DEFINE f == resolve(path[top.unit][top.i])
           tree == ~Empty(text[f]) /\ Fault(f) # "syntax"
           parsed == parsed_without_error(f)
           r == [state |-> "MOD_LOADED", ast |-> IF tree THEN "tree" ELSE "null",
                 parsed |-> parsed, semantic_done |-> parsed /\ ~tree]
<1>1. f \in Files /\ g_modules \in [Files -> Module]
  BY NewIsAbsent DEF ImportInv, TypeOK
<1>2. g_modules' = [g_modules EXCEPT ![f] = r]
  BY DEF import_new
<1>3. g_modules'[f] = r /\ \A h \in Files : h # f => g_modules'[h] = g_modules[h]
  <2> HIDE DEF r, f
  <2> QED
    BY <1>1, <1>2
<1>4. r.semantic_done = (parsed /\ r.ast = "null")
  <2> HIDE DEF tree, parsed
  <2> QED
    BY Zenon
<1> QED
  BY <1>3, <1>4

\* HasTree in the next state, of a unit named in this one.
StaysTree(u) == u = ROOT \/ g_modules'[u].ast = "tree"

LEMMA Monotone ==
  ASSUME ImportInv, [Next]_vars
  PROVE  /\ text' = text /\ errors \subseteq errors'
         /\ \A u \in Units : HasTree(u) => StaysTree(u)
         /\ \A f \in Files : g_modules[f].state = "MOD_LOADED" =>
                              g_modules'[f].state = "MOD_LOADED"
<1>1. g_modules \in [Files -> Module]
  BY DEF ImportInv, TypeOK
<1>2. text' = text /\ errors \subseteq errors'
  BY DEF Next, Step, Finished, vars, semantic_check, import_fails, import_cached, import_new,
         check_body, generate_import, generate_body, codegen_import, codegen_lone,
         codegen_end
<1>3. CASE UNCHANGED g_modules
  BY <1>2, <1>3 DEF HasTree, StaysTree
<1>4. CASE import_fails
  BY <1>1, <1>2, <1>4 DEF import_fails, HasTree, StaysTree, Units, Module
<1>5. CASE import_new
  <2> DEFINE f == resolve(path[top.unit][top.i])
  <2>1. /\ f \in Files /\ ~HasTree(f) /\ g_modules'[f].state = "MOD_LOADED"
        /\ \A h \in Files : h # f => g_modules'[h] = g_modules[h]
    BY <1>5, NewIsAbsent, NewEntry
  <2> HIDE DEF f
  <2> QED
    BY <1>2, <2>1 DEF HasTree, StaysTree, Units
<1>6. CASE check_body
  BY <1>1, <1>2, <1>6 DEF check_body, HasTree, StaysTree, Units, Module
<1> QED
  BY <1>3, <1>4, <1>5, <1>6
     DEF Next, Step, Finished, vars, semantic_check, import_cached, generate_import,
         generate_body, codegen_import, codegen_lone, codegen_end

-----------------------------------------------------------------------------
(* The shape of the stack *)

LEMMA StackInit == Init => StackInv
  BY DEF Init, StackInv, HasTree, Frame

LEMMA StackAdvances ==
  ASSUME ImportInv, [Next]_vars, stack' = Advance, top.step # "begin" \/ phase' = phase
  PROVE  StackInv'
<1>1. stack \in Seq(Frames) /\ stack # << >> /\ StackInv
  BY DEF ImportInv, TypeOK, StackInv
<1>2. top = stack[1] /\ \A k \in DOMAIN stack : stack[k].unit \in Units
  BY <1>1, TopFacts
<1>3. DOMAIN stack' = DOMAIN stack /\ DOMAIN stack = 1 .. Len(stack)
        /\ Len(stack') = Len(stack) /\ stack' # << >>
  BY <1>1, AdvanceFacts
<1>4. \A k \in DOMAIN stack : stack'[k].unit = stack[k].unit
                             /\ stack'[k].step = stack[k].step
  BY <1>1, <1>3, AdvanceFacts
<1>5. \A k \in DOMAIN stack : StaysTree(stack[k].unit)
  BY <1>1, <1>2, <1>4, Monotone DEF StackInv, HasTree, StaysTree
<1> QED
  BY <1>1, <1>2, <1>3, <1>4, <1>5 DEF StackInv, HasTree, StaysTree

LEMMA StackPushes ==
  ASSUME ImportInv, [Next]_vars, top.step # "begin",
         NEW f \in Files, NEW step \in {"begin", "first", "again"},
         NEW s, s = Advance \/ (s = Tail(stack) /\ top.unit # ROOT),
         stack' = Push(Frame(f, step), s),
         StaysTree(f), step = "begin" => phase' = "semantic"
  PROVE  StackInv'
<1>1. stack \in Seq(Frames) /\ stack # << >> /\ StackInv
  BY DEF ImportInv, TypeOK, StackInv
<1>2. /\ top = stack[1] /\ 1 \in DOMAIN stack /\ DOMAIN stack = 1 .. Len(stack)
      /\ Len(stack) \in Nat \ {0}
      /\ \A k \in DOMAIN stack : stack[k].unit \in Units
  BY <1>1, TopFacts
<1>3. \A k \in DOMAIN stack : /\ StaysTree(stack[k].unit)
                              /\ stack[k].unit = ROOT <=> k = Len(stack)
                              /\ stack[k].step # "begin"
  <2>1. \A k \in DOMAIN stack : \A u \in Units :
          u = stack[k].unit => StaysTree(u)
    BY <1>1, <1>2, Monotone DEF StackInv
  <2>2. \A k \in DOMAIN stack : stack[k].unit = ROOT <=> k = Len(stack)
    BY <1>1 DEF StackInv
  <2>3. \A k \in DOMAIN stack : stack[k].step # "begin"
    BY <1>1, <1>2 DEF StackInv
  <2>4. \A k \in DOMAIN stack :
          stack[k].unit = ROOT \/ g_modules'[stack[k].unit].ast = "tree"
    BY <1>2, <2>1 DEF HasTree, StaysTree
  <2> QED
    BY <2>2, <2>3, <2>4 DEF HasTree, StaysTree
<1>4. \E d \in {0, 1} :
        /\ s \in Seq(Frames) /\ Len(s) = Len(stack) - d
        /\ \A k \in 1 .. Len(s) : /\ s[k].unit = stack[k + d].unit
                                  /\ s[k].step = stack[k + d].step
  <2>1. CASE s = Advance
    <3>1. /\ s \in Seq(Frames) /\ Len(s) = Len(stack) - 0
          /\ \A k \in 1 .. Len(s) : k + 0 = k /\ s[k].unit = stack[k].unit
                                    /\ s[k].step = stack[k].step
      BY <1>1, <1>2, <2>1, AdvanceFacts
    <3>2. \A k \in 1 .. Len(s) : /\ s[k].unit = stack[k + 0].unit
                                 /\ s[k].step = stack[k + 0].step
      BY <3>1
    <3> QED
      BY <3>1, <3>2
  <2>2. CASE s = Tail(stack) /\ top.unit # ROOT
    BY <1>1, <1>2, <2>2, TailFacts
  <2> QED
    BY <2>1, <2>2
<1>5. Frame(f, step) \in Frames
  BY FrameType DEF Units
<1>6. PICK d \in {0, 1} :
        /\ s \in Seq(Frames) /\ Len(s) = Len(stack) - d
        /\ \A k \in 1 .. Len(s) : /\ s[k].unit = stack[k + d].unit
                                  /\ s[k].step = stack[k + d].step
  BY <1>4
<1>7. /\ stack' # << >> /\ DOMAIN stack' = 1 .. Len(s) + 1 /\ Len(stack') = Len(s) + 1
      /\ stack'[1] = Frame(f, step)
      /\ \A k \in 2 .. Len(s) + 1 : stack'[k] = s[k - 1]
  BY <1>5, <1>6, PushFacts
<1>8. Len(s) # 0
  <2>1. CASE s = Advance
    BY <1>1, <1>2, <2>1, AdvanceFacts
  <2>2. CASE s = Tail(stack) /\ top.unit # ROOT
    <3>1. Len(stack) # 1
      BY <1>2, <1>3, <2>2
    <3> QED
      BY <1>1, <1>2, <2>2, <3>1, TailFacts
  <2> QED
    BY <2>1, <2>2
<1>9. ASSUME NEW m \in 2 .. Len(s) + 1
      PROVE  /\ StaysTree(stack'[m].unit) /\ stack'[m].step # "begin"
             /\ stack'[m].unit = ROOT <=> m = Len(stack')
  <2>1. m - 1 \in 1 .. Len(s) /\ m - 1 + d \in DOMAIN stack
    BY <1>2, <1>6
  <2>2. stack'[m].unit = stack[m - 1 + d].unit /\ stack'[m].step = stack[m - 1 + d].step
    BY <1>6, <1>7, <2>1
  <2>3. m - 1 + d = Len(stack) <=> m = Len(stack')
    BY <1>2, <1>6, <1>7
  <2> QED
    BY <1>3, <2>1, <2>2, <2>3 DEF StaysTree
<1>10. /\ StaysTree(stack'[1].unit) /\ stack'[1].unit # ROOT /\ Len(stack') # 1
       /\ stack'[1].step = "begin" => phase' = "semantic"
  BY <1>6, <1>7, <1>8, ImportConstants, SMTT(30) DEF Frame, StaysTree
<1>11. /\ stack' # << >>
       /\ \A k \in DOMAIN stack' :
            /\ stack'[k].unit = ROOT \/ g_modules'[stack'[k].unit].ast = "tree"
            /\ stack'[k].unit = ROOT <=> k = Len(stack')
            /\ stack'[k].step = "begin" => k = 1 /\ phase' = "semantic"
  <2> SUFFICES ASSUME NEW k \in DOMAIN stack'
      PROVE  /\ stack'[k].unit = ROOT \/ g_modules'[stack'[k].unit].ast = "tree"
             /\ stack'[k].unit = ROOT <=> k = Len(stack')
             /\ stack'[k].step = "begin" => k = 1 /\ phase' = "semantic"
    BY <1>7
  <2>1. k = 1 \/ k \in 2 .. Len(s) + 1
    BY <1>6, <1>7
  <2> QED
    BY <1>9, <1>10, <2>1 DEF HasTree, StaysTree
<1> QED
  BY <1>11 DEF StackInv, HasTree, StaysTree

LEMMA StackPops ==
  ASSUME ImportInv, [Next]_vars, top.unit # ROOT, stack' = Tail(stack)
  PROVE  StackInv'
<1>1. stack \in Seq(Frames) /\ stack # << >> /\ StackInv
  BY DEF ImportInv, TypeOK, StackInv
<1>2. /\ top = stack[1] /\ 1 \in DOMAIN stack /\ DOMAIN stack = 1 .. Len(stack)
      /\ Len(stack) \in Nat \ {0}
      /\ \A k \in DOMAIN stack : stack[k].unit \in Units
  BY <1>1, TopFacts
<1>3. Len(stack) # 1
  BY <1>1, <1>2 DEF StackInv
<1>4. /\ stack' \in Seq(Frames) /\ Len(stack') = Len(stack) - 1
      /\ \A k \in 1 .. Len(stack) - 1 : stack'[k] = stack[k + 1]
  BY <1>1, TailFacts
<1>5. stack' # << >> /\ DOMAIN stack' = 1 .. Len(stack) - 1
  BY <1>2, <1>3, <1>4
<1>6. ASSUME NEW k \in DOMAIN stack'
      PROVE  /\ StaysTree(stack'[k].unit) /\ stack'[k].step # "begin"
             /\ stack'[k].unit = ROOT <=> k = Len(stack')
  <2>1. k + 1 \in DOMAIN stack /\ stack'[k] = stack[k + 1] /\ k + 1 # 1
    BY <1>2, <1>4, <1>5
  <2>2. \A u \in Units : u = stack[k + 1].unit => StaysTree(u)
    BY <1>1, <2>1, Monotone DEF StackInv
  <2>3. StaysTree(stack'[k].unit)
    BY <1>2, <2>1, <2>2 DEF HasTree, StaysTree
  <2> QED
    BY <1>1, <1>2, <1>4, <2>1, <2>3 DEF StackInv
<1> QED
  BY <1>5, <1>6 DEF StackInv, HasTree, StaysTree

LEMMA StackStays ==
  ASSUME ImportInv, [Next]_vars, stack' = stack, top.step # "begin" \/ phase' = phase
  PROVE  StackInv'
<1>1. stack \in Seq(Frames) /\ stack # << >> /\ StackInv
  BY DEF ImportInv, TypeOK, StackInv
<1>2. top = stack[1] /\ \A k \in DOMAIN stack : stack[k].unit \in Units
  BY <1>1, TopFacts
<1>3. \A k \in DOMAIN stack : StaysTree(stack[k].unit)
  BY <1>1, <1>2, Monotone DEF StackInv
<1> QED
  BY <1>1, <1>2, <1>3 DEF StackInv, HasTree, StaysTree

LEMMA StackRestarts ==
  ASSUME stack' = <<Frame(ROOT, "first")>>
  PROVE  StackInv'
  BY DEF StackInv, HasTree, Frame

LEMMA StackStep == ImportInv /\ [Next]_vars => StackInv'
<1> SUFFICES ASSUME ImportInv, [Next]_vars PROVE StackInv'
  OBVIOUS
<1>1. stack \in Seq(Frames) /\ stack # << >> /\ StackInv
  BY DEF ImportInv, TypeOK, StackInv
<1>2. top \in Frames /\ top.unit \in Units /\ (top.unit # ROOT => top.unit \in Files)
  BY <1>1, TopFacts DEF Units
<1>3. CASE semantic_check
  <2>1. /\ stack' \in Seq(Frames) /\ stack' # << >> /\ Len(stack') = Len(stack)
        /\ \A k \in 1 .. Len(stack) : /\ stack'[k].unit = stack[k].unit
                                      /\ k # 1 => stack'[k] = stack[k]
        /\ stack'[1].step = "first"
    BY <1>1, <1>3, BeginFacts DEF semantic_check
  <2>2. DOMAIN stack = 1 .. Len(stack) /\ DOMAIN stack' = 1 .. Len(stack)
    BY <1>1, <2>1
  <2>3. \A k \in 1 .. Len(stack) :
          /\ stack'[k].step # "begin" /\ HasTree(stack[k].unit)
          /\ stack[k].unit = ROOT <=> k = Len(stack)
    BY <1>1, <2>1, <2>2 DEF StackInv
  <2>4. g_modules' = g_modules
    BY <1>3 DEF semantic_check
  <2> QED
    BY <2>1, <2>2, <2>3, <2>4 DEF StackInv, HasTree
<1>4. CASE import_fails
  BY <1>4, StackAdvances DEF import_fails
<1>5. CASE import_cached
  BY <1>5, StackAdvances DEF import_cached
<1>6. CASE import_new
  <2> DEFINE f == resolve(path[top.unit][top.i])
             tree == ~Empty(text[f]) /\ Fault(f) # "syntax"
  <2>1. CASE stack' = Advance
    BY <1>6, <2>1, StackAdvances DEF import_new
  <2>2. CASE stack' = Push(Frame(f, "begin"), Advance) /\ tree
    <3>1. f \in Files /\ StaysTree(f)
      BY <1>6, <2>2, NewIsAbsent, NewEntry DEF StaysTree
    <3>2. phase' = "semantic" /\ top.step # "begin"
      BY <1>6 DEF import_new, AtImport
    <3> HIDE DEF f
    <3> QED
      BY <2>2, <3>1, <3>2, StackPushes
  <2> QED
    BY <1>6, <2>1, <2>2 DEF import_new
<1>7. CASE check_body
  <2>1. top.step # "begin"
    BY <1>7 DEF check_body, AtBody
  <2>2. CASE top.unit = ROOT
    BY <1>7, <2>2, StackRestarts DEF check_body
  <2>3. CASE top.unit # ROOT /\ top.step = "first"
    <3>1. HasTree(top.unit)
      BY <1>1, TopFacts DEF StackInv
    <3>2. StaysTree(top.unit)
      BY <1>2, <3>1, Monotone DEF HasTree, StaysTree
    <3>3. stack' = Push(Frame(top.unit, "again"), Tail(stack))
      BY <1>7, <2>3 DEF check_body
    <3> QED
      BY <1>2, <2>1, <2>3, <3>2, <3>3, StackPushes
  <2>4. CASE top.unit # ROOT /\ top.step # "first"
    BY <1>7, <2>4, StackPops DEF check_body
  <2> QED
    BY <2>2, <2>3, <2>4
<1>8. CASE generate_import
  <2> DEFINE f == path[top.unit][top.i]
  <2>1. top.step # "begin"
    BY <1>8 DEF generate_import, AtImport
  <2>2. CASE stack' = stack
    BY <2>1, <2>2, StackStays
  <2>3. CASE stack' = Advance
    BY <2>1, <2>3, StackAdvances
  <2>4. CASE f \in Files /\ g_modules[f].ast = "tree" /\ stack' = Push(Frame(f, "first"), Advance)
    <3>1. StaysTree(f)
      BY <1>8, <2>4 DEF generate_import, StaysTree
    <3> HIDE DEF f
    <3> QED
      BY <2>1, <2>4, <3>1, StackPushes
  <2> QED
    BY <1>8, <2>2, <2>3, <2>4 DEF generate_import, generate
<1>9. CASE generate_body
  <2>1. top.step # "begin"
    BY <1>9 DEF generate_body, AtBody
  <2>2. CASE stack' = stack
    BY <2>1, <2>2, StackStays
  <2>3. CASE stack' = <<Frame(ROOT, "first")>>
    BY <2>3, StackRestarts
  <2>4. CASE top.unit # ROOT /\ stack' = Tail(stack)
    BY <2>4, StackPops
  <2> QED
    BY <1>9, <2>2, <2>3, <2>4 DEF generate_body
<1>10. CASE codegen_import
  <2> DEFINE f == path[top.unit][top.i]
  <2>1. top.step # "begin" /\ ~isError /\ f \in Files
    <3>1. top.step # "begin" /\ ~isError /\ phase = "codegen"
      BY <1>10 DEF codegen_import, AtImport, ImportInv, CodegenInv
    <3>2. top.i \in DOMAIN path[top.unit]
      BY <1>1, <1>10, RequestFacts DEF codegen_import, AtImport, ImportInv
    <3> QED
      BY <3>1, <3>2, ResolvedTop DEF Resolved
  <2>2. CASE stack' = Advance
    BY <2>1, <2>2, StackAdvances
  <2>3. CASE hirMod[f] = "tree" /\ stack' = Push(Frame(f, "first"), Advance)
    <3>1. StaysTree(f)
      BY <1>10, <2>1, <2>3 DEF codegen_import, StaysTree, ImportInv, TableInv
    <3> HIDE DEF f
    <3> QED
      BY <2>1, <2>3, <3>1, StackPushes
  <2> QED
    BY <1>10, <2>2, <2>3 DEF codegen_import
<1>11. CASE codegen_lone
  BY <1>11, StackStays, StackAdvances DEF codegen_lone, AtImport, AtBody
<1>12. CASE codegen_end
  <2>1. top.step # "begin"
    BY <1>12 DEF codegen_end, AtBody
  <2> QED
    BY <1>12, <2>1, StackStays, StackPops DEF codegen_end
<1>13. CASE UNCHANGED vars
  BY <1>13, StackStays DEF vars
<1> QED
  BY <1>3, <1>4, <1>5, <1>6, <1>7, <1>8, <1>9, <1>10, <1>11, <1>12, <1>13
     DEF Next, Step, Finished

-----------------------------------------------------------------------------
(* The module tables *)

\* The check of module f goes on, or is about to begin.
Unchecked(f) == \E k \in DOMAIN stack : stack[k].unit = f /\ stack[k].step # "again"

\* A frame of f that is one of the program's, or only those still unchecked.
Kept(f, any) ==
  \E k \in DOMAIN stack' : stack'[k].unit = f /\ (any \/ stack'[k].step # "again")

\* A frame stays on the stack unless it is the top one and its body is checked.
LEMMA FrameKept ==
  ASSUME ImportInv, [Next]_vars, phase = "semantic", NEW k \in DOMAIN stack,
         NEW any \in BOOLEAN, any \/ stack[k].step # "again",
         check_body => k # 1 /\ top.unit # ROOT
  PROVE  Kept(stack[k].unit, any)
<1> DEFINE f == stack[k].unit
<1>1. stack \in Seq(Frames) /\ stack # << >>
  BY DEF ImportInv, TypeOK, StackInv
<1>2. /\ top = stack[1] /\ DOMAIN stack = 1 .. Len(stack) /\ Len(stack) \in Nat \ {0}
      /\ top.unit \in Units
  BY <1>1, TopFacts
<1>3. k \in 1 .. Len(stack) /\ stack[k].unit = f /\ (any \/ stack[k].step # "again")
  BY <1>2
<1> HIDE DEF f
<1>0. SUFFICES Kept(f, any)
  BY <1>3
<1>4. CASE stack' = stack
  BY <1>2, <1>3, <1>4 DEF Kept
<1>5. CASE stack' = Advance
  <2>1. DOMAIN stack' = 1 .. Len(stack) /\ stack'[k].unit = f /\ (any \/ stack'[k].step # "again")
    BY <1>1, <1>3, <1>5, AdvanceFacts
  <2> QED
    BY <1>3, <2>1 DEF Kept
<1>6. CASE semantic_check
  <2>1. /\ stack' \in Seq(Frames) /\ Len(stack') = Len(stack)
        /\ \A j \in 1 .. Len(stack) : /\ stack'[j].unit = stack[j].unit
                                      /\ j # 1 => stack'[j] = stack[j]
        /\ stack'[1].step = "first"
    BY <1>1, <1>6, BeginFacts DEF semantic_check
  <2>2. DOMAIN stack' = 1 .. Len(stack) /\ stack'[k].unit = f /\ (any \/ stack'[k].step # "again")
    BY <1>1, <1>3, <2>1
  <2> QED
    BY <1>3, <2>2 DEF Kept
<1>7. CASE import_new
  <2> DEFINE g == resolve(path[top.unit][top.i])
  <2>1. CASE stack' = Push(Frame(g, "begin"), Advance)
    <3>1. Frame(g, "begin") \in Frames
      BY <1>7, NewIsAbsent, FrameType DEF Units
    <3> HIDE DEF g
    <3>2. /\ Advance \in Seq(Frames) /\ Len(Advance) = Len(stack)
          /\ Advance[k].unit = f /\ (any \/ Advance[k].step # "again")
      BY <1>1, <1>3, AdvanceFacts
    <3>3. DOMAIN stack' = 1 .. Len(stack) + 1 /\ stack'[k + 1] = Advance[k]
      <4>1. /\ DOMAIN stack' = 1 .. Len(Advance) + 1
            /\ \A j \in 1 .. Len(Advance) : stack'[j + 1] = Advance[j]
        BY <2>1, <3>1, <3>2, PushFacts
      <4> QED
        BY <1>3, <3>2, <4>1
    <3> QED
      BY <1>2, <1>3, <3>2, <3>3 DEF Kept
  <2> QED
    BY <1>5, <1>7, <2>1 DEF import_new
<1>8. CASE check_body
  <2>1. k - 1 \in 1 .. Len(stack) - 1 /\ top.unit # ROOT
    BY <1>2, <1>3, <1>8
  <2>2. /\ Tail(stack) \in Seq(Frames) /\ Len(Tail(stack)) = Len(stack) - 1
        /\ Tail(stack)[k - 1] = stack[k]
    BY <1>1, <1>2, <2>1, TailFacts
  <2>3. CASE stack' = Tail(stack)
    <3>1. k - 1 \in DOMAIN stack'
      BY <2>1, <2>2, <2>3
    <3> QED
      BY <1>3, <2>2, <2>3, <3>1 DEF Kept
  <2>4. CASE stack' = Push(Frame(top.unit, "again"), Tail(stack))
    <3>1. Frame(top.unit, "again") \in Frames
      BY <1>2, FrameType
    <3>2. DOMAIN stack' = 1 .. Len(stack) /\ stack'[k] = stack[k]
      <4>1. /\ DOMAIN stack' = 1 .. Len(Tail(stack)) + 1
            /\ \A j \in 1 .. Len(Tail(stack)) : stack'[j + 1] = Tail(stack)[j]
        BY <2>2, <2>4, <3>1, PushFacts
      <4>2. k - 1 + 1 = k /\ Len(Tail(stack)) + 1 = Len(stack)
        BY <1>2, <1>3, <2>2
      <4> QED
        BY <2>1, <2>2, <4>1, <4>2
    <3> QED
      BY <1>3, <3>2 DEF Kept
  <2> QED
    BY <1>8, <2>1, <2>3, <2>4 DEF check_body
<1> QED
  BY <1>4, <1>5, <1>6, <1>7, <1>8
     DEF Next, Step, Finished, vars, import_fails, import_cached, generate_import,
         generate_body, codegen_import, codegen_lone, codegen_end, AtImport, AtBody

LEMMA UncheckedStays ==
  ASSUME ImportInv, [Next]_vars, phase = "semantic", NEW f \in Files, Unchecked(f),
         check_body => top.unit # ROOT /\ (f # top.unit \/ top.step = "again")
  PROVE  Unchecked(f)'
<1>1. PICK k \in DOMAIN stack : stack[k].unit = f /\ stack[k].step # "again"
  BY DEF Unchecked
<1>2. top = stack[1]
  BY DEF top
<1>3. Kept(f, FALSE)
  BY <1>1, <1>2, FrameKept
<1> QED
  BY <1>3 DEF Kept, Unchecked

LEMMA CheckingStays ==
  ASSUME ImportInv, [Next]_vars, phase = "semantic", NEW f \in Files, Checking(f),
         check_body => top.unit # ROOT /\ f # top.unit
  PROVE  Checking(f)'
<1>1. PICK k \in DOMAIN stack : stack[k].unit = f
  BY DEF Checking
<1>2. top = stack[1]
  BY DEF top
<1>3. Kept(f, TRUE)
  BY <1>1, <1>2, FrameKept
<1> QED
  BY <1>3 DEF Kept, Checking

LEMMA TableInit == Init => TableInv
  BY DEF Init, TableInv

\* Outside the semantic pass the entries do not change.
LEMMA TableLater ==
  ASSUME ImportInv, [Next]_vars, phase # "semantic"
  PROVE  /\ g_modules' = g_modules /\ fns' = fns /\ path' = path
         /\ phase' # "semantic" /\ (isError => isError')
<1>1. isError => isError'
  BY Monotone DEF isError
<1> QED
  BY <1>1 DEF Next, Step, Finished, vars, semantic_check, import_fails, import_cached, import_new,
         check_body, generate_import, generate_body, codegen_import, codegen_lone,
         codegen_end, AtImport, AtBody, generate, Crash

LEMMA TableStep == ImportInv /\ [Next]_vars => TableInv'
<1> SUFFICES ASSUME ImportInv, [Next]_vars PROVE TableInv'
  OBVIOUS
<1>1. /\ stack \in Seq(Frames) /\ stack # << >> /\ StackInv /\ TableInv
      /\ g_modules \in [Files -> Module] /\ hirMod \in [Files -> {"absent", "null", "tree"}]
  BY DEF ImportInv, TypeOK, StackInv
<1>2. /\ top = stack[1] /\ 1 \in DOMAIN stack /\ DOMAIN stack = 1 .. Len(stack)
      /\ top.unit \in Units
      /\ HasTree(top.unit)
  BY <1>1, TopFacts DEF StackInv
<1>3. errors \subseteq errors' /\ (isError => isError')
  BY Monotone DEF isError
<1>4. ASSUME NEW f \in Files, hirMod'[f] = "tree" PROVE g_modules'[f].ast = "tree"
  <2>1. g_modules[f].ast = "tree" => g_modules'[f].ast = "tree"
    <3>1. HasTree(f) => StaysTree(f)
      BY Monotone DEF Units
    <3> QED
      BY <3>1, ImportConstants DEF HasTree, StaysTree
  <2>2. CASE hirMod'[f] = hirMod[f]
    BY <1>1, <1>4, <2>1, <2>2 DEF TableInv
  <2>3. CASE generate_import
    BY <1>1, <1>4, <2>2, <2>3 DEF generate_import, loadOrCreateMod
  <2>4. CASE generate_body
    <3>1. CASE f = top.unit
      BY <1>2, <2>1, <3>1, ImportConstants DEF HasTree
    <3>2. CASE f # top.unit
      BY <1>1, <2>2, <2>4, <3>2 DEF generate_body, loadOrCreateMod
    <3> QED
      BY <3>1, <3>2
  <2> QED
    BY <2>2, <2>3, <2>4
       DEF Next, Step, Finished, vars, semantic_check, import_fails, import_cached, import_new,
           check_body, codegen_import, codegen_lone, codegen_end
<1>5. ASSUME NEW f \in Files
      PROVE  /\ g_modules'[f].state = "absent" => g_modules'[f].ast = "null"
             /\ g_modules'[f].state = "MOD_LOADING" => isError' /\ g_modules'[f].ast = "null"
             /\ g_modules'[f].state = "MOD_LOADED" /\ ~isError' /\ ~g_modules'[f].semantic_done =>
                  phase' = "semantic" /\ Unchecked(f)'
  <2>1. /\ g_modules[f].state = "absent" => g_modules[f].ast = "null"
        /\ g_modules[f].state = "MOD_LOADING" => isError /\ g_modules[f].ast = "null"
        /\ g_modules[f].state = "MOD_LOADED" /\ ~isError /\ ~g_modules[f].semantic_done =>
             phase = "semantic" /\ Unchecked(f)
    BY <1>1 DEF TableInv, Unchecked
  <2>2. CASE g_modules' = g_modules /\ phase' = phase /\ ~check_body
    BY <1>3, <2>1, <2>2, UncheckedStays
  <2>3. CASE phase # "semantic"
    BY <2>1, <2>3, TableLater
  <2>4. CASE import_fails
    <3>1. isError'
      BY <2>4 DEF import_fails, isError
    <3>2. g_modules'[f] = g_modules[f]
            \/ (g_modules[f].state = "absent" /\ g_modules'[f].state = "MOD_LOADING"
                 /\ g_modules'[f].ast = g_modules[f].ast)
      BY <1>1, <2>4 DEF import_fails, Module
    <3> QED
      BY <2>1, <3>1, <3>2
  <2>5. CASE import_new
    <3> DEFINE g == resolve(path[top.unit][top.i])
    <3>1. CASE f = g
      <4>1. /\ g_modules'[g].state = "MOD_LOADED"
            /\ g_modules'[g].parsed = parsed_without_error(g)
            /\ g_modules'[g].semantic_done =
                 (g_modules'[g].parsed /\ g_modules'[g].ast = "null")
            /\ g_modules'[g].ast \in {"tree", "null"}
            /\ (g_modules'[g].ast = "tree" <=> ~Empty(text[g]) /\ Fault(g) # "syntax")
        BY <2>5, NewEntry
      <4>2. ~isError' => parsed_without_error(g)
        BY <1>3, <2>5 DEF import_new, parsed_without_error, isError
      <4>3. CASE g_modules'[g].ast = "tree" /\ parsed_without_error(g)
        <5>1. stack' = Push(Frame(g, "begin"), Advance) /\ phase' = "semantic"
          BY <2>5, <4>1, <4>3 DEF import_new, AtImport
        <5>2. Frame(g, "begin") \in Frames /\ Advance \in Seq(Frames)
          BY <1>1, <3>1, FrameType, AdvanceFacts DEF Units
        <5>3. 1 \in DOMAIN stack' /\ stack'[1] = Frame(g, "begin")
          <6> HIDE DEF g
          <6>1. /\ DOMAIN stack' = 1 .. Len(Advance) + 1 /\ stack'[1] = Frame(g, "begin")
            BY <5>1, <5>2, PushFacts
          <6>2. Len(Advance) \in Nat
            BY <5>2
          <6> QED
            BY <6>1, <6>2
        <5> QED
          BY <3>1, <4>1, <5>1, <5>3, SMTT(30) DEF Unchecked, Frame
      <4> QED
        BY <3>1, <4>1, <4>2, <4>3
    <3>2. CASE f # g
      <4>1. g_modules'[f] = g_modules[f]
        BY <2>5, <3>2, NewEntry
      <4>2. phase = "semantic" /\ phase' = "semantic" /\ ~check_body
        BY <1>1, <2>5, ImportNotBody DEF import_new, check_body, AtImport
      <4> QED
        BY <1>3, <2>1, <4>1, <4>2, UncheckedStays
    <3> QED
      BY <3>1, <3>2
  <2>6. CASE check_body
    <3>0. phase = "semantic"
      BY <2>6 DEF check_body, AtBody
    <3>1. CASE top.unit = ROOT
      <4>1. g_modules' = g_modules
        BY <2>6, <3>1 DEF check_body
      <4>2. Len(stack) = 1
        BY <1>1, <1>2, <3>1 DEF StackInv
      <4>3. ~Unchecked(f)
        BY <1>2, <3>1, <4>2, ImportConstants DEF Unchecked
      <4> QED
        BY <1>3, <2>1, <4>1, <4>3
    <3>2. CASE top.unit # ROOT /\ f # top.unit
      <4>1. g_modules'[f] = g_modules[f] /\ phase' = phase
        BY <1>1, <2>6, <3>2 DEF check_body
      <4> QED
        BY <1>3, <2>1, <3>0, <3>2, <4>1, UncheckedStays
    <3>3. CASE top.unit # ROOT /\ f = top.unit /\ top.step = "first"
      <4>1. /\ g_modules'[f].semantic_done /\ g_modules'[f].state = g_modules[f].state
            /\ g_modules'[f].ast = g_modules[f].ast
        BY <1>1, <2>6, <3>3 DEF check_body, Module
      <4> QED
        BY <1>3, <2>1, <4>1
    <3>4. CASE top.unit # ROOT /\ f = top.unit /\ top.step # "first"
      <4>1. g_modules' = g_modules /\ phase' = phase
        BY <2>6, <3>4 DEF check_body
      <4>2. top.step = "again"
        BY <1>1, <2>6, <3>4, TopFacts DEF check_body, AtBody
      <4> QED
        BY <1>3, <2>1, <3>0, <3>4, <4>1, <4>2, UncheckedStays
    <3> QED
      BY <3>1, <3>2, <3>3, <3>4
  <2> QED
    BY <2>2, <2>3, <2>4, <2>5, <2>6
       DEF Next, Step, Finished, vars, semantic_check, import_cached, generate_import,
           generate_body, codegen_import, codegen_lone, codegen_end, AtImport, AtBody
<1> QED
  BY <1>4, <1>5 DEF TableInv, Unchecked

-----------------------------------------------------------------------------
(* Registration *)

\* A unit that is about to begin has just been pushed, or nothing has happened.
LEMMA BeginningStep ==
  ASSUME ImportInv, [Next]_vars, NEW f \in Files, Beginning(f)'
  PROVE  \/ Beginning(f) /\ UNCHANGED vars
         \/ import_new /\ f = resolve(path[top.unit][top.i])
<1>1. /\ stack \in Seq(Frames) /\ stack # << >> /\ StackInv /\ StackInv'
      /\ stack' \in Seq(Frames)
  BY StackStep, TypeStep DEF ImportInv, TypeOK, StackInv
<1>2. /\ top = stack[1] /\ 1 \in DOMAIN stack /\ DOMAIN stack = 1 .. Len(stack)
      /\ Len(stack) \in Nat \ {0} /\ top.unit \in Units
  BY <1>1, TopFacts
<1>3. phase' = "semantic" /\ stack'[1].unit = f /\ stack'[1].step = "begin"
  BY DEF Beginning
<1>4. CASE UNCHANGED vars
  BY <1>4 DEF vars, Beginning
<1>5. CASE semantic_check
  BY <1>1, <1>3, <1>5, BeginFacts DEF semantic_check
<1>6. CASE top.step # "begin" /\ stack' = Advance
  BY <1>1, <1>2, <1>3, <1>6, AdvanceFacts
<1>7. CASE top.unit # ROOT /\ stack' = Tail(stack)
  <2>1. 2 \in DOMAIN stack
    BY <1>1, <1>2, <1>7 DEF StackInv
  <2>2. stack'[1] = stack[2]
    BY <1>1, <1>2, <1>7, <2>1, TailFacts
  <2> QED
    BY <1>1, <1>3, <2>1, <2>2 DEF StackInv
<1>8. CASE import_new /\ stack' # Advance
  <2> DEFINE g == resolve(path[top.unit][top.i])
  <2>1. stack' = Push(Frame(g, "begin"), Advance)
    BY <1>8 DEF import_new
  <2>2. Frame(g, "begin") \in Frames /\ Advance \in Seq(Frames)
    BY <1>1, <1>8, NewIsAbsent, FrameType, AdvanceFacts DEF Units
  <2>3. stack'[1] = Frame(g, "begin")
    <3> HIDE DEF g
    <3> QED
      BY <2>1, <2>2, PushFacts
  <2> QED
    BY <1>3, <1>8, <2>3 DEF Frame
<1>9. CASE check_body
  <2>1. stack' = Push(Frame(top.unit, "again"), Tail(stack)) => stack'[1].step = "again"
    <3>1. Frame(top.unit, "again") \in Frames /\ Tail(stack) \in Seq(Frames)
      BY <1>1, <1>2, FrameType, TailFacts
    <3>2. Push(Frame(top.unit, "again"), Tail(stack))[1] = Frame(top.unit, "again")
      BY <3>1, PushFacts
    <3> QED
      BY <3>2 DEF Frame
  <2> QED
    BY <1>3, <1>7, <1>9, <2>1 DEF check_body
<1>10. phase = "semantic"
  BY <1>3, TableLater
<1> QED
  BY <1>4, <1>5, <1>6, <1>7, <1>8, <1>9, <1>10
     DEF Next, Step, Finished, vars, import_fails, import_cached, import_new, generate_import,
         generate_body, codegen_import, codegen_lone, codegen_end, AtImport, AtBody

LEMMA FnsInit == Init => FnsInv
  BY DEF Init, FnsInv

LEMMA FnsStep == ImportInv /\ [Next]_vars => FnsInv'
<1> SUFFICES ASSUME ImportInv, [Next]_vars PROVE FnsInv'
  OBVIOUS
<1>1. /\ stack \in Seq(Frames) /\ stack # << >> /\ StackInv /\ TableInv /\ FnsInv
      /\ g_modules \in [Files -> Module] /\ fns \subseteq Files /\ fns' \subseteq Files
  BY TypeStep DEF ImportInv, TypeOK, StackInv
<1>2. /\ top = stack[1] /\ top.unit \in Units /\ HasTree(top.unit)
  BY <1>1, TopFacts DEF StackInv
<1>3. \A h \in Files : g_modules[h].state = "MOD_LOADED" => g_modules'[h].state = "MOD_LOADED"
  BY Monotone
<1>4. ASSUME NEW h \in fns'
      PROVE  h = MainFile \/ (g_modules'[h].state = "MOD_LOADED" /\ ~Beginning(h)')
  <2>1. CASE h \in fns /\ h # MainFile
    <3>1. h \in Files /\ g_modules[h].state = "MOD_LOADED" /\ ~Beginning(h)
      BY <1>1, <2>1 DEF FnsInv
    <3>2. import_new => h # resolve(path[top.unit][top.i])
      BY <3>1, NewIsAbsent
    <3> QED
      BY <1>3, <3>1, <3>2, BeginningStep
  <2>2. CASE h \notin fns
    <3>1. semantic_check /\ h = FileOf(top.unit)
      BY <2>2, <1>4 DEF Next, Step, Finished, vars, semantic_check, import_fails, import_cached,
         import_new, check_body, generate_import, generate_body, codegen_import, codegen_lone,
         codegen_end
    <3>2. CASE top.unit = ROOT
      BY <3>1, <3>2 DEF FileOf
    <3>3. CASE top.unit # ROOT
      <4>1. h = top.unit /\ h \in Files /\ g_modules[h].ast = "tree"
        BY <1>2, <3>1, <3>3 DEF FileOf, HasTree, Units
      <4>2. g_modules[h].state = "MOD_LOADED"
        BY <1>1, <4>1 DEF TableInv, Module
      <4>3. ~Beginning(h)'
        <5>1. ~import_new /\ ~UNCHANGED vars
          BY <2>2, <1>4, <3>1 DEF semantic_check, import_new, AtImport, vars
        <5> QED
          BY <4>1, <5>1, BeginningStep
      <4> QED
        BY <1>3, <4>1, <4>2, <4>3
    <3> QED
      BY <3>2, <3>3
  <2> QED
    BY <2>1, <2>2
<1>5. ASSUME NEW f \in Files, g_modules'[f].parsed, g_modules'[f].ast = "tree", HasFn(f)'
      PROVE  f \in fns' \/ Beginning(f)'
  <2>1. HasFn(f)
    BY <1>5, Monotone, TextFacts
  <2>2. CASE g_modules'[f].parsed = g_modules[f].parsed /\ g_modules'[f].ast = g_modules[f].ast
    <3>1. f \in fns \/ Beginning(f)
      BY <1>1, <1>5, <2>1, <2>2 DEF FnsInv
    <3>2. fns \subseteq fns'
      BY DEF Next, Step, Finished, vars, semantic_check, import_fails, import_cached,
         import_new, check_body, generate_import, generate_body, codegen_import, codegen_lone,
         codegen_end
    <3>3. CASE Beginning(f)
      <4>1. top.unit = f /\ top.step = "begin" /\ phase = "semantic"
        BY <1>2, <3>3 DEF Beginning
      <4>2. CASE semantic_check
        BY <2>1, <4>1, <4>2, ImportConstants DEF semantic_check, FileOf
      <4>3. CASE UNCHANGED vars
        BY <3>3, <4>3 DEF Beginning, vars
      <4> QED
        BY <4>1, <4>2, <4>3
           DEF Next, Step, Finished, import_fails, import_cached, import_new, check_body,
               generate_import, generate_body, codegen_import, codegen_lone, codegen_end,
               AtImport, AtBody
    <3> QED
      BY <3>1, <3>2, <3>3
  <2>3. CASE import_new /\ f = resolve(path[top.unit][top.i])
    <3> DEFINE g == resolve(path[top.unit][top.i])
    <3>1. parsed_without_error(g) /\ ~Empty(text[g]) /\ Fault(g) # "syntax"
      BY <1>5, <2>3, NewEntry
    <3>2. stack' = Push(Frame(g, "begin"), Advance) /\ phase' = "semantic"
      BY <2>3, <3>1 DEF import_new, AtImport
    <3>3. Frame(g, "begin") \in Frames /\ Advance \in Seq(Frames)
      BY <1>1, <2>3, FrameType, AdvanceFacts DEF Units
    <3>4. stack'[1] = Frame(g, "begin")
      <4> HIDE DEF g
      <4> QED
        BY <3>2, <3>3, PushFacts
    <3> QED
      BY <2>3, <3>2, <3>4 DEF Beginning, Frame
  <2>4. CASE import_new /\ f # resolve(path[top.unit][top.i])
    BY <2>2, <2>4, NewEntry
  <2>5. CASE import_fails
    <3>1. g_modules'[f].parsed = g_modules[f].parsed /\ g_modules'[f].ast = g_modules[f].ast
      BY <1>1, <2>5 DEF import_fails, Module
    <3> QED
      BY <2>2, <3>1
  <2>6. CASE check_body
    <3>1. g_modules'[f].parsed = g_modules[f].parsed /\ g_modules'[f].ast = g_modules[f].ast
      BY <1>1, <2>6 DEF check_body, Module
    <3> QED
      BY <2>2, <3>1
  <2> QED
    BY <2>2, <2>3, <2>4, <2>5, <2>6
       DEF Next, Step, Finished, vars, semantic_check, import_cached, generate_import,
           generate_body, codegen_import, codegen_lone, codegen_end
<1> QED
  BY <1>4, <1>5 DEF FnsInv

-----------------------------------------------------------------------------
(* Resolved import nodes *)

\* FrameResolved and Resolved in the next state, of what is named in this one.
StaysResolved(u) == \A j \in DOMAIN path'[u] : path'[u][j] \in Files
FrameStays(x) ==
  IF x.step = "again" THEN StaysResolved(x.unit)
  ELSE \A j \in DOMAIN path'[x.unit] : j < x.i => path'[x.unit][j] \in Files

\* A node once resolved stays resolved, in every unit that has a tree.
LEMMA PathsImprove ==
  ASSUME ImportInv, [Next]_vars, NEW u \in Units, HasTree(u)
  PROVE  /\ DOMAIN path'[u] = DOMAIN path[u]
         /\ \A j \in DOMAIN path[u] : path[u][j] \in Files => path'[u][j] \in Files
<1>1. stack # << >> /\ TypeOK /\ path \in [Units -> Seq(Names \cup Files)]
  BY DEF ImportInv, TypeOK, StackInv
<1>2. CASE path' = path
  BY <1>2
<1>3. CASE import_cached
  <2> DEFINE f == resolve(path[top.unit][top.i])
  <2>1. f \in Files /\ top.unit \in Units
    BY <1>1, <1>3, RequestFacts, TopFacts DEF import_cached, AtImport, cached, TypeOK
  <2>2. path' = [path EXCEPT ![top.unit] = [path[top.unit] EXCEPT ![top.i] = f]]
    BY <1>3 DEF import_cached
  <2> HIDE DEF f
  <2> QED
    BY <1>1, <2>1, <2>2
<1>4. CASE import_new
  <2> DEFINE f == resolve(path[top.unit][top.i])
             tree == ~Empty(text[f]) /\ Fault(f) # "syntax"
             q == [path EXCEPT ![top.unit] = [path[top.unit] EXCEPT ![top.i] = f]]
  <2>1. f \in Files /\ top.unit \in Units /\ u # f
    BY <1>1, <1>4, NewIsAbsent, TopFacts DEF TypeOK
  <2>2. path' = [q EXCEPT ![f] = IF tree THEN text[f].imports ELSE << >>]
    BY <1>4 DEF import_new
  <2> HIDE DEF f, tree
  <2>3. path'[u] = q[u]
    BY <1>1, <2>1, <2>2
  <2> QED
    BY <1>1, <2>1, <2>3
<1> QED
  BY <1>2, <1>3, <1>4
     DEF Next, Step, Finished, vars, semantic_check, import_fails, check_body,
         generate_import, generate_body, codegen_import, codegen_lone, codegen_end

LEMMA FramesImprove ==
  ASSUME ImportInv, [Next]_vars, NEW k \in DOMAIN stack, FrameResolved(stack[k])
  PROVE  FrameStays(stack[k])
<1>1. stack[k].unit \in Units /\ HasTree(stack[k].unit)
  BY TopFacts DEF ImportInv, StackInv, TypeOK
<1>2. /\ DOMAIN path'[stack[k].unit] = DOMAIN path[stack[k].unit]
      /\ \A j \in DOMAIN path[stack[k].unit] :
           path[stack[k].unit][j] \in Files => path'[stack[k].unit][j] \in Files
  BY <1>1, PathsImprove
<1> QED
  BY <1>2 DEF FrameResolved, FrameStays, Resolved, StaysResolved

LEMMA PathInit == Init => PathInv
<1> SUFFICES ASSUME Init PROVE PathInv
  OBVIOUS
<1>1. path \in [Units -> Seq(Names \cup Files)] /\ phase = "semantic"
  BY TypeInit DEF TypeOK, Init
<1>2. \A k \in DOMAIN stack : stack[k] = Frame(ROOT, "begin")
  BY DEF Init
<1>3. FrameResolved(Frame(ROOT, "begin"))
  BY <1>1 DEF FrameResolved, Frame, Units
<1>4. \A k \in DOMAIN stack : FrameResolved(stack[k])
  BY <1>2, <1>3
<1>5. \A f \in Files : ~HasTree(f)
  BY ImportConstants DEF Init, HasTree
<1> QED
  BY <1>1, <1>4, <1>5 DEF PathInv

\* A statement that finds its module gets its path.
LEMMA NodeResolved ==
  ASSUME ImportInv, import_cached \/ import_new
  PROVE  path'[top.unit][top.i] \in Files
<1>1. /\ stack # << >> /\ TypeOK /\ path \in [Units -> Seq(Names \cup Files)]
      /\ top.i <= Len(path[top.unit])
  BY DEF ImportInv, TypeOK, StackInv, import_cached, import_new, AtImport
<1>2. top.unit \in Units /\ top.i \in DOMAIN path[top.unit] /\ HasTree(top.unit)
  BY <1>1, TopFacts, RequestFacts DEF ImportInv, StackInv, TypeOK
<1> DEFINE f == resolve(path[top.unit][top.i])
           q == [path EXCEPT ![top.unit] = [path[top.unit] EXCEPT ![top.i] = f]]
<1>3. CASE import_cached
  <2>1. f \in Files /\ path' = q
    BY <1>1, <1>3, RequestFacts DEF import_cached, cached
  <2> HIDE DEF f
  <2> QED
    BY <1>1, <1>2, <2>1
<1>4. CASE import_new
  <2> DEFINE tree == ~Empty(text[f]) /\ Fault(f) # "syntax"
  <2>1. f \in Files /\ top.unit # f
    BY <1>2, <1>4, NewIsAbsent
  <2>2. path' = [q EXCEPT ![f] = IF tree THEN text[f].imports ELSE << >>]
    BY <1>4 DEF import_new
  <2> HIDE DEF f, tree
  <2>3. path'[top.unit] = q[top.unit]
    BY <1>1, <1>2, <2>1, <2>2
  <2> QED
    BY <1>1, <1>2, <2>1, <2>3
<1> QED
  BY <1>3, <1>4

LEMMA AdvancedFrame ==
  ASSUME ImportInv, [Next]_vars, import_cached \/ import_new,
         \A k \in DOMAIN stack : FrameResolved(stack[k])
  PROVE  \A k \in DOMAIN stack : FrameStays(Advance[k])
<1>1. stack \in Seq(Frames) /\ stack # << >>
  BY DEF ImportInv, TypeOK, StackInv
<1>2. /\ top = stack[1] /\ 1 \in DOMAIN stack /\ DOMAIN stack = 1 .. Len(stack)
      /\ top.i \in Nat
  BY <1>1, TopFacts
<1>3. \A k \in DOMAIN stack : FrameStays(stack[k])
  BY FramesImprove
<1>4. path'[top.unit] \in Seq(Names \cup Files)
  BY <1>1, TypeStep, TopFacts DEF TypeOK
<1>5. FrameStays(Advance[1])
  <2>1. /\ Advance[1].unit = top.unit /\ Advance[1].step = top.step
        /\ Advance[1].i = top.i + 1
    BY <1>1, <1>2, AdvanceFacts
  <2>2. path'[top.unit][top.i] \in Files
    BY NodeResolved
  <2>3. \A j \in DOMAIN path'[top.unit] : j < top.i + 1 => j < top.i \/ j = top.i
    BY <1>2, <1>4
  <2>4. FrameStays(top)
    BY <1>2, <1>3
  <2> QED
    BY <2>1, <2>2, <2>3, <2>4 DEF FrameStays
<1>6. \A k \in DOMAIN stack : k # 1 => Advance[k] = stack[k]
  BY <1>1, <1>2, AdvanceFacts
<1> QED
  BY <1>3, <1>5, <1>6 DEF FrameStays

\* A unit whose body is checked has all its nodes resolved.
LEMMA CheckedIsResolved ==
  ASSUME ImportInv, check_body, ~isError
  PROVE  Resolved(top.unit)
<1>1. /\ stack \in Seq(Frames) /\ stack # << >> /\ PathInv
      /\ path \in [Units -> Seq(Names \cup Files)]
  BY DEF ImportInv, TypeOK, StackInv
<1>2. /\ top = stack[1] /\ 1 \in DOMAIN stack /\ top.unit \in Units
      /\ top.i \in Nat
  BY <1>1, TopFacts
<1>3. phase = "semantic" /\ top.i > Len(path[top.unit])
  BY DEF check_body, AtBody
<1>4. FrameResolved(top)
  BY <1>1, <1>2, <1>3 DEF PathInv
<1>5. \A j \in DOMAIN path[top.unit] : j < top.i
  BY <1>1, <1>2, <1>3
<1> QED
  BY <1>4, <1>5 DEF FrameResolved, Resolved

LEMMA FramesStep ==
  ASSUME ImportInv, [Next]_vars, ~isError', phase' = "semantic"
  PROVE  \A k \in DOMAIN stack' : FrameStays(stack'[k])
<1>1. /\ stack \in Seq(Frames) /\ stack # << >> /\ PathInv
      /\ path \in [Units -> Seq(Names \cup Files)]
      /\ path' \in [Units -> Seq(Names \cup Files)]
  BY TypeStep DEF ImportInv, TypeOK, StackInv
<1>2. /\ top = stack[1] /\ 1 \in DOMAIN stack /\ DOMAIN stack = 1 .. Len(stack)
      /\ Len(stack) \in Nat \ {0} /\ top.unit \in Units
  BY <1>1, TopFacts
<1>3. ~isError /\ phase = "semantic"
  BY Monotone, TableLater DEF isError
<1>4. \A k \in DOMAIN stack : FrameResolved(stack[k])
  BY <1>1, <1>3 DEF PathInv
<1>5. \A k \in DOMAIN stack : FrameStays(stack[k])
  BY <1>4, FramesImprove
<1>6. CASE UNCHANGED vars
  BY <1>5, <1>6 DEF vars
<1>7. CASE semantic_check
  <2>1. /\ stack' \in Seq(Frames) /\ Len(stack') = Len(stack)
        /\ \A k \in 1 .. Len(stack) : /\ stack'[k].unit = stack[k].unit
                                      /\ stack'[k].i = stack[k].i
                                      /\ k # 1 => stack'[k] = stack[k]
        /\ stack'[1].step = "first"
    BY <1>1, <1>7, BeginFacts DEF semantic_check
  <2>2. DOMAIN stack' = DOMAIN stack /\ stack[1].step = "begin"
    BY <1>1, <1>2, <1>7, <2>1 DEF semantic_check
  <2>3. FrameStays(stack'[1])
    BY <1>2, <1>5, <2>1, <2>2 DEF FrameStays
  <2> QED
    BY <1>2, <1>5, <2>1, <2>2, <2>3 DEF FrameStays
<1>8. CASE import_fails
  <2>1. isError'
    BY <1>8 DEF import_fails, isError
  <2> QED
    BY <2>1
<1>9. CASE (import_cached \/ import_new) /\ stack' = Advance
  <2>1. DOMAIN stack' = DOMAIN stack
    BY <1>1, <1>2, <1>9, AdvanceFacts
  <2> QED
    BY <1>4, <1>9, <2>1, AdvancedFrame
<1>10. CASE import_new /\ stack' # Advance
  <2> DEFINE g == resolve(path[top.unit][top.i])
  <2>1. stack' = Push(Frame(g, "begin"), Advance)
    BY <1>10 DEF import_new
  <2>2. g \in Units
    BY <1>10, NewIsAbsent DEF Units
  <2> HIDE DEF g
  <2>3. /\ Frame(g, "begin") \in Frames /\ Advance \in Seq(Frames)
        /\ Len(Advance) = Len(stack)
    BY <1>1, <2>2, FrameType, AdvanceFacts
  <2>4. /\ DOMAIN stack' = 1 .. Len(stack) + 1 /\ stack'[1] = Frame(g, "begin")
        /\ \A k \in 2 .. Len(stack) + 1 : stack'[k] = Advance[k - 1]
    <3>1. /\ DOMAIN stack' = 1 .. Len(Advance) + 1 /\ stack'[1] = Frame(g, "begin")
          /\ \A k \in 2 .. Len(Advance) + 1 : stack'[k] = Advance[k - 1]
      BY <2>1, <2>3, PushFacts
    <3> QED
      BY <2>3, <3>1
  <2>5. \A k \in DOMAIN stack : FrameStays(Advance[k])
    BY <1>4, <1>10, AdvancedFrame
  <2>6. FrameStays(stack'[1])
    <3>1. path'[g] \in Seq(Names \cup Files)
      BY <1>1, <2>2
    <3> QED
      BY <2>4, <3>1 DEF FrameStays, Frame
  <2>7. \A k \in 2 .. Len(stack) + 1 : k - 1 \in DOMAIN stack
    BY <1>2
  <2>8. \A k \in 2 .. Len(stack) + 1 : FrameStays(stack'[k])
    BY <2>4, <2>5, <2>7 DEF FrameStays
  <2> QED
    BY <1>2, <2>4, <2>6, <2>8
<1>11. CASE check_body
  <2>1. top.unit # ROOT
    BY <1>11 DEF check_body
  <2>2. StaysResolved(top.unit)
    <3>1. Resolved(top.unit) /\ path' = path
      BY <1>3, <1>11, CheckedIsResolved DEF check_body
    <3> QED
      BY <3>1 DEF Resolved, StaysResolved
  <2>3. /\ Tail(stack) \in Seq(Frames) /\ Len(Tail(stack)) = Len(stack) - 1
        /\ DOMAIN Tail(stack) = 1 .. Len(stack) - 1
        /\ \A k \in 1 .. Len(stack) - 1 : Tail(stack)[k] = stack[k + 1]
    BY <1>1, TailFacts
  <2>4. \A k \in 1 .. Len(stack) - 1 : FrameStays(Tail(stack)[k])
    <3>1. \A k \in 1 .. Len(stack) - 1 : k + 1 \in DOMAIN stack
      BY <1>2
    <3> QED
      BY <1>5, <2>3, <3>1 DEF FrameStays
  <2>5. CASE stack' = Tail(stack)
    BY <2>3, <2>4, <2>5
  <2>6. CASE stack' = Push(Frame(top.unit, "again"), Tail(stack))
    <3>1. Frame(top.unit, "again") \in Frames
      BY <1>2, FrameType
    <3>2. /\ DOMAIN stack' = 1 .. Len(Tail(stack)) + 1 /\ stack'[1] = Frame(top.unit, "again")
          /\ \A k \in 2 .. Len(Tail(stack)) + 1 : stack'[k] = Tail(stack)[k - 1]
      BY <2>3, <2>6, <3>1, PushFacts
    <3>3. FrameStays(stack'[1])
      BY <2>2, <3>2 DEF FrameStays, Frame
    <3>4. \A k \in 2 .. Len(stack) : k - 1 \in 1 .. Len(stack) - 1
      BY <1>2
    <3>5. Len(Tail(stack)) + 1 = Len(stack)
      BY <1>2, <2>3
    <3>6. \A k \in 2 .. Len(stack) : FrameStays(stack'[k])
      BY <2>4, <3>2, <3>4, <3>5 DEF FrameStays
    <3> QED
      BY <1>2, <3>2, <3>3, <3>5, <3>6
  <2> QED
    BY <1>11, <2>1, <2>5, <2>6 DEF check_body
<1> QED
  BY <1>3, <1>6, <1>7, <1>8, <1>9, <1>10, <1>11
     DEF Next, Step, Finished, import_cached, generate_import,
         generate_body, codegen_import, codegen_lone, codegen_end, AtImport, AtBody

LEMMA PathStep == ImportInv /\ [Next]_vars => PathInv'
<1> SUFFICES ASSUME ImportInv, [Next]_vars, ~isError' PROVE PathInv'
  BY DEF PathInv
<1>1. /\ stack \in Seq(Frames) /\ stack # << >> /\ StackInv /\ PathInv
  BY DEF ImportInv, TypeOK, StackInv
<1>2. /\ top = stack[1] /\ DOMAIN stack = 1 .. Len(stack) /\ top.unit \in Units
      /\ Len(stack) \in Nat \ {0}
  BY <1>1, TopFacts
<1>3. ~isError
  BY Monotone DEF isError
<1>4. \A u \in Units : HasTree(u) /\ Resolved(u) => StaysResolved(u)
  BY PathsImprove DEF Resolved, StaysResolved
<1>5. ASSUME phase' # "semantic", NEW u \in Units, StaysTree(u)
      PROVE  StaysResolved(u)
  <2>1. CASE phase # "semantic"
    <3>1. HasTree(u) /\ path' = path
      BY <1>5, <2>1, TableLater DEF StaysTree, HasTree
    <3> QED
      BY <1>1, <1>3, <1>4, <2>1, <3>1 DEF PathInv
  <2>2. CASE phase = "semantic"
    <3>1. check_body /\ top.unit = ROOT
      BY <1>5, <2>2 DEF Next, Step, Finished, Ended, vars, semantic_check, import_fails, import_cached,
         import_new, check_body, generate_import, generate_body, codegen_import, codegen_lone,
         codegen_end, AtImport, AtBody
    <3>2. HasTree(u)
      BY <1>5, <3>1 DEF StaysTree, HasTree, check_body
    <3>3. Resolved(ROOT)
      BY <1>3, <3>1, CheckedIsResolved
    <3>4. u # ROOT => ~Checking(u)
      BY <1>1, <1>2, <3>1 DEF StackInv, Checking
    <3>5. Resolved(u)
      BY <1>1, <1>3, <2>2, <3>2, <3>3, <3>4 DEF PathInv, Units
    <3> QED
      BY <1>4, <3>2, <3>5
  <2> QED
    BY <2>1, <2>2
<1>6. ASSUME phase' = "semantic", NEW f \in Files, StaysTree(f)
      PROVE  StaysResolved(f) \/ Checking(f)'
  <2>1. phase = "semantic"
    BY <1>6, TableLater
  <2>2. CASE HasTree(f) /\ Resolved(f)
    BY <1>4, <2>2 DEF Units
  <2>3. CASE HasTree(f) /\ ~Resolved(f)
    <3>1. Checking(f)
      BY <1>1, <1>3, <2>1, <2>3 DEF PathInv
    <3>2. check_body => top.unit # ROOT /\ f # top.unit
      BY <1>3, <1>6, <2>3, CheckedIsResolved DEF check_body
    <3> QED
      BY <2>1, <3>1, <3>2, CheckingStays
  <2>4. CASE ~HasTree(f)
    <3> DEFINE g == resolve(path[top.unit][top.i])
    <3>1. g_modules \in [Files -> Module] /\ f # ROOT
      BY ImportConstants DEF ImportInv, TypeOK
    <3>2. import_new /\ f = g
      <4>1. g_modules'[f].ast # g_modules[f].ast
        BY <1>6, <2>4, <3>1 DEF HasTree, StaysTree
      <4>2. ~import_fails /\ ~check_body
        BY <3>1, <4>1 DEF import_fails, check_body, Module
      <4>3. import_new
        BY <4>1, <4>2
           DEF Next, Step, Finished, vars, semantic_check, import_cached, generate_import,
               generate_body, codegen_import, codegen_lone, codegen_end
      <4> QED
        BY <4>1, <4>3, NewEntry
    <3>3. /\ ~Empty(text[g]) /\ Fault(g) # "syntax"
      BY <1>6, <3>1, <3>2, NewEntry DEF StaysTree
    <3>4. parsed_without_error(g)
      BY <1>3, <3>2 DEF import_new, parsed_without_error, isError
    <3>5. stack' = Push(Frame(g, "begin"), Advance)
      BY <3>2, <3>3, <3>4 DEF import_new
    <3>6. Frame(g, "begin") \in Frames /\ Advance \in Seq(Frames)
      BY <1>1, <3>2, FrameType, AdvanceFacts DEF Units
    <3>7. 1 \in DOMAIN stack' /\ stack'[1] = Frame(g, "begin")
      <4> HIDE DEF g
      <4>1. /\ DOMAIN stack' = 1 .. Len(Advance) + 1 /\ stack'[1] = Frame(g, "begin")
        BY <3>5, <3>6, PushFacts
      <4>2. Len(Advance) \in Nat
        BY <3>6
      <4> QED
        BY <4>1, <4>2
    <3> QED
      BY <3>2, <3>7 DEF Checking, Frame
  <2> QED
    BY <2>2, <2>3, <2>4
<1>7. phase' = "semantic" => \A k \in DOMAIN stack' : FrameStays(stack'[k])
  BY FramesStep
<1> QED
  BY <1>5, <1>6, <1>7
     DEF PathInv, FrameResolved, FrameStays, Resolved, StaysResolved, HasTree, StaysTree

-----------------------------------------------------------------------------
(* The rest of the invariant *)

LEMMA CodegenStep == ImportInv /\ [Next]_vars => CodegenInv'
<1> SUFFICES ASSUME ImportInv, [Next]_vars PROVE CodegenInv'
  OBVIOUS
<1>1. CodegenInv
  BY DEF ImportInv
<1> QED
  BY <1>1 DEF CodegenInv, isError, Next, Step, Finished, vars, semantic_check, import_fails, import_cached,
         import_new, check_body, generate_import, generate, Crash, generate_body, codegen_import,
         codegen_lone, codegen_end, AtImport, AtBody

LEMMA RedefinitionStep == ImportInv /\ [Next]_vars => RedefinitionOnlyOfMain'
<1> SUFFICES ASSUME ImportInv, [Next]_vars PROVE RedefinitionOnlyOfMain'
  OBVIOUS
<1>1. /\ stack \in Seq(Frames) /\ stack # << >> /\ FnsInv /\ RedefinitionOnlyOfMain
  BY DEF ImportInv, TypeOK, StackInv
<1>2. top = stack[1] /\ top.unit \in Units
  BY <1>1, TopFacts
<1> SUFFICES ASSUME NEW e \in errors', e.kind = "redefinition" PROVE e.at = MainFile
  BY DEF RedefinitionOnlyOfMain
<1>3. CASE e \in errors
  BY <1>1, <1>3 DEF RedefinitionOnlyOfMain
<1>4. CASE semantic_check /\ e \notin errors
  <2>1. FileOf(top.unit) \in fns /\ e.at = FileOf(top.unit)
    BY <1>4 DEF semantic_check, Error
  <2>2. CASE top.unit = ROOT
    BY <2>1, <2>2 DEF FileOf
  <2>3. CASE top.unit # ROOT
    <3>1. Beginning(top.unit)
      BY <1>2, <1>4 DEF semantic_check, Beginning
    <3> QED
      BY <1>1, <2>1, <2>3, <3>1 DEF FileOf, FnsInv
  <2> QED
    BY <2>2, <2>3
<1>5. CASE import_fails
  BY <1>3, <1>5 DEF import_fails, Error
<1>6. CASE import_new
  BY <1>3, <1>6 DEF import_new
<1>7. CASE check_body
  BY <1>2, <1>3, <1>7, BodyErrorsType DEF check_body
<1>8. CASE generate_body
  BY <1>3, <1>8 DEF generate_body, Error
<1> QED
  BY <1>3, <1>4, <1>5, <1>6, <1>7, <1>8
     DEF Next, Step, Finished, vars, import_cached, generate_import, codegen_import,
         codegen_lone, codegen_end

LEMMA MissingStep == ImportInv /\ [Next]_vars => MissingModuleReported'
<1> SUFFICES ASSUME ImportInv, [Next]_vars, crash' = "no_module" PROVE isError'
  BY DEF MissingModuleReported, isError
<1>1. stack # << >> /\ TypeOK /\ MissingModuleReported
  BY DEF ImportInv, StackInv
<1>2. isError => isError'
  BY Monotone DEF isError
<1>3. CASE crash = "no_module"
  BY <1>1, <1>2, <1>3 DEF MissingModuleReported
<1>4. CASE crash # "no_module"
  <2>1. generate_import /\ path[top.unit][top.i] \notin Files
    BY <1>4 DEF Next, Step, Finished, vars, semantic_check, import_fails, import_cached,
         import_new, check_body, generate_import, generate, Crash, generate_body, codegen_import,
         codegen_lone, codegen_end
  <2>2. top.i \in DOMAIN path[top.unit] /\ phase = "HIRGen"
    BY <1>1, <2>1, RequestFacts DEF generate_import, AtImport
  <2>3. ~Resolved(top.unit)
    BY <2>1, <2>2 DEF Resolved
  <2> QED
    BY <1>2, <2>2, <2>3, ResolvedTop
<1> QED
  BY <1>3, <1>4

\* The inductive invariant: types, the shape of the call stack, and what the module
\* table, the registered functions and the import nodes say of each other at every
\* point of the three passes.
THEOREM ImportInvariant == Spec => []ImportInv
<1>1. Init => ImportInv
  BY TypeInit, StackInit, TableInit, FnsInit, PathInit
     DEF ImportInv, Init, CodegenInv, RedefinitionOnlyOfMain, MissingModuleReported
<1>2. ImportInv /\ [Next]_vars => ImportInv'
  BY TypeStep, StackStep, TableStep, FnsStep, PathStep, CodegenStep, RedefinitionStep,
     MissingStep DEF ImportInv
<1> QED
  BY <1>1, <1>2, PTL DEF Spec

\* Type correctness.
THEOREM ImportTypes == Spec => []TypeOK
<1>1. ImportInv => TypeOK
  BY DEF ImportInv
<1> QED
  BY <1>1, ImportInvariant, PTL

\* On every import graph, only the program's own file can be registered twice
\* (SemanticSymbolTable.cpp:252-266).
THEOREM NoOtherRedefinition == Spec => []RedefinitionOnlyOfMain
<1>1. ImportInv => RedefinitionOnlyOfMain
  BY DEF ImportInv
<1> QED
  BY <1>1, ImportInvariant, PTL

\* HIRGen only meets an import without a module when an error has been reported.
THEOREM NoUnreportedMissingModule == Spec => []MissingModuleReported
<1>1. ImportInv => MissingModuleReported
  BY DEF ImportInv
<1> QED
  BY <1>1, ImportInvariant, PTL

\* Code is only generated for programs without errors all of whose modules have been
\* checked to the end (cmd-exec.cpp:173-182).
THEOREM OnlyCheckedCode == Spec => []NoUncheckedCode
<1>1. ImportInv => NoUncheckedCode
  BY DEF ImportInv, TypeOK, Module, TableInv, CodegenInv, NoUncheckedCode
<1> QED
  BY <1>1, ImportInvariant, PTL

\* The functions of every module a unit imports are known when its body is checked,
\* on cycles too (semanic.cpp:43-46, import.cpp:92-125).
THEOREM ImportsAreVisible == Spec => []DirectImportsVisible
<1>1. ImportInv => DirectImportsVisible
  <2> SUFFICES ASSUME ImportInv, AtBody("semantic"), NEW f \in Edges[top.unit],
                      g_modules[f].parsed, g_modules[f].ast = "tree", HasFn(f)
               PROVE  f \in fns
    BY DEF DirectImportsVisible
  <2>1. f \in Files
    <3>1. top.unit \in Units
      BY TopFacts DEF ImportInv, TypeOK, StackInv
    <3> QED
      BY <3>1 DEF Edges
  <2>2. ~Beginning(f)
    BY DEF AtBody, Beginning, top
  <2> QED
    BY <2>1, <2>2 DEF ImportInv, FnsInv
<1> QED
  BY <1>1, ImportInvariant, PTL

-----------------------------------------------------------------------------
(* The inductive invariant *)

\* A module that HIRGen has finished with: it is lowered, or there is nothing to lower.
Settled(f) == hirMod[f] = "tree" \/ g_modules[f].ast = "null"

\* The imports that the frame at k of a call stack s has finished with: what the
\* activation above it was called for is not among them.
Passed(s, k) ==
  {path[s[k].unit][j] : j \in {j \in DOMAIN path[s[k].unit] :
                                 j < IF k = 1 THEN s[k].i ELSE s[k].i - 1}}

\* Each activation was called for the import before the one its caller is at.
Chained(s) ==
  \A k \in 2 .. Len(s) :
    /\ s[k].i - 1 \in DOMAIN path[s[k].unit]
    /\ s[k - 1].unit = path[s[k].unit][s[k].i - 1]

\* A lowered module has its imports lowered, and is on no cycle.
LoweredInv ==
  /\ phase = "semantic" => \A f \in Files : hirMod[f] = "absent"
  /\ \A f \in Files :
       /\ g_modules[f].ast = "null" => path[f] = << >>
       /\ hirMod[f] = "null" => g_modules[f].ast = "null"
       /\ hirMod[f] = "tree" => /\ \A g \in Edges[f] : Settled(g)
                                /\ f \notin ReachFrom(Edges[f], Edges)

\* The call stack of HIRGen is a path in the import graph.
DescentInv ==
  phase = "HIRGen" =>
    /\ Chained(stack)
    /\ \A k \in DOMAIN stack : \A f \in Passed(stack, k) : f \in Files /\ Settled(f)
    /\ \A m \in DOMAIN stack : \A k \in 1 .. m - 1 :
         stack[k].unit \in ReachFrom(Edges[stack[m].unit], Edges)

\* Past HIRGen the whole program is lowered.
WholeInv ==
  phase \in {"codegen", "done", "no_main"} =>
    ~Cyclic /\ \A f \in Edges[ROOT] : Settled(f)

InReach == ReachFrom(BlockEdges[ROOT], BlockEdges)

\* Codegen goes through lowered modules in reach, and what it has finished with is
\* in ir_out.
EmitInv ==
  /\ phase \in {"semantic", "HIRGen"} => ir_out = << >>
  /\ phase = "codegen" =>
       /\ Chained(stack)
       /\ \A k \in DOMAIN stack :
            LET u == stack[k].unit IN
            /\ u = ROOT \/ (hirMod[u] = "tree" /\ u \in InReach)
            /\ RootKind(u) = "block" =>
                 \A f \in Passed(stack, k) :
                   g_modules[f].ast = "tree" => f \in Range(ir_out)
       /\ Range(ir_out) \subseteq InReach
       /\ \A k \in DOMAIN ir_out : \A f \in BlockEdges[ir_out[k]] :
            \E j \in 1 .. k - 1 : ir_out[j] = f

GraphInv ==
  /\ LoweredInv /\ DescentInv /\ WholeInv /\ EmitInv
  /\ crash = "stack" => Cyclic /\ phase = "crashed"
  /\ IrInOrder

-----------------------------------------------------------------------------
(* Reachability *)

LEMMA ReachFacts ==
  ASSUME NEW edges \in [Units -> SUBSET Files], NEW S \in SUBSET Files
  PROVE  /\ ReachFrom(S, edges) \in SUBSET Files
         /\ S \subseteq ReachFrom(S, edges)
         /\ \A u \in ReachFrom(S, edges) : edges[u] \subseteq ReachFrom(S, edges)
         /\ \A C \in SUBSET Files :
              S \subseteq C /\ (\A u \in C : edges[u] \subseteq C) =>
                ReachFrom(S, edges) \subseteq C
<1> DEFINE closed == {C \in SUBSET Files : S \subseteq C /\ Closed(C, edges)}
           R == {f \in Files : \A C \in closed : f \in C}
<1>1. ReachFrom(S, edges) = R
  BY DEF ReachFrom
<1>2. R \in SUBSET Files /\ S \subseteq R
  OBVIOUS
<1>3. \A u \in R : edges[u] \subseteq R
  <2> SUFFICES ASSUME NEW u \in R, NEW f \in edges[u] PROVE f \in R
    OBVIOUS
  <2>1. f \in Files
    BY DEF Units
  <2>2. \A C \in closed : f \in C
    BY DEF Closed
  <2> QED
    BY <2>1, <2>2
<1>4. \A C \in SUBSET Files : S \subseteq C /\ (\A u \in C : edges[u] \subseteq C) => R \subseteq C
  BY DEF Closed
<1> QED
  BY <1>1, <1>2, <1>3, <1>4

LEMMA EdgesType ==
  ASSUME TypeOK
  PROVE  /\ Edges \in [Units -> SUBSET Files] /\ BlockEdges \in [Units -> SUBSET Files]
         /\ \A u \in Units : \A j \in DOMAIN path[u] :
              path[u][j] \in Files => path[u][j] \in Edges[u]
         /\ \A u \in Units : \A f \in Edges[u] : \E j \in DOMAIN path[u] : f = path[u][j]
         /\ \A u \in Units : RootKind(u) = "block" =>
              BlockEdges[u] = {f \in Edges[u] : g_modules[f].ast = "tree"}
         /\ \A u \in Units : RootKind(u) # "block" => BlockEdges[u] = {}
  BY DEF Edges, BlockEdges, Range

\* After the semantic pass the import graph does not change.
LEMMA GraphStays ==
  ASSUME [Next]_vars, phase # "semantic"
  PROVE  /\ text' = text /\ path' = path /\ g_modules' = g_modules
         /\ Edges' = Edges /\ BlockEdges' = BlockEdges /\ phase' # "semantic"
<1>1. text' = text /\ path' = path /\ g_modules' = g_modules /\ phase' # "semantic"
  BY DEF Next, Step, Finished, vars, semantic_check, import_fails, import_cached, import_new,
         check_body, generate_import, generate, Crash, generate_body, codegen_import,
         codegen_lone, codegen_end, AtImport, AtBody
<1> QED
  BY <1>1 DEF Edges, BlockEdges, RootKind, FileOf

-----------------------------------------------------------------------------
(* What the frames have finished with, when the stack changes *)

\* The statement the top frame is at is done.
LEMMA PassedAdvance ==
  ASSUME TypeOK, stack # << >>, top.i \in DOMAIN path[top.unit]
  PROVE  /\ \A k \in DOMAIN stack : \A f \in Passed(Advance, k) :
              f \in Passed(stack, k) \/ (k = 1 /\ f = path[top.unit][top.i])
         /\ Chained(stack) => Chained(Advance)
<1>1. stack \in Seq(Frames)
  BY DEF TypeOK
<1>2. /\ Len(Advance) = Len(stack) /\ DOMAIN stack = 1 .. Len(stack)
      /\ Len(stack) \in Nat \ {0} /\ top = stack[1]
      /\ \A k \in 1 .. Len(stack) : Advance[k].unit = stack[k].unit
      /\ \A k \in 2 .. Len(stack) : Advance[k] = stack[k]
      /\ Advance[1].i = stack[1].i + 1
      /\ stack[1].i \in Nat /\ Advance[1].unit = stack[1].unit
  BY <1>1, AdvanceFacts, TopFacts
<1>3. ASSUME NEW k \in DOMAIN stack, NEW f \in Passed(Advance, k)
      PROVE  f \in Passed(stack, k) \/ (k = 1 /\ f = path[top.unit][top.i])
  <2>1. CASE k = 1
    <3>1. PICK j \in DOMAIN path[stack[1].unit] :
            j < stack[1].i + 1 /\ f = path[stack[1].unit][j]
      BY <1>2, <1>3, <2>1 DEF Passed
    <3>2. path[stack[1].unit] \in Seq(Names \cup Files)
      BY <1>1, TopFacts DEF TypeOK
    <3>3. j \in Nat
      BY <3>2
    <3>4. CASE j = stack[1].i
      BY <1>2, <2>1, <3>1, <3>4
    <3>5. CASE j < stack[1].i
      BY <2>1, <3>1, <3>5 DEF Passed
    <3> QED
      BY <1>2, <3>1, <3>3, <3>4, <3>5
  <2>2. CASE k # 1
    <3>1. Advance[k] = stack[k]
      BY <1>2, <2>2
    <3> QED
      BY <1>3, <2>2, <3>1 DEF Passed
  <2> QED
    BY <2>1, <2>2
<1>4. Chained(stack) => Chained(Advance)
  <2> SUFFICES ASSUME Chained(stack), NEW k \in 2 .. Len(stack)
               PROVE  /\ Advance[k].i - 1 \in DOMAIN path[Advance[k].unit]
                      /\ Advance[k - 1].unit = path[Advance[k].unit][Advance[k].i - 1]
    BY <1>2 DEF Chained
  <2>1. k - 1 \in 1 .. Len(stack)
    BY <1>2
  <2> QED
    BY <1>2, <2>1 DEF Chained
<1> QED
  BY <1>3, <1>4

\* The frames of Advance, for a top frame that is at an import.
Advanced ==
  /\ Len(Advance) = Len(stack) /\ DOMAIN stack = 1 .. Len(stack)
  /\ Len(stack) \in Nat \ {0} /\ top = stack[1] /\ Advance \in Seq(Frames)
  /\ \A k \in 1 .. Len(stack) : Advance[k].unit = stack[k].unit
  /\ \A k \in 2 .. Len(stack) : Advance[k] = stack[k]
  /\ Advance[1].i - 1 = stack[1].i /\ Advance[1].unit = stack[1].unit

LEMMA AdvancedFrames == ASSUME TypeOK, stack # << >> PROVE Advanced
<1>1. stack \in Seq(Frames)
  BY DEF TypeOK
<1>2. top.i \in Nat
  BY <1>1, TopFacts
<1> QED
  BY <1>1, <1>2, AdvanceFacts, TopFacts DEF Advanced

\* A call: the caller has not finished with the import it calls for.
Called(s, f) ==
  /\ s \in Seq(Frames) /\ DOMAIN s = 1 .. Len(stack) + 1 /\ Len(s) = Len(stack) + 1
  /\ s[1].unit = f /\ s[1].i = 1
  /\ \A k \in 2 .. Len(stack) + 1 : s[k] = Advance[k - 1]

LEMMA CalledFrames ==
  ASSUME TypeOK, stack # << >>, NEW f \in Files
  PROVE  Called(Push(Frame(f, "first"), Advance), f)
<1>1. Frame(f, "first") \in Frames
  BY FrameType DEF Units
<1>2. Advance \in Seq(Frames) /\ Len(Advance) = Len(stack)
  BY AdvancedFrames DEF Advanced
<1>3. Frame(f, "first").unit = f /\ Frame(f, "first").i = 1
  BY DEF Frame
<1> DEFINE s == Push(Frame(f, "first"), Advance)
<1>4. /\ s \in Seq(Frames) /\ DOMAIN s = 1 .. Len(stack) + 1 /\ Len(s) = Len(stack) + 1
      /\ s[1] = Frame(f, "first")
      /\ \A k \in 2 .. Len(stack) + 1 : s[k] = Advance[k - 1]
  <2>1. ASSUME NEW x \in Frames
        PROVE  /\ Push(x, Advance) \in Seq(Frames)
               /\ Len(Push(x, Advance)) = Len(stack) + 1
               /\ DOMAIN Push(x, Advance) = 1 .. Len(stack) + 1 /\ Push(x, Advance)[1] = x
               /\ \A k \in 2 .. Len(stack) + 1 : Push(x, Advance)[k] = Advance[k - 1]
    BY <1>2, PushFacts
  <2> QED
    BY <1>1, <2>1
<1> QED
  BY <1>3, <1>4 DEF Called

LEMMA PassedPush ==
  ASSUME TypeOK, stack # << >>, top.i \in DOMAIN path[top.unit],
         path[top.unit][top.i] \in Files,
         NEW s, Called(s, path[top.unit][top.i])
  PROVE  /\ \A k \in 2 .. Len(stack) + 1 : s[k].unit = stack[k - 1].unit
         /\ Passed(s, 1) = {}
         /\ \A k \in 2 .. Len(stack) + 1 : Passed(s, k) = Passed(stack, k - 1)
         /\ Chained(stack) => Chained(s)
<1>1. path \in [Units -> Seq(Names \cup Files)]
  BY DEF TypeOK
<1>2. Advanced
  BY AdvancedFrames
<1>3. /\ s[1].unit = path[top.unit][top.i] /\ s[1].i = 1 /\ Len(s) = Len(stack) + 1
      /\ \A k \in 2 .. Len(stack) + 1 : s[k] = Advance[k - 1]
  BY DEF Called
<1>4. ASSUME NEW k \in 2 .. Len(stack) + 1 PROVE s[k].unit = stack[k - 1].unit
  <2>1. k - 1 \in 1 .. Len(stack)
    BY <1>2 DEF Advanced
  <2> QED
    BY <1>2, <1>3, <2>1 DEF Advanced
<1>5. 2 \in 2 .. Len(stack) + 1 /\ s[2] = Advance[1]
  BY <1>2, <1>3 DEF Advanced
<1>6. s[2].unit = stack[1].unit /\ s[2].i - 1 = stack[1].i
  BY <1>2, <1>5 DEF Advanced
<1>7. Passed(s, 1) = {}
  <2>1. path[s[1].unit] \in Seq(Names \cup Files)
    BY <1>1, <1>3 DEF Units
  <2>2. \A j \in DOMAIN path[s[1].unit] : ~(j < 1)
    BY <2>1
  <2> QED
    BY <1>3, <2>2 DEF Passed
<1>8. ASSUME NEW k \in 2 .. Len(stack) + 1 PROVE Passed(s, k) = Passed(stack, k - 1)
  <2>1. CASE k = 2
    BY <1>6, <2>1 DEF Passed
  <2>2. CASE k # 2
    <3>1. k - 1 \in 2 .. Len(stack) /\ k - 1 # 1 /\ k # 1
      BY <1>2, <2>2 DEF Advanced
    <3>2. s[k] = stack[k - 1]
      BY <1>2, <1>3, <3>1 DEF Advanced
    <3> QED
      BY <3>1, <3>2 DEF Passed
  <2> QED
    BY <2>1, <2>2
<1>9. ASSUME Chained(stack) PROVE Chained(s)
  <2> SUFFICES ASSUME NEW k \in 2 .. Len(s)
               PROVE  /\ s[k].i - 1 \in DOMAIN path[s[k].unit]
                      /\ s[k - 1].unit = path[s[k].unit][s[k].i - 1]
    BY DEF Chained
  <2>0. k \in 2 .. Len(stack) + 1
    BY <1>3
  <2>1. CASE k = 2
    <3>1. /\ s[2].i - 1 \in DOMAIN path[s[2].unit]
          /\ s[1].unit = path[s[2].unit][s[2].i - 1]
      BY <1>2, <1>3, <1>6 DEF Advanced
    <3> QED
      BY <2>1, <3>1
  <2>2. CASE k # 2
    <3>1. k - 1 \in 2 .. Len(stack) /\ k - 1 - 1 \in 1 .. Len(stack)
            /\ k - 1 \in 2 .. Len(stack) + 1
      BY <1>2, <2>0, <2>2 DEF Advanced
    <3>2. s[k] = stack[k - 1] /\ s[k - 1].unit = stack[k - 1 - 1].unit
      BY <1>2, <1>3, <1>4, <2>0, <3>1 DEF Advanced
    <3>3. /\ stack[k - 1].i - 1 \in DOMAIN path[stack[k - 1].unit]
          /\ stack[k - 1 - 1].unit = path[stack[k - 1].unit][stack[k - 1].i - 1]
      BY <1>9, <3>1 DEF Chained
    <3> QED
      BY <3>2, <3>3
  <2> QED
    BY <2>1, <2>2
<1> QED
  BY <1>4, <1>7, <1>8, <1>9

\* A return: the caller has finished with what it called for.
LEMMA PassedPop ==
  ASSUME TypeOK, Chained(stack), stack # << >>, Len(stack) # 1
  PROVE  /\ Tail(stack) \in Seq(Frames) /\ DOMAIN Tail(stack) = 1 .. Len(stack) - 1
         /\ Len(Tail(stack)) = Len(stack) - 1
         /\ \A k \in 1 .. Len(stack) - 1 : Tail(stack)[k] = stack[k + 1]
         /\ \A k \in 1 .. Len(stack) - 1 : \A f \in Passed(Tail(stack), k) :
              f \in Passed(stack, k + 1) \/ (k = 1 /\ f = top.unit)
         /\ Chained(Tail(stack))
<1> DEFINE s == Tail(stack)
<1>1. stack \in Seq(Frames) /\ path \in [Units -> Seq(Names \cup Files)]
  BY DEF TypeOK
<1>2. /\ DOMAIN stack = 1 .. Len(stack) /\ Len(stack) \in Nat \ {0} /\ top = stack[1]
      /\ \A k \in DOMAIN stack : stack[k] \in Frames /\ stack[k].unit \in Units
  BY <1>1, TopFacts
<1>3. /\ s \in Seq(Frames) /\ Len(s) = Len(stack) - 1
      /\ \A k \in 1 .. Len(stack) - 1 : s[k] = stack[k + 1]
  BY <1>1, TailFacts
<1>4. DOMAIN s = 1 .. Len(stack) - 1
  BY <1>3
<1> HIDE DEF s
<1>5. ASSUME NEW k \in 1 .. Len(stack) - 1, NEW f \in Passed(s, k)
      PROVE  f \in Passed(stack, k + 1) \/ (k = 1 /\ f = top.unit)
  <2>1. CASE k = 1
    <3>0. 2 \in DOMAIN stack /\ s[1] = stack[2] /\ 2 \in 2 .. Len(stack)
      BY <1>2, <1>3, <1>5, <2>1
    <3>1. PICK j \in DOMAIN path[stack[2].unit] :
            j < stack[2].i /\ f = path[stack[2].unit][j]
      BY <1>5, <2>1, <3>0 DEF Passed
    <3>2. path[stack[2].unit] \in Seq(Names \cup Files) /\ stack[2].i \in Nat
      BY <1>1, <1>2, <3>0 DEF Frames
    <3>3. j \in Nat
      BY <3>2
    <3>4. path[stack[2].unit][stack[2].i - 1] = top.unit
      BY <1>2, <3>0 DEF Chained
    <3>5. CASE j = stack[2].i - 1
      BY <2>1, <3>1, <3>4, <3>5
    <3>6. CASE j < stack[2].i - 1
      BY <2>1, <3>1, <3>6 DEF Passed
    <3> QED
      BY <3>1, <3>2, <3>3, <3>5, <3>6
  <2>2. CASE k # 1
    <3>1. s[k] = stack[k + 1] /\ k + 1 # 1
      BY <1>3, <2>2
    <3> QED
      BY <1>5, <2>2, <3>1 DEF Passed
  <2> QED
    BY <2>1, <2>2
<1>6. Chained(s)
  <2> SUFFICES ASSUME NEW k \in 2 .. Len(s)
               PROVE  /\ s[k].i - 1 \in DOMAIN path[s[k].unit]
                      /\ s[k - 1].unit = path[s[k].unit][s[k].i - 1]
    BY DEF Chained
  <2>1. k + 1 \in 2 .. Len(stack) /\ k \in 1 .. Len(stack) - 1
          /\ k - 1 \in 1 .. Len(stack) - 1 /\ k - 1 + 1 = k /\ k + 1 - 1 = k
    BY <1>2, <1>3
  <2>2. s[k] = stack[k + 1] /\ s[k - 1] = stack[k]
    BY <1>3, <2>1
  <2>3. /\ stack[k + 1].i - 1 \in DOMAIN path[stack[k + 1].unit]
        /\ stack[k].unit = path[stack[k + 1].unit][stack[k + 1].i - 1]
    BY <2>1 DEF Chained
  <2> QED
    BY <2>2, <2>3
<1> QED
  BY <1>3, <1>4, <1>5, <1>6 DEF s

-----------------------------------------------------------------------------
(* The semantic pass *)

LEMMA GraphInit == Init => GraphInv
<1> SUFFICES ASSUME Init PROVE GraphInv
  OBVIOUS
<1>1. \A f \in Files : path[f] = << >> /\ hirMod[f] = "absent"
  BY ImportConstants DEF Init, Units
<1> QED
  BY <1>1 DEF Init, GraphInv, LoweredInv, DescentInv, WholeInv, EmitInv, IrInOrder

\* A module without a tree has no import nodes.
LEMMA NoTreeNoPath ==
  ASSUME ImportInv, [Next]_vars, phase = "semantic", LoweredInv
  PROVE  \A f \in Files : g_modules'[f].ast = "null" => path'[f] = << >>
<1>1. /\ stack \in Seq(Frames) /\ stack # << >> /\ g_modules \in [Files -> Module]
      /\ path \in [Units -> Seq(Names \cup Files)]
  BY DEF ImportInv, TypeOK, StackInv
<1>2. top.unit \in Units /\ HasTree(top.unit)
  BY <1>1, TopFacts DEF ImportInv, StackInv
<1>3. \A f \in Files : g_modules[f].ast = "null" => path[f] = << >>
  BY DEF LoweredInv
<1> SUFFICES ASSUME NEW f \in Files, g_modules'[f].ast = "null" PROVE path'[f] = << >>
  OBVIOUS
<1>4. CASE import_new
  <2> DEFINE n == resolve(path[top.unit][top.i])
             tree == ~Empty(text[n]) /\ Fault(n) # "syntax"
             new == IF tree THEN text[n].imports ELSE << >>
  <2>1. /\ n \in Files /\ n # top.unit
        /\ \A h \in Files : h # n => g_modules'[h] = g_modules[h]
        /\ g_modules'[n].ast = IF tree THEN "tree" ELSE "null"
    BY <1>2, <1>4, NewIsAbsent, NewEntry
  <2>2. path' = [path EXCEPT ![top.unit][top.i] = n, ![n] = new]
    BY <1>4 DEF import_new
  <2> HIDE DEF n, new
  <2>3. CASE f = n
    <3>1. ~tree
      BY <2>1, <2>3
    <3>2. path'[n] = new
      BY <1>1, <2>1, <2>2 DEF Units
    <3> QED
      BY <2>3, <3>1, <3>2 DEF new
  <2>4. CASE f # n
    <3>1. g_modules[f].ast = "null"
      BY <2>1, <2>4
    <3>2. f # top.unit
      BY <1>2, <3>1, ImportConstants DEF HasTree
    <3>3. path'[f] = path[f]
      BY <1>1, <2>1, <2>2, <2>4, <3>2 DEF Units
    <3> QED
      BY <1>3, <3>1, <3>3
  <2> QED
    BY <2>3, <2>4
<1>5. CASE import_cached
  <2>1. g_modules[f].ast = "null" /\ f # top.unit
    BY <1>2, <1>5, ImportConstants DEF import_cached, HasTree
  <2>2. path'[f] = path[f]
    BY <1>1, <1>5, <2>1 DEF import_cached, Units
  <2> QED
    BY <1>3, <2>1, <2>2
<1>6. CASE UNCHANGED path /\ ~import_new
  <2>1. g_modules[f].ast = "null"
    <3>1. CASE import_fails
      BY <1>1, <3>1 DEF import_fails, Module
    <3>2. CASE check_body
      BY <1>1, <3>2 DEF check_body, Module
    <3> QED
      BY <1>6, <3>1, <3>2 DEF Next, Step, Finished, vars, semantic_check, import_cached,
         generate_import, generate_body, codegen_import, codegen_lone, codegen_end
  <2> QED
    BY <1>3, <1>6, <2>1
<1> QED
  BY <1>4, <1>5, <1>6
     DEF Next, Step, Finished, vars, semantic_check, import_fails, import_cached, import_new,
         check_body, generate_import, generate_body, codegen_import, codegen_lone,
         codegen_end

LEMMA SemanticStep ==
  ASSUME ImportInv, ImportInv', [Next]_vars, phase = "semantic", GraphInv
  PROVE  GraphInv'
<1>1. \A f \in Files : g_modules'[f].ast = "null" => path'[f] = << >>
  BY NoTreeNoPath DEF GraphInv
<1>2. /\ hirMod' = hirMod /\ ir_out' = ir_out /\ crash' = crash
      /\ phase' = "semantic" \/ (phase' = "HIRGen" /\ stack' = <<Frame(ROOT, "first")>>)
  BY DEF Next, Step, Finished, vars, semantic_check, import_fails, import_cached, import_new,
         check_body, generate_import, generate_body, codegen_import, codegen_lone,
         codegen_end, AtImport, AtBody, Ended
<1>3. hirMod' = hirMod /\ (\A f \in Files : hirMod[f] = "absent") /\ ir_out = << >>
        /\ crash # "stack"
  BY <1>2 DEF GraphInv, LoweredInv, EmitInv
<1>4. LoweredInv'
  BY <1>1, <1>3 DEF LoweredInv
<1>5. DescentInv'
  <2> SUFFICES ASSUME phase' = "HIRGen" PROVE DescentInv'
    BY DEF DescentInv
  <2>1. /\ stack' = <<Frame(ROOT, "first")>> /\ Len(stack') = 1 /\ DOMAIN stack' = {1}
        /\ stack'[1].unit = ROOT /\ stack'[1].i = 1
    BY <1>2 DEF Frame
  <2>2. \A j \in DOMAIN path'[ROOT] : ~(j < 1)
    <3>1. path'[ROOT] \in Seq(Names \cup Files)
      BY DEF ImportInv, TypeOK, Units
    <3> QED
      BY <3>1
  <2> QED
    BY <2>1, <2>2 DEF DescentInv, Chained, Passed
<1>6. WholeInv' /\ EmitInv' /\ IrInOrder'
  BY <1>2, <1>3 DEF WholeInv, EmitInv, IrInOrder
<1>7. crash' # "stack"
  BY <1>2, <1>3
<1> QED
  BY <1>4, <1>5, <1>6, <1>7 DEF GraphInv

-----------------------------------------------------------------------------
(* Cycles *)

\* From settled modules only settled modules are reached.
LEMMA SettledReach ==
  ASSUME TypeOK, LoweredInv, NEW S \in SUBSET Files, \A f \in S : Settled(f)
  PROVE  \A f \in ReachFrom(S, Edges) : f \in Files /\ Settled(f)
<1> DEFINE C == {f \in Files : Settled(f)}
<1>1. Edges \in [Units -> SUBSET Files] /\ C \in SUBSET Files /\ S \subseteq C
  BY EdgesType
<1>2. ASSUME NEW f \in C PROVE Edges[f] \subseteq C
  <2>1. CASE g_modules[f].ast = "null"
    <3>1. path[f] = << >>
      BY <1>2, <2>1 DEF LoweredInv
    <3> QED
      BY <3>1 DEF Edges, Units, Range
  <2>2. CASE hirMod[f] = "tree"
    <3>1. \A g \in Edges[f] : Settled(g)
      BY <1>2, <2>2 DEF LoweredInv
    <3> QED
      BY <1>1, <3>1 DEF Units
  <2> QED
    BY <1>2, <2>1, <2>2 DEF Settled
<1> HIDE DEF C
<1>3. ReachFrom(S, Edges) \subseteq C
  BY <1>1, <1>2, ReachFacts
<1> QED
  BY <1>3 DEF C

\* A module all of whose imports have been finished with before it is on no cycle.
LEMMA NotOnCycle ==
  ASSUME TypeOK, LoweredInv, NEW f \in Files, ~Settled(f), \A g \in Edges[f] : Settled(g)
  PROVE  f \notin ReachFrom(Edges[f], Edges)
<1>1. Edges[f] \in SUBSET Files
  BY EdgesType DEF Units
<1> QED
  BY <1>1, SettledReach

LEMMA LoweredIsAcyclic ==
  ASSUME TypeOK, LoweredInv, \A f \in Edges[ROOT] : Settled(f)
  PROVE  ~Cyclic
<1>1. Edges[ROOT] \in SUBSET Files /\ Edges \in [Units -> SUBSET Files]
  BY EdgesType DEF Units
<1>2. \A f \in Reachable : f \in Files /\ Settled(f)
  BY <1>1, SettledReach DEF Reachable
<1> SUFFICES ASSUME NEW f \in Reachable, f \in ReachFrom(Edges[f], Edges) PROVE FALSE
  BY DEF Cyclic
<1>3. f \in Files /\ Settled(f)
  BY <1>2
<1>4. CASE hirMod[f] = "tree"
  BY <1>3, <1>4 DEF LoweredInv
<1>5. CASE g_modules[f].ast = "null"
  <2>1. path[f] = << >>
    BY <1>3, <1>5 DEF LoweredInv
  <2>2. Edges[f] = {}
    BY <1>3, <2>1 DEF Edges, Units, Range
  <2>3. ReachFrom({}, Edges) \subseteq {}
    BY <1>1, ReachFacts, {} \in SUBSET Files
  <2> QED
    BY <2>2, <2>3
<1> QED
  BY <1>3, <1>4, <1>5 DEF Settled

\* More activations than there are units: one unit is on the stack twice, and the
\* stack leads from it back to it.
LEMMA DeepIsCyclic ==
  ASSUME ImportInv, DescentInv, phase = "HIRGen", ~(Len(stack) < StackLimit)
  PROVE  Cyclic
<1> DEFINE n == Len(stack) - 1
           unit == [k \in 1 .. n |-> stack[k].unit]
<1>1. /\ stack \in Seq(Frames) /\ stack # << >> /\ TypeOK
      /\ \A k \in DOMAIN stack : stack[k].unit = ROOT <=> k = Len(stack)
  BY DEF ImportInv, TypeOK, StackInv
<1>2. /\ DOMAIN stack = 1 .. Len(stack) /\ Len(stack) \in Nat \ {0}
      /\ \A k \in DOMAIN stack : stack[k].unit \in Units
  BY <1>1, TopFacts
<1>3. Cardinality(Files) \in Nat /\ IsFiniteSet(Files) /\ StackLimit \in Nat
        /\ StackLimit > Cardinality(Files) + 1
  BY ImportConstants, FS_CardinalityType
<1>4. n \in Nat /\ n > Cardinality(Files)
  BY <1>2, <1>3
<1>5. unit \in [1 .. n -> Files]
  <2> SUFFICES ASSUME NEW k \in 1 .. n PROVE stack[k].unit \in Files
    OBVIOUS
  <2>1. k \in DOMAIN stack /\ k # Len(stack)
    <3>1. ASSUME NEW len \in Nat, NEW j \in 1 .. len - 1 PROVE j \in 1 .. len /\ j # len
      OBVIOUS
    <3> QED
      BY <1>2, <3>1
  <2> QED
    BY <1>1, <1>2, <2>1 DEF Units
<1>6. IsFiniteSet(1 .. n) /\ Cardinality(1 .. n) = n
  <2>1. IsFiniteSet(1 .. n) /\ Cardinality(1 .. n) = IF 1 > n THEN 0 ELSE n - 1 + 1
    BY <1>4, FS_Interval
  <2> QED
    BY <1>3, <1>4, <2>1
<1>7. \E x, y \in 1 .. n : x # y /\ unit[x] = unit[y]
  <2> HIDE DEF n, unit
  <2>1. Cardinality(Files) < Cardinality(1 .. n)
    BY <1>3, <1>4, <1>6
  <2> QED
    BY <1>3, <1>5, <1>6, <2>1, FS_PigeonHole
<1>8. PICK k \in 1 .. n, m \in 1 .. n : k < m /\ stack[k].unit = stack[m].unit
  BY <1>4, <1>7
<1>9. /\ stack[k].unit \in ReachFrom(Edges[stack[m].unit], Edges)
      /\ stack[k].unit \in ReachFrom(Edges[stack[Len(stack)].unit], Edges)
  BY <1>2, <1>4, <1>8 DEF DescentInv
<1>10. stack[Len(stack)].unit = ROOT
  BY <1>1, <1>2
<1> QED
  BY <1>8, <1>9, <1>10 DEF Cyclic, Reachable

-----------------------------------------------------------------------------
(* HIR generation *)

\* DescentInv of the next state, in terms of a graph that did not change.
Descended ==
  /\ path' = path /\ g_modules' = g_modules /\ Edges' = Edges
  /\ Chained(stack')
  /\ \A k \in DOMAIN stack' : \A f \in Passed(stack', k) :
       f \in Files /\ (hirMod'[f] = "tree" \/ g_modules[f].ast = "null")
  /\ \A m \in DOMAIN stack' : \A k \in 1 .. m - 1 :
       stack'[k].unit \in ReachFrom(Edges[stack'[m].unit], Edges)

LEMMA DescendedInv == Descended => DescentInv'
<1> SUFFICES ASSUME Descended PROVE DescentInv'
  OBVIOUS
<1>1. path' = path /\ g_modules' = g_modules /\ Edges' = Edges
  BY DEF Descended
<1>2. Chained(stack)'
  BY <1>1 DEF Descended, Chained
<1>3. (\A k \in DOMAIN stack : \A f \in Passed(stack, k) : f \in Files /\ Settled(f))'
  BY <1>1 DEF Descended, Passed, Settled
<1>4. (\A m \in DOMAIN stack : \A k \in 1 .. m - 1 :
         stack[k].unit \in ReachFrom(Edges[stack[m].unit], Edges))'
  BY <1>1 DEF Descended, ReachFrom, Closed
<1> QED
  BY <1>2, <1>3, <1>4 DEF DescentInv

\* Lowering a module, or noting that it has nothing to lower.
LEMMA LowerStep ==
  ASSUME TypeOK, LoweredInv, [Next]_vars, phase # "semantic", NEW f \in Files,
         NEW node \in {"null", "tree"}, loadOrCreateMod(f, node),
         g_modules[f].ast = node, \A g \in Edges[f] : Settled(g)
  PROVE  /\ LoweredInv'
         /\ \A h \in Files : Settled(h) => hirMod'[h] = "tree" \/ g_modules[h].ast = "null"
         /\ hirMod'[f] = "tree" \/ g_modules[f].ast = "null"
<1>1. /\ path' = path /\ g_modules' = g_modules /\ Edges' = Edges /\ phase' # "semantic"
  BY GraphStays
<1>2. hirMod \in [Files -> {"absent", "null", "tree"}]
  BY DEF TypeOK
<1>3. /\ hirMod' \in [Files -> {"absent", "null", "tree"}]
      /\ \A h \in Files : h # f => hirMod'[h] = hirMod[h]
      /\ hirMod[f] # "absent" => hirMod'[f] = hirMod[f]
      /\ hirMod[f] = "absent" => hirMod'[f] = node
  BY <1>2 DEF loadOrCreateMod
<1>4. hirMod'[f] = "tree" \/ g_modules[f].ast = "null"
  BY <1>2, <1>3 DEF LoweredInv
<1>5. \A h \in Files : Settled(h) => hirMod'[h] = "tree" \/ g_modules[h].ast = "null"
  BY <1>3 DEF Settled
<1>6. ASSUME NEW h \in Files, hirMod'[h] = "tree"
      PROVE  /\ \A g \in Edges[h] : Settled(g)
             /\ h \notin ReachFrom(Edges[h], Edges)
  <2>1. CASE hirMod[h] = "tree"
    BY <2>1 DEF LoweredInv
  <2>2. CASE hirMod[h] # "tree"
    <3>1. h = f /\ node = "tree" /\ ~Settled(f)
      BY <1>3, <1>6, <2>2 DEF Settled
    <3> QED
      BY <3>1, NotOnCycle
  <2> QED
    BY <2>1, <2>2
<1>7. ASSUME NEW h \in Files, hirMod'[h] = "null" PROVE g_modules[h].ast = "null"
  BY <1>3, <1>7 DEF LoweredInv
<1>8. \A h \in Files : g_modules[h].ast = "null" => path[h] = << >>
  BY DEF LoweredInv
<1>9. ASSUME NEW h \in Files, hirMod'[h] = "tree"
      PROVE  (\A g \in Edges[h] : Settled(g))' /\ h \notin ReachFrom(Edges'[h], Edges')
  <2>1. \A g \in Edges[h] : g \in Files
    BY DEF Edges, Units
  <2> QED
    BY <1>1, <1>5, <1>6, <1>9, <2>1 DEF Settled
<1>10. LoweredInv'
  BY <1>1, <1>7, <1>8, <1>9 DEF LoweredInv, ReachFrom, Closed
<1> QED
  BY <1>4, <1>5, <1>10

\* Nothing is lowered in this step.
LEMMA LoweredStays ==
  ASSUME LoweredInv, [Next]_vars, phase # "semantic", hirMod' = hirMod
  PROVE  LoweredInv'
<1>1. /\ path' = path /\ g_modules' = g_modules /\ Edges' = Edges /\ phase' # "semantic"
  BY GraphStays
<1> QED
  BY <1>1 DEF LoweredInv, Settled, ReachFrom, Closed

\* All imports of a unit have been finished with when its body is reached.
LEMMA AllPassed ==
  ASSUME TypeOK, stack # << >>, top.i > Len(path[top.unit])
  PROVE  \A f \in Edges[top.unit] : f \in Passed(stack, 1)
<1>1. stack \in Seq(Frames) /\ path \in [Units -> Seq(Names \cup Files)]
  BY DEF TypeOK
<1>2. top = stack[1] /\ top.unit \in Units /\ top.i \in Nat
  BY <1>1, TopFacts
<1>3. path[top.unit] \in Seq(Names \cup Files)
  BY <1>1, <1>2
<1> SUFFICES ASSUME NEW f \in Edges[top.unit] PROVE f \in Passed(stack, 1)
  OBVIOUS
<1>4. PICK j \in DOMAIN path[top.unit] : f = path[top.unit][j]
  BY <1>2, EdgesType
<1>5. j < top.i
  BY <1>2, <1>3, <1>4
<1> QED
  BY <1>2, <1>4, <1>5 DEF Passed

\* What HIRGen does in one step.
Generating ==
  /\ ImportInv /\ GraphInv /\ [Next]_vars /\ phase = "HIRGen"
  /\ top.step # "begin"

LEMMA GenerateAdvances ==
  ASSUME Generating, generate_import, path[top.unit][top.i] \in Files,
         g_modules[path[top.unit][top.i]].ast = "null"
  PROVE  LoweredInv' /\ DescentInv'
<1> DEFINE f == path[top.unit][top.i]
<1>1. /\ TypeOK /\ stack # << >> /\ LoweredInv /\ DescentInv /\ phase = "HIRGen"
      /\ phase # "semantic" /\ [Next]_vars
  BY DEF Generating, ImportInv, StackInv, GraphInv
<1>2. top.i \in DOMAIN path[top.unit]
  BY <1>1, RequestFacts DEF generate_import, AtImport
<1>3. loadOrCreateMod(f, "null") /\ stack' = Advance /\ f \in Files
        /\ g_modules[f].ast = "null"
  BY DEF generate_import
<1>4. path' = path /\ g_modules' = g_modules /\ Edges' = Edges
  BY <1>1, GraphStays
<1> HIDE DEF f
<1>5. Edges[f] = {}
  <2>1. path[f] = << >>
    BY <1>1, <1>3 DEF LoweredInv
  <2> QED
    BY <1>3, <2>1 DEF Edges, Units, Range
<1>6. /\ LoweredInv'
      /\ \A h \in Files : Settled(h) => hirMod'[h] = "tree" \/ g_modules[h].ast = "null"
  BY <1>1, <1>3, <1>5, LowerStep
<1>7. Advanced
  BY <1>1, AdvancedFrames
<1>8. Chained(stack')
  BY <1>1, <1>2, <1>3, PassedAdvance DEF DescentInv
<1>9. DOMAIN stack' = DOMAIN stack
  BY <1>3, <1>7 DEF Advanced
<1>10. ASSUME NEW k \in DOMAIN stack', NEW g \in Passed(stack', k)
       PROVE  g \in Files /\ (hirMod'[g] = "tree" \/ g_modules[g].ast = "null")
  <2>1. g \in Passed(stack, k) \/ g = f
    BY <1>1, <1>2, <1>3, <1>9, <1>10, PassedAdvance DEF f
  <2>2. CASE g \in Passed(stack, k)
    BY <1>1, <1>6, <1>9, <2>2 DEF DescentInv
  <2> QED
    BY <1>3, <2>1, <2>2
<1>11. ASSUME NEW m \in DOMAIN stack', NEW k \in 1 .. m - 1
       PROVE  stack'[k].unit \in ReachFrom(Edges[stack'[m].unit], Edges)
  <2>1. m \in 1 .. Len(stack) /\ k \in 1 .. Len(stack) /\ m \in DOMAIN stack
    BY <1>7, <1>9 DEF Advanced
  <2>2. stack'[k].unit = stack[k].unit /\ stack'[m].unit = stack[m].unit
    BY <1>3, <1>7, <2>1 DEF Advanced
  <2> QED
    BY <1>1, <2>1, <2>2 DEF DescentInv
<1>12. Descended
  BY <1>4, <1>8, <1>10, <1>11 DEF Descended
<1> QED
  BY <1>6, <1>12, DescendedInv

LEMMA GenerateCalls ==
  ASSUME Generating, generate_import, path[top.unit][top.i] \in Files,
         stack' = Push(Frame(path[top.unit][top.i], "first"), Advance), hirMod' = hirMod
  PROVE  LoweredInv' /\ DescentInv'
<1> DEFINE f == path[top.unit][top.i]
<1>1. /\ TypeOK /\ stack # << >> /\ LoweredInv /\ DescentInv /\ phase = "HIRGen"
      /\ phase # "semantic" /\ [Next]_vars /\ stack \in Seq(Frames)
  BY DEF Generating, ImportInv, StackInv, GraphInv, TypeOK
<1>2. top.i \in DOMAIN path[top.unit] /\ f \in Files
  BY <1>1, RequestFacts DEF generate_import, AtImport
<1>3. path' = path /\ g_modules' = g_modules /\ Edges' = Edges
  BY <1>1, GraphStays
<1>4. LoweredInv'
  BY <1>1, LoweredStays
<1>5. Called(stack', f)
  BY <1>1, <1>2, CalledFrames
<1>6. /\ \A k \in 2 .. Len(stack) + 1 : stack'[k].unit = stack[k - 1].unit
      /\ Passed(stack', 1) = {}
      /\ \A k \in 2 .. Len(stack) + 1 : Passed(stack', k) = Passed(stack, k - 1)
      /\ Chained(stack) => Chained(stack')
  BY <1>1, <1>2, <1>5, PassedPush
<1>7. DOMAIN stack' = 1 .. Len(stack) + 1 /\ stack'[1].unit = f
  BY <1>5 DEF Called
<1>8. /\ DOMAIN stack = 1 .. Len(stack) /\ Len(stack) \in Nat \ {0} /\ top = stack[1]
      /\ \A k \in DOMAIN stack : stack[k].unit \in Units
  BY <1>1, TopFacts
<1>9. f \in Edges[stack[1].unit]
  BY <1>1, <1>2, <1>8, EdgesType
<1> HIDE DEF f
<1>10. Chained(stack')
  BY <1>1, <1>6 DEF DescentInv
<1>11. ASSUME NEW k \in DOMAIN stack', NEW g \in Passed(stack', k)
       PROVE  g \in Files /\ (hirMod'[g] = "tree" \/ g_modules[g].ast = "null")
  <2>1. k # 1
    BY <1>6, <1>11
  <2>2. k \in 2 .. Len(stack) + 1 /\ k - 1 \in DOMAIN stack
    BY <1>7, <1>8, <2>1
  <2>3. g \in Passed(stack, k - 1)
    BY <1>6, <1>11, <2>2
  <2> QED
    BY <1>1, <2>2, <2>3 DEF DescentInv, Settled
<1>12. ASSUME NEW m \in DOMAIN stack', NEW k \in 1 .. m - 1
       PROVE  stack'[k].unit \in ReachFrom(Edges[stack'[m].unit], Edges)
  <2>1. m \in 2 .. Len(stack) + 1 /\ m - 1 \in DOMAIN stack
    BY <1>7, <1>8
  <2>2. stack'[m].unit = stack[m - 1].unit /\ stack[m - 1].unit \in Units
    BY <1>6, <1>8, <2>1
  <2> DEFINE E == Edges[stack[m - 1].unit]
  <2>3. /\ E \in SUBSET Files /\ Edges \in [Units -> SUBSET Files]
    BY <1>1, <2>2, EdgesType
  <2>4. CASE k = 1
    <3>1. CASE m = 2
      <4>1. f \in E
        BY <1>9, <3>1
      <4> QED
        BY <1>7, <2>2, <2>3, <2>4, <4>1, ReachFacts
    <3>2. CASE m # 2
      <4>1. stack[1].unit \in ReachFrom(E, Edges)
        <5>1. 1 \in 1 .. m - 1 - 1
          BY <1>7, <1>8, <2>1, <3>2
        <5> QED
          BY <1>1, <2>1, <5>1 DEF DescentInv
      <4>2. f \in ReachFrom(E, Edges)
        <5> HIDE DEF E
        <5> QED
          BY <1>9, <2>3, <4>1, ReachFacts
      <4> QED
        BY <1>7, <2>2, <2>4, <4>2
    <3> QED
      BY <3>1, <3>2
  <2>5. CASE k # 1
    <3>1. k \in 2 .. Len(stack) + 1 /\ k - 1 \in 1 .. m - 1 - 1
      BY <1>7, <1>8, <2>1, <2>5
    <3>2. stack'[k].unit = stack[k - 1].unit
      BY <1>6, <3>1
    <3>3. stack[k - 1].unit \in ReachFrom(E, Edges)
      BY <1>1, <2>1, <3>1 DEF DescentInv
    <3> QED
      BY <2>2, <3>2, <3>3
  <2> QED
    BY <2>4, <2>5
<1>13. Descended
  BY <1>1, <1>3, <1>10, <1>11, <1>12 DEF Descended
<1> QED
  BY <1>4, <1>13, DescendedInv

LEMMA GenerateReturns ==
  ASSUME Generating, AtBody("HIRGen"), top.unit # ROOT, loadOrCreateMod(top.unit, "tree"),
         stack' = Tail(stack)
  PROVE  LoweredInv' /\ DescentInv'
<1> DEFINE f == top.unit
<1>1. /\ TypeOK /\ stack # << >> /\ LoweredInv /\ DescentInv /\ phase = "HIRGen"
      /\ phase # "semantic" /\ [Next]_vars /\ stack \in Seq(Frames)
      /\ path \in [Units -> Seq(Names \cup Files)] /\ StackInv
  BY DEF Generating, ImportInv, StackInv, GraphInv, TypeOK
<1>2. /\ DOMAIN stack = 1 .. Len(stack) /\ Len(stack) \in Nat \ {0} /\ top = stack[1]
      /\ top.unit \in Units /\ top.i \in Nat
      /\ \A k \in DOMAIN stack : stack[k].unit \in Units
  BY <1>1, TopFacts
<1>3. f \in Files /\ g_modules[f].ast = "tree" /\ Len(stack) # 1
  BY <1>1, <1>2 DEF StackInv, HasTree, Units
<1>4. top.i > Len(path[top.unit])
  BY DEF AtBody
<1>5. \A g \in Edges[f] : Settled(g)
  BY <1>1, <1>2, <1>4, AllPassed DEF DescentInv
<1>6. path' = path /\ g_modules' = g_modules /\ Edges' = Edges
  BY <1>1, GraphStays
<1>7. /\ LoweredInv'
      /\ \A h \in Files : Settled(h) => hirMod'[h] = "tree" \/ g_modules[h].ast = "null"
      /\ hirMod'[f] = "tree" \/ g_modules[f].ast = "null"
  BY <1>1, <1>3, <1>5, LowerStep
<1>8. /\ DOMAIN stack' = 1 .. Len(stack) - 1
      /\ \A k \in 1 .. Len(stack) - 1 : stack'[k] = stack[k + 1]
      /\ \A k \in 1 .. Len(stack) - 1 : \A g \in Passed(stack', k) :
           g \in Passed(stack, k + 1) \/ (k = 1 /\ g = f)
      /\ Chained(stack')
  BY <1>1, <1>3, PassedPop DEF DescentInv
<1>9. ASSUME NEW k \in DOMAIN stack', NEW g \in Passed(stack', k)
      PROVE  g \in Files /\ (hirMod'[g] = "tree" \/ g_modules[g].ast = "null")
  <2>1. g \in Passed(stack, k + 1) \/ g = f
    BY <1>8, <1>9
  <2>2. k + 1 \in DOMAIN stack
    BY <1>2, <1>8
  <2>3. CASE g \in Passed(stack, k + 1)
    BY <1>1, <1>7, <2>2, <2>3 DEF DescentInv
  <2> QED
    BY <1>3, <1>7, <2>1, <2>3
<1>10. ASSUME NEW m \in DOMAIN stack', NEW k \in 1 .. m - 1
       PROVE  stack'[k].unit \in ReachFrom(Edges[stack'[m].unit], Edges)
  <2>1. /\ m + 1 \in DOMAIN stack /\ k + 1 \in 1 .. m + 1 - 1
        /\ m \in 1 .. Len(stack) - 1 /\ k \in 1 .. Len(stack) - 1
    BY <1>2, <1>8
  <2>2. stack'[k].unit = stack[k + 1].unit /\ stack'[m].unit = stack[m + 1].unit
    BY <1>8, <2>1
  <2> QED
    BY <1>1, <2>1, <2>2 DEF DescentInv
<1>11. Descended
  BY <1>6, <1>8, <1>9, <1>10 DEF Descended
<1> QED
  BY <1>7, <1>11, DescendedInv

\* Nothing of what HIRGen has built changes when it ends.
LEMMA CyclicStays ==
  ASSUME [Next]_vars, phase # "semantic"
  PROVE  Cyclic' <=> Cyclic
<1>1. Edges' = Edges
  BY GraphStays
<1> QED
  BY <1>1 DEF Cyclic, Reachable, ReachFrom, Closed

LEMMA GenerateEnds ==
  ASSUME Generating, AtBody("HIRGen"), top.unit = ROOT, hirMod' = hirMod,
         ir_out' = ir_out, stack' = <<Frame(ROOT, "first")>>, phase' = "codegen"
  PROVE  LoweredInv' /\ DescentInv' /\ WholeInv' /\ EmitInv'
<1>1. /\ TypeOK /\ stack # << >> /\ LoweredInv /\ DescentInv /\ phase = "HIRGen"
      /\ phase # "semantic" /\ [Next]_vars /\ stack \in Seq(Frames)
      /\ ir_out = << >>
  BY DEF Generating, ImportInv, StackInv, GraphInv, TypeOK, EmitInv
<1>2. top.i > Len(path[ROOT]) /\ top = stack[1] /\ 1 \in DOMAIN stack
  BY <1>1, TopFacts DEF AtBody
<1>3. \A g \in Edges[ROOT] : Settled(g)
  BY <1>1, <1>2, AllPassed DEF DescentInv
<1>4. ~Cyclic
  BY <1>1, <1>3, LoweredIsAcyclic
<1>5. LoweredInv' /\ DescentInv'
  BY <1>1, LoweredStays DEF DescentInv
<1>6. /\ path' = path /\ g_modules' = g_modules /\ Edges' = Edges /\ ~Cyclic'
  BY <1>1, <1>4, GraphStays, CyclicStays
<1>7. WholeInv'
  BY <1>3, <1>6 DEF WholeInv, Settled
<1>8. EmitInv'
  <2>1. /\ Len(stack') = 1 /\ DOMAIN stack' = {1} /\ stack'[1].unit = ROOT
        /\ stack'[1].i = 1 /\ ir_out' = << >>
    BY <1>1 DEF Frame
  <2>2. \A j \in DOMAIN path'[ROOT] : ~(j < 1)
    <3>1. path'[ROOT] \in Seq(Names \cup Files)
      BY <1>1, <1>6 DEF TypeOK, Units
    <3> QED
      BY <3>1
  <2>3. Chained(stack)'
    BY <2>1 DEF Chained
  <2>4. Range(ir_out') = {} /\ DOMAIN ir_out' = {}
    BY <2>1 DEF Range
  <2>5. (\A f \in Passed(stack, 1) : FALSE)'
    BY <2>1, <2>2 DEF Passed
  <2> QED
    BY <2>1, <2>3, <2>4, <2>5 DEF EmitInv
<1> QED
  BY <1>5, <1>7, <1>8

\* EmitInv of the next state, in terms of what codegen does not change.
Emitted ==
  /\ path' = path /\ g_modules' = g_modules /\ hirMod' = hirMod /\ text' = text
  /\ BlockEdges' = BlockEdges /\ InReach' = InReach
  /\ Chained(stack')
  /\ \A k \in DOMAIN stack' :
       stack'[k].unit = ROOT \/ (hirMod[stack'[k].unit] = "tree" /\ stack'[k].unit \in InReach)
  /\ \A k \in DOMAIN stack' :
       RootKind(stack'[k].unit) = "block" =>
         \A f \in Passed(stack', k) : g_modules[f].ast = "tree" => f \in Range(ir_out')
  /\ Range(ir_out') \subseteq InReach
  /\ \A k \in DOMAIN ir_out' : \A f \in BlockEdges[ir_out'[k]] :
       \E j \in 1 .. k - 1 : ir_out'[j] = f

LEMMA EmittedInv == Emitted /\ phase' = "codegen" => EmitInv'
<1> SUFFICES ASSUME Emitted, phase' = "codegen" PROVE EmitInv'
  OBVIOUS
<1>1. /\ path' = path /\ g_modules' = g_modules /\ hirMod' = hirMod /\ text' = text
      /\ BlockEdges' = BlockEdges /\ InReach' = InReach
  BY DEF Emitted
<1>2. Chained(stack)'
  BY <1>1 DEF Emitted, Chained
<1>3. (\A k \in DOMAIN stack :
         stack[k].unit = ROOT \/ (hirMod[stack[k].unit] = "tree" /\ stack[k].unit \in InReach))'
  BY <1>1 DEF Emitted
<1>4. (\A k \in DOMAIN stack :
         RootKind(stack[k].unit) = "block" =>
           \A f \in Passed(stack, k) : g_modules[f].ast = "tree" => f \in Range(ir_out))'
  <2> SUFFICES ASSUME NEW k \in DOMAIN stack'
               PROVE  (RootKind(stack[k].unit) = "block" =>
                         \A f \in Passed(stack, k) :
                           g_modules[f].ast = "tree" => f \in Range(ir_out))'
    OBVIOUS
  <2>1. RootKind(stack[k].unit)' = RootKind(stack'[k].unit)
    BY <1>1 DEF RootKind, FileOf
  <2>2. Passed(stack, k)' = Passed(stack', k)
    BY <1>1 DEF Passed
  <2> QED
    BY <1>1, <2>1, <2>2 DEF Emitted
<1>5. (Range(ir_out) \subseteq InReach)'
  BY <1>1 DEF Emitted
<1>6. (\A k \in DOMAIN ir_out : \A f \in BlockEdges[ir_out[k]] :
         \E j \in 1 .. k - 1 : ir_out[j] = f)'
  BY <1>1 DEF Emitted
<1> QED
  BY <1>2, <1>3, <1>4, <1>5, <1>6 DEF EmitInv

LEMMA GraphUnchanged == GraphInv /\ UNCHANGED vars => GraphInv'
<1> SUFFICES ASSUME GraphInv, UNCHANGED vars PROVE GraphInv'
  OBVIOUS
<1>1. /\ text' = text /\ phase' = phase /\ crash' = crash /\ stack' = stack /\ path' = path
      /\ g_modules' = g_modules /\ hirMod' = hirMod /\ ir_out' = ir_out
  BY DEF vars
<1>2. Edges' = Edges
  BY <1>1 DEF Edges
<1>3. BlockEdges' = BlockEdges /\ \A u : RootKind(u)' = RootKind(u)
  BY <1>1, <1>2 DEF BlockEdges, RootKind, FileOf
<1>4. LoweredInv'
  BY <1>1, <1>2 DEF GraphInv, LoweredInv, Settled, ReachFrom, Closed
<1>5. DescentInv'
  BY <1>1, <1>2 DEF GraphInv, DescentInv, Settled, Passed, Chained, ReachFrom, Closed
<1>6. Cyclic' <=> Cyclic
  BY <1>2 DEF Cyclic, Reachable, ReachFrom, Closed
<1>7. WholeInv'
  BY <1>1, <1>2, <1>6 DEF GraphInv, WholeInv, Settled
<1>8. InReach' = InReach
  BY <1>3 DEF InReach, ReachFrom, Closed
<1>9. EmitInv'
  <2>1. CASE phase = "codegen"
    <3>1. Emitted
      BY <1>1, <1>3, <1>8, <2>1 DEF GraphInv, EmitInv, Emitted
    <3> QED
      BY <1>1, <2>1, <3>1, EmittedInv
  <2>2. CASE phase # "codegen"
    BY <1>1, <2>2 DEF GraphInv, EmitInv
  <2> QED
    BY <2>1, <2>2
<1>10. IrInOrder'
  BY <1>1, <1>3, <1>8 DEF GraphInv, IrInOrder, InReach
<1> QED
  BY <1>1, <1>4, <1>5, <1>6, <1>7, <1>9, <1>10 DEF GraphInv

LEMMA GenerateStep ==
  ASSUME ImportInv, GraphInv, [Next]_vars, phase = "HIRGen"
  PROVE  GraphInv'
<1>1. /\ TypeOK /\ stack # << >> /\ LoweredInv /\ DescentInv /\ stack \in Seq(Frames)
      /\ phase # "semantic" /\ crash # "stack" /\ ir_out = << >>
  BY DEF ImportInv, StackInv, GraphInv, TypeOK, EmitInv
<1>2. CASE generate_import
  <2>1. Generating
    BY <1>2 DEF Generating, generate_import, AtImport
  <2>2. /\ ir_out' = ir_out
        /\ phase' = "HIRGen" \/ (phase' = "crashed" /\ hirMod' = hirMod)
    BY <1>2 DEF generate_import, generate, Crash
  <2>3. crash' = "stack" => ~(Len(stack) < StackLimit) /\ phase' = "crashed"
    BY <1>1, <1>2 DEF generate_import, generate, Crash
  <2>4. crash' = "stack" => Cyclic' /\ phase' = "crashed"
    BY <1>1, <2>3, DeepIsCyclic, CyclicStays
  <2>5. LoweredInv' /\ DescentInv'
    <3>1. CASE phase' = "crashed"
      BY <1>1, <2>2, <3>1, LoweredStays DEF DescentInv
    <3>2. CASE phase' = "HIRGen"
      <4>1. path[top.unit][top.i] \in Files
        BY <1>2, <3>2 DEF generate_import, Crash
      <4>2. CASE g_modules[path[top.unit][top.i]].ast = "null"
        BY <1>2, <2>1, <4>1, <4>2, GenerateAdvances
      <4>3. CASE g_modules[path[top.unit][top.i]].ast # "null"
        <5>1. /\ stack' = Push(Frame(path[top.unit][top.i], "first"), Advance)
              /\ hirMod' = hirMod
          BY <1>2, <3>2, <4>1, <4>3 DEF generate_import, generate, Crash
        <5> QED
          BY <1>2, <2>1, <4>1, <5>1, GenerateCalls
      <4> QED
        BY <4>2, <4>3
    <3> QED
      BY <2>2, <3>1, <3>2
  <2>6. WholeInv' /\ EmitInv' /\ IrInOrder'
    BY <1>1, <2>2 DEF WholeInv, EmitInv, IrInOrder
  <2> QED
    BY <2>4, <2>5, <2>6 DEF GraphInv
<1>3. CASE generate_body
  <2>1. Generating /\ AtBody("HIRGen")
    BY <1>3 DEF Generating, generate_body, AtBody
  <2>2. ir_out' = ir_out /\ crash' = crash
    BY <1>3 DEF generate_body
  <2>3. CASE phase' = "reported"
    <3>1. hirMod' = hirMod
      BY <1>3, <2>3 DEF generate_body, AtBody
    <3>2. LoweredInv'
      BY <1>1, <3>1, LoweredStays
    <3> QED
      BY <1>1, <2>2, <2>3, <3>2
         DEF GraphInv, DescentInv, WholeInv, EmitInv, IrInOrder
  <2>4. CASE phase' = "codegen"
    <3>1. /\ top.unit = ROOT /\ hirMod' = hirMod
          /\ stack' = <<Frame(ROOT, "first")>>
      BY <1>3, <2>4 DEF generate_body, AtBody
    <3>2. LoweredInv' /\ DescentInv' /\ WholeInv' /\ EmitInv'
      BY <2>1, <2>2, <2>4, <3>1, GenerateEnds
    <3> QED
      BY <1>1, <2>2, <2>4, <3>2 DEF GraphInv, IrInOrder
  <2>5. CASE phase' = "HIRGen"
    <3>1. /\ top.unit # ROOT /\ loadOrCreateMod(top.unit, "tree")
          /\ stack' = Tail(stack)
      BY <1>3, <2>5 DEF generate_body, AtBody
    <3>2. LoweredInv' /\ DescentInv'
      BY <2>1, <3>1, GenerateReturns
    <3> QED
      BY <1>1, <2>2, <2>5, <3>2 DEF GraphInv, WholeInv, EmitInv, IrInOrder
  <2>6. phase' \in {"reported", "codegen", "HIRGen"}
    BY <1>3 DEF generate_body, AtBody
  <2> QED
    BY <2>3, <2>4, <2>5, <2>6
<1>4. CASE UNCHANGED vars
  BY <1>4, GraphUnchanged
<1> QED
  BY <1>2, <1>3, <1>4
     DEF Next, Step, Finished, semantic_check, import_fails, import_cached, import_new,
         check_body, codegen_import, codegen_lone, codegen_end, AtImport, AtBody

-----------------------------------------------------------------------------
(* Code generation *)

LEMMA RangeAppend ==
  ASSUME NEW s \in Seq(Files), NEW x \in Files
  PROVE  /\ DOMAIN Append(s, x) = 1 .. Len(s) + 1 /\ Append(s, x)[Len(s) + 1] = x
         /\ \A k \in 1 .. Len(s) : Append(s, x)[k] = s[k]
         /\ Range(Append(s, x)) = Range(s) \cup {x}
<1>1. /\ DOMAIN Append(s, x) = 1 .. Len(s) + 1 /\ Append(s, x)[Len(s) + 1] = x
      /\ \A k \in 1 .. Len(s) : Append(s, x)[k] = s[k]
      /\ DOMAIN s = 1 .. Len(s) /\ Len(s) \in Nat
  OBVIOUS
<1> QED
  BY <1>1 DEF Range

\* What codegen does in one step.
Emitting == ImportInv /\ GraphInv /\ [Next]_vars /\ phase = "codegen"

LEMMA EmitFacts ==
  ASSUME Emitting
  PROVE  /\ TypeOK /\ stack \in Seq(Frames) /\ stack # << >> /\ StackInv /\ TableInv
         /\ LoweredInv /\ WholeInv /\ EmitInv /\ Chained(stack)
         /\ phase # "semantic" /\ [Next]_vars /\ ~isError
         /\ DOMAIN stack = 1 .. Len(stack) /\ Len(stack) \in Nat \ {0} /\ top = stack[1]
         /\ 1 \in DOMAIN stack /\ top.unit \in Units /\ top.i \in Nat \ {0}
         /\ \A f \in Edges[top.unit] : f \in Files /\ Settled(f)
         /\ InReach \in SUBSET Files /\ BlockEdges[ROOT] \subseteq InReach
         /\ \A f \in InReach : BlockEdges[f] \subseteq InReach
<1>1. /\ TypeOK /\ stack \in Seq(Frames) /\ stack # << >> /\ StackInv /\ TableInv
      /\ LoweredInv /\ WholeInv /\ EmitInv /\ phase = "codegen" /\ [Next]_vars
      /\ ~isError
  BY DEF Emitting, ImportInv, TypeOK, StackInv, GraphInv, CodegenInv
<1>2. /\ DOMAIN stack = 1 .. Len(stack) /\ Len(stack) \in Nat \ {0} /\ top = stack[1]
      /\ 1 \in DOMAIN stack /\ top.unit \in Units /\ top.i \in Nat \ {0}
  BY <1>1, TopFacts
<1>3. Edges \in [Units -> SUBSET Files] /\ BlockEdges \in [Units -> SUBSET Files]
  BY <1>1, EdgesType
<1>4. \A f \in Edges[top.unit] : f \in Files /\ Settled(f)
  <2>1. top.unit = ROOT \/ hirMod[top.unit] = "tree"
    BY <1>1, <1>2 DEF EmitInv
  <2>2. CASE top.unit = ROOT
    BY <1>1, <1>2, <1>3, <2>2 DEF WholeInv
  <2>3. CASE top.unit # ROOT
    BY <1>1, <1>2, <1>3, <2>1, <2>3 DEF LoweredInv, Units
  <2> QED
    BY <2>2, <2>3
<1>5. /\ InReach \in SUBSET Files /\ BlockEdges[ROOT] \subseteq InReach
      /\ \A f \in InReach : BlockEdges[f] \subseteq InReach
  <2>1. BlockEdges[ROOT] \in SUBSET Files
    BY <1>3 DEF Units
  <2> QED
    BY <1>3, <2>1, ReachFacts DEF InReach
<1> QED
  BY <1>1, <1>2, <1>4, <1>5 DEF EmitInv

LEMMA EmitStays ==
  ASSUME Emitting, hirMod' = hirMod
  PROVE  /\ path' = path /\ g_modules' = g_modules /\ hirMod' = hirMod /\ text' = text
         /\ BlockEdges' = BlockEdges /\ InReach' = InReach
         /\ LoweredInv' /\ WholeInv' /\ (phase' # "HIRGen" => DescentInv')
<1>1. LoweredInv /\ phase # "semantic" /\ [Next]_vars /\ WholeInv /\ phase = "codegen"
  BY EmitFacts DEF Emitting
<1>2. /\ path' = path /\ g_modules' = g_modules /\ text' = text
      /\ BlockEdges' = BlockEdges /\ Edges' = Edges
  BY <1>1, GraphStays
<1>3. InReach' = InReach
  BY <1>2 DEF InReach, ReachFrom, Closed
<1>4. LoweredInv'
  BY <1>1, LoweredStays
<1>5. Cyclic' <=> Cyclic
  BY <1>1, CyclicStays
<1>6. WholeInv'
  BY <1>1, <1>2, <1>5 DEF WholeInv, Settled
<1> QED
  BY <1>2, <1>3, <1>4, <1>6 DEF DescentInv

\* An import that has nothing to generate, or is not looked at.
LEMMA EmitAdvances ==
  ASSUME Emitting, AtImport("codegen"), stack' = Advance, hirMod' = hirMod,
         ir_out' = ir_out,
         \/ RootKind(top.unit) # "block"
         \/ /\ path[top.unit][top.i] \in Files
            /\ hirMod[path[top.unit][top.i]] # "tree"
  PROVE  Emitted
<1> DEFINE f == path[top.unit][top.i]
<1>1. /\ TypeOK /\ stack # << >> /\ EmitInv /\ Chained(stack) /\ phase = "codegen"
      /\ top = stack[1]
      /\ top.unit \in Units /\ \A g \in Edges[top.unit] : g \in Files /\ Settled(g)
  BY EmitFacts DEF Emitting
<1>2. top.i \in DOMAIN path[top.unit]
  BY <1>1, RequestFacts DEF AtImport
<1>3. Advanced
  BY <1>1, AdvancedFrames
<1>4. DOMAIN stack' = DOMAIN stack
  BY <1>3 DEF Advanced
<1>5. ASSUME NEW k \in DOMAIN stack PROVE stack'[k].unit = stack[k].unit
  BY <1>3, <1>5 DEF Advanced
<1>6. Chained(stack')
  BY <1>1, <1>2, PassedAdvance
<1>7. ASSUME NEW k \in DOMAIN stack', RootKind(stack'[k].unit) = "block",
             NEW g \in Passed(stack', k), g_modules[g].ast = "tree"
      PROVE  g \in Range(ir_out)
  <2>1. RootKind(stack[k].unit) = "block"
    BY <1>4, <1>5, <1>7
  <2>2. g \in Passed(stack, k) \/ (k = 1 /\ g = f)
    BY <1>1, <1>2, <1>4, <1>7, PassedAdvance
  <2>3. CASE g \in Passed(stack, k)
    BY <1>1, <1>4, <1>7, <2>1, <2>3 DEF EmitInv
  <2>4. CASE k = 1 /\ g = f
    <3>1. f \in Files /\ hirMod[f] # "tree"
      BY <1>1, <2>1, <2>4
    <3>2. f \in Edges[top.unit]
      BY <1>1, <1>2, <3>1, EdgesType
    <3> QED
      BY <1>1, <1>7, <2>4, <3>1, <3>2 DEF Settled
  <2> QED
    BY <2>2, <2>3, <2>4
<1>8. ASSUME NEW k \in DOMAIN stack'
      PROVE  stack'[k].unit = ROOT
               \/ (hirMod[stack'[k].unit] = "tree" /\ stack'[k].unit \in InReach)
  BY <1>1, <1>4, <1>5 DEF EmitInv
<1>9. /\ Range(ir_out') \subseteq InReach
      /\ \A k \in DOMAIN ir_out' : \A g \in BlockEdges[ir_out'[k]] :
           \E j \in 1 .. k - 1 : ir_out'[j] = g
  BY <1>1 DEF EmitInv
<1> HIDE DEF f
<1> QED
  BY <1>6, <1>7, <1>8, <1>9, EmitStays DEF Emitted

LEMMA EmitCalls ==
  ASSUME Emitting, AtImport("codegen"), RootKind(top.unit) = "block", hirMod' = hirMod,
         ir_out' = ir_out, path[top.unit][top.i] \in Files,
         hirMod[path[top.unit][top.i]] = "tree",
         stack' = Push(Frame(path[top.unit][top.i], "first"), Advance)
  PROVE  Emitted
<1> DEFINE f == path[top.unit][top.i]
<1>1. /\ TypeOK /\ stack # << >> /\ EmitInv /\ Chained(stack) /\ phase = "codegen"
      /\ top = stack[1] /\ 1 \in DOMAIN stack /\ TableInv
      /\ DOMAIN stack = 1 .. Len(stack) /\ Len(stack) \in Nat \ {0}
      /\ top.unit \in Units
      /\ BlockEdges[ROOT] \subseteq InReach
      /\ \A g \in InReach : BlockEdges[g] \subseteq InReach
  BY EmitFacts DEF Emitting
<1>2. top.i \in DOMAIN path[top.unit] /\ f \in Files
  BY <1>1, RequestFacts DEF AtImport
<1>3. Called(stack', f)
  BY <1>1, <1>2, CalledFrames
<1>4. /\ \A k \in 2 .. Len(stack) + 1 : stack'[k].unit = stack[k - 1].unit
      /\ Passed(stack', 1) = {}
      /\ \A k \in 2 .. Len(stack) + 1 : Passed(stack', k) = Passed(stack, k - 1)
      /\ Chained(stack) => Chained(stack')
  BY <1>1, <1>2, <1>3, PassedPush
<1>5. DOMAIN stack' = 1 .. Len(stack) + 1 /\ stack'[1].unit = f
  BY <1>3 DEF Called
<1>6. f \in InReach
  <2>1. f \in Edges[top.unit]
    BY <1>1, <1>2, EdgesType
  <2>2. g_modules[f].ast = "tree"
    BY <1>1, <1>2 DEF TableInv
  <2>3. f \in BlockEdges[top.unit]
    BY <1>1, <2>1, <2>2, EdgesType
  <2>4. top.unit = ROOT \/ top.unit \in InReach
    BY <1>1 DEF EmitInv
  <2> QED
    BY <1>1, <2>3, <2>4
<1> HIDE DEF f
<1>7. ASSUME NEW k \in DOMAIN stack'
      PROVE  k = 1 \/ (k # 1 /\ k \in 2 .. Len(stack) + 1 /\ k - 1 \in DOMAIN stack)
  BY <1>1, <1>5
<1>8. ASSUME NEW k \in DOMAIN stack'
      PROVE  stack'[k].unit = ROOT
               \/ (hirMod[stack'[k].unit] = "tree" /\ stack'[k].unit \in InReach)
  <2>1. CASE k = 1
    BY <1>5, <1>6, <2>1 DEF f
  <2>2. CASE k # 1
    <3>1. k - 1 \in DOMAIN stack /\ stack'[k].unit = stack[k - 1].unit
      BY <1>4, <1>7, <2>2
    <3>2. stack[k - 1].unit = ROOT
            \/ (hirMod[stack[k - 1].unit] = "tree" /\ stack[k - 1].unit \in InReach)
      BY <1>1, <3>1 DEF EmitInv
    <3> QED
      BY <3>1, <3>2
  <2> QED
    BY <2>1, <2>2
<1>9. ASSUME NEW k \in DOMAIN stack', RootKind(stack'[k].unit) = "block",
             NEW g \in Passed(stack', k), g_modules[g].ast = "tree"
      PROVE  g \in Range(ir_out)
  <2>1. k # 1
    BY <1>4, <1>9
  <2>2. /\ k - 1 \in DOMAIN stack /\ g \in Passed(stack, k - 1)
        /\ RootKind(stack[k - 1].unit) = "block"
    BY <1>4, <1>7, <1>9, <2>1
  <2> QED
    BY <1>1, <1>9, <2>2 DEF EmitInv
<1>10. /\ Range(ir_out') \subseteq InReach
       /\ \A k \in DOMAIN ir_out' : \A g \in BlockEdges[ir_out'[k]] :
            \E j \in 1 .. k - 1 : ir_out'[j] = g
  BY <1>1 DEF EmitInv
<1> QED
  BY <1>1, <1>4, <1>8, <1>9, <1>10, EmitStays DEF Emitted

\* What codegen has finished with of a unit whose end it has reached.
LEMMA UnitEmitted ==
  ASSUME Emitting, AtBody("codegen")
  PROVE  \A f \in BlockEdges[top.unit] : f \in Range(ir_out)
<1>1. /\ TypeOK /\ stack # << >> /\ EmitInv /\ phase = "codegen" /\ top = stack[1]
      /\ 1 \in DOMAIN stack /\ top.unit \in Units
  BY EmitFacts DEF Emitting
<1>2. top.i > Len(path[top.unit])
  BY DEF AtBody
<1> SUFFICES ASSUME NEW f \in BlockEdges[top.unit] PROVE f \in Range(ir_out)
  OBVIOUS
<1>3. /\ RootKind(top.unit) = "block" /\ f \in Edges[top.unit]
      /\ g_modules[f].ast = "tree"
  BY <1>1, EdgesType
<1>4. f \in Passed(stack, 1)
  BY <1>1, <1>2, <1>3, AllPassed
<1> QED
  BY <1>1, <1>3, <1>4 DEF EmitInv

\* The end of a module's codegen puts it on ir_out.
LEMMA EmitReturns ==
  ASSUME Emitting, AtBody("codegen"), top.unit # ROOT, hirMod' = hirMod,
         ir_out' = Append(ir_out, top.unit), stack' = Tail(stack)
  PROVE  Emitted
<1> DEFINE f == top.unit
           n == Len(ir_out)
<1>1. /\ TypeOK /\ stack # << >> /\ EmitInv /\ Chained(stack) /\ phase = "codegen"
      /\ top = stack[1] /\ 1 \in DOMAIN stack /\ StackInv
      /\ DOMAIN stack = 1 .. Len(stack) /\ Len(stack) \in Nat \ {0}
      /\ top.unit \in Units
  BY EmitFacts DEF Emitting
<1>2. f \in Files /\ f \in InReach /\ Len(stack) # 1 /\ ir_out \in Seq(Files)
  BY <1>1 DEF EmitInv, StackInv, Units, TypeOK
<1>3. /\ DOMAIN stack' = 1 .. Len(stack) - 1
      /\ \A k \in 1 .. Len(stack) - 1 : stack'[k] = stack[k + 1]
      /\ \A k \in 1 .. Len(stack) - 1 : \A g \in Passed(stack', k) :
           g \in Passed(stack, k + 1) \/ (k = 1 /\ g = f)
      /\ Chained(stack')
  BY <1>1, <1>2, PassedPop
<1>4. \A g \in BlockEdges[f] : g \in Range(ir_out)
  BY UnitEmitted
<1> HIDE DEF f
<1>5. /\ DOMAIN ir_out' = 1 .. n + 1 /\ ir_out'[n + 1] = f
      /\ \A k \in 1 .. n : ir_out'[k] = ir_out[k]
      /\ Range(ir_out') = Range(ir_out) \cup {f}
      /\ DOMAIN ir_out = 1 .. n /\ n \in Nat
  BY <1>2, RangeAppend DEF f
<1>6. ASSUME NEW k \in DOMAIN stack'
      PROVE  k + 1 \in DOMAIN stack /\ stack'[k] = stack[k + 1] /\ k \in 1 .. Len(stack) - 1
  BY <1>1, <1>3
<1>7. ASSUME NEW k \in DOMAIN stack'
      PROVE  stack'[k].unit = ROOT
               \/ (hirMod[stack'[k].unit] = "tree" /\ stack'[k].unit \in InReach)
  <2>1. k + 1 \in DOMAIN stack /\ stack'[k].unit = stack[k + 1].unit
    BY <1>6
  <2>2. stack[k + 1].unit = ROOT
          \/ (hirMod[stack[k + 1].unit] = "tree" /\ stack[k + 1].unit \in InReach)
    BY <1>1, <2>1 DEF EmitInv
  <2> QED
    BY <2>1, <2>2
<1>8. ASSUME NEW k \in DOMAIN stack', RootKind(stack'[k].unit) = "block",
             NEW g \in Passed(stack', k), g_modules[g].ast = "tree"
      PROVE  g \in Range(ir_out')
  <2>1. g \in Passed(stack, k + 1) \/ g = f
    BY <1>3, <1>6, <1>8
  <2>2. CASE g = f
    BY <1>5, <2>2
  <2>3. CASE g \in Passed(stack, k + 1)
    <3>1. k + 1 \in DOMAIN stack /\ RootKind(stack[k + 1].unit) = "block"
      BY <1>6, <1>8
    <3>2. g \in Range(ir_out)
      BY <1>1, <1>8, <2>3, <3>1 DEF EmitInv
    <3> QED
      BY <1>5, <3>2
  <2> QED
    BY <2>1, <2>2, <2>3
<1>9. Range(ir_out') \subseteq InReach
  BY <1>1, <1>2, <1>5 DEF EmitInv
<1>10. ASSUME NEW k \in DOMAIN ir_out', NEW g \in BlockEdges[ir_out'[k]]
       PROVE  \E j \in 1 .. k - 1 : ir_out'[j] = g
  <2>1. CASE k = n + 1
    <3>1. g \in Range(ir_out)
      BY <1>4, <1>5, <1>10, <2>1
    <3>2. PICK j \in 1 .. n : ir_out[j] = g
      BY <1>5, <3>1 DEF Range
    <3>3. j \in 1 .. k - 1 /\ ir_out'[j] = g
      BY <1>5, <2>1, <3>2
    <3> QED
      BY <3>3
  <2>2. CASE k # n + 1
    <3>1. k \in 1 .. n /\ k \in DOMAIN ir_out /\ ir_out'[k] = ir_out[k]
      BY <1>5, <2>2
    <3>2. PICK j \in 1 .. k - 1 : ir_out[j] = g
      BY <1>1, <1>10, <3>1 DEF EmitInv
    <3>3. ir_out'[j] = g
      BY <1>5, <3>1, <3>2
    <3> QED
      BY <3>3
  <2> QED
    BY <2>1, <2>2
<1> QED
  BY <1>3, <1>7, <1>8, <1>9, <1>10, EmitStays DEF Emitted

\* The end of the program's codegen: everything in reach is on ir_out.
LEMMA EmitEnds ==
  ASSUME Emitting, AtBody("codegen"), top.unit = ROOT, hirMod' = hirMod, ir_out' = ir_out
  PROVE  IrInOrder'
<1>1. /\ TypeOK /\ EmitInv /\ phase = "codegen" /\ InReach \in SUBSET Files
  BY EmitFacts DEF Emitting
<1>2. BlockEdges' = BlockEdges /\ InReach' = InReach
  BY EmitStays
<1>3. \A f \in BlockEdges[ROOT] : f \in Range(ir_out)
  BY UnitEmitted
<1>4. /\ Range(ir_out) \subseteq InReach
      /\ \A k \in DOMAIN ir_out : \A f \in BlockEdges[ir_out[k]] :
           \E j \in 1 .. k - 1 : ir_out[j] = f
  BY <1>1 DEF EmitInv
<1>5. ASSUME NEW u \in Range(ir_out) PROVE BlockEdges[u] \subseteq Range(ir_out)
  <2> SUFFICES ASSUME NEW f \in BlockEdges[u] PROVE f \in Range(ir_out)
    OBVIOUS
  <2>1. /\ DOMAIN ir_out = 1 .. Len(ir_out) /\ Len(ir_out) \in Nat
    BY <1>1 DEF TypeOK
  <2>2. PICK k \in DOMAIN ir_out : ir_out[k] = u
    BY <1>5 DEF Range
  <2>3. PICK j \in 1 .. k - 1 : ir_out[j] = f
    BY <1>4, <2>2
  <2>4. j \in DOMAIN ir_out
    BY <2>1, <2>2, <2>3
  <2> QED
    BY <2>3, <2>4 DEF Range
<1>6. /\ Range(ir_out) \in SUBSET Files /\ BlockEdges[ROOT] \in SUBSET Files
      /\ BlockEdges \in [Units -> SUBSET Files]
  BY <1>1, <1>4, EdgesType DEF Units
<1>7. InReach \subseteq Range(ir_out)
  BY <1>3, <1>5, <1>6, ReachFacts DEF InReach
<1>8. Range(ir_out) = InReach
  BY <1>4, <1>7
<1>9. Range(ir_out)' = InReach'
  BY <1>2, <1>8
<1> QED
  BY <1>2, <1>4, <1>9 DEF IrInOrder, InReach

LEMMA EmitStep ==
  ASSUME ImportInv, GraphInv, [Next]_vars, phase = "codegen"
  PROVE  GraphInv'
<1>0. Emitting /\ crash # "stack"
  BY DEF Emitting, GraphInv
<1>1. CASE UNCHANGED vars
  BY <1>1, GraphUnchanged
<1>2. CASE hirMod' = hirMod /\ phase' = "codegen" /\ crash' # "stack" /\ Emitted
  <2>1. EmitInv' /\ LoweredInv' /\ WholeInv' /\ DescentInv'
    BY <1>0, <1>2, EmittedInv, EmitStays
  <2> QED
    BY <1>2, <2>1 DEF GraphInv, IrInOrder
<1>3. CASE /\ hirMod' = hirMod /\ phase' \in Ended /\ crash' # "stack"
           /\ phase' = "done" => IrInOrder'
  <2>1. LoweredInv' /\ WholeInv' /\ DescentInv' /\ phase' \notin {"codegen", "HIRGen", "semantic"}
    BY <1>0, <1>3, EmitStays DEF Ended
  <2> QED
    BY <1>3, <2>1 DEF GraphInv, IrInOrder, EmitInv
<1>4. CASE codegen_import
  <2>1. /\ AtImport("codegen") /\ RootKind(top.unit) = "block" /\ hirMod' = hirMod
        /\ ir_out' = ir_out /\ phase' = phase /\ crash' = crash
    BY <1>4 DEF codegen_import
  <2>2. path[top.unit][top.i] \in Files
    <3>1. TypeOK /\ stack # << >> /\ ~isError /\ phase # "semantic"
      BY <1>0, EmitFacts
    <3>2. Resolved(top.unit) /\ top.i \in DOMAIN path[top.unit]
      BY <2>1, <3>1, ResolvedTop, RequestFacts DEF AtImport
    <3> QED
      BY <3>2 DEF Resolved
  <2>3. CASE hirMod[path[top.unit][top.i]] = "tree"
    <3>1. stack' = Push(Frame(path[top.unit][top.i], "first"), Advance)
      BY <1>4, <2>3 DEF codegen_import
    <3>2. Emitted
      BY <1>0, <2>1, <2>2, <2>3, <3>1, EmitCalls
    <3> QED
      BY <1>0, <1>2, <2>1, <3>2
  <2>4. CASE hirMod[path[top.unit][top.i]] # "tree"
    <3>1. stack' = Advance
      BY <1>4, <2>4 DEF codegen_import
    <3>2. Emitted
      BY <1>0, <2>1, <2>2, <2>4, <3>1, EmitAdvances
    <3> QED
      BY <1>0, <1>2, <2>1, <3>2
  <2> QED
    BY <2>3, <2>4
<1>5. CASE codegen_lone
  <2>1. hirMod' = hirMod /\ ir_out' = ir_out
    BY <1>5 DEF codegen_lone
  <2>2. CASE Crash("bad_root")
    BY <1>3, <2>1, <2>2 DEF Crash, Ended
  <2>3. CASE ~Crash("bad_root")
    <3>1. /\ RootKind(top.unit) = "import" /\ stack' = Advance /\ phase' = phase
          /\ crash' = crash /\ AtImport("codegen")
      BY <1>5, <2>3 DEF codegen_lone
    <3>2. Emitted
      BY <1>0, <2>1, <3>1, EmitAdvances
    <3> QED
      BY <1>0, <1>2, <2>1, <3>1, <3>2
  <2> QED
    BY <2>2, <2>3
<1>6. CASE codegen_end
  <2>1. hirMod' = hirMod /\ AtBody("codegen") /\ crash' = crash
    BY <1>6 DEF codegen_end
  <2>2. CASE top.unit = ROOT
    <3>1. phase' \in {"done", "no_main"} /\ ir_out' = ir_out
      BY <1>6, <2>2 DEF codegen_end
    <3>2. IrInOrder'
      BY <1>0, <2>1, <2>2, <3>1, EmitEnds
    <3> QED
      BY <1>0, <1>3, <2>1, <3>1, <3>2 DEF Ended
  <2>3. CASE top.unit # ROOT
    <3>1. phase' = phase /\ ir_out' = Append(ir_out, top.unit) /\ stack' = Tail(stack)
      BY <1>6, <2>3 DEF codegen_end
    <3>2. Emitted
      BY <1>0, <2>1, <2>3, <3>1, EmitReturns
    <3> QED
      BY <1>0, <1>2, <2>1, <3>1, <3>2
  <2> QED
    BY <2>2, <2>3
<1> QED
  BY <1>1, <1>4, <1>5, <1>6
     DEF Next, Step, Finished, semantic_check, import_fails, import_cached, import_new,
         check_body, generate_import, generate_body, AtImport, AtBody

-----------------------------------------------------------------------------
(* The theorems *)

\* What the import graph, the lowered modules, the two call stacks and ir_out say of
\* each other is inductive.
THEOREM GraphInvariant == Spec => []GraphInv
<1>1. Init => GraphInv
  BY GraphInit
<1>2. ImportInv /\ ImportInv' /\ GraphInv /\ [Next]_vars => GraphInv'
  <2> SUFFICES ASSUME ImportInv, ImportInv', GraphInv, [Next]_vars PROVE GraphInv'
    OBVIOUS
  <2>1. phase \in {"semantic", "HIRGen", "codegen"} \cup Ended
    BY DEF ImportInv, TypeOK
  <2>2. CASE phase \in Ended
    <3>1. UNCHANGED vars
      BY <2>2 DEF Next, Step, Finished, Ended, semantic_check, import_fails, import_cached,
         import_new, check_body, generate_import, generate_body, codegen_import,
         codegen_lone, codegen_end, AtImport, AtBody
    <3> QED
      BY <3>1, GraphUnchanged
  <2> QED
    BY <2>1, <2>2, SemanticStep, GenerateStep, EmitStep
<1> QED
  BY <1>1, <1>2, ImportInvariant, PTL DEF Spec

\* generate exhausts the stack only on a program with an import cycle, however large
\* the graph and the stack, and no such program gets to codegen.
THEOREM OverflowMeansCycle == Spec => []OverflowOnlyOnCycles
<1>1. GraphInv => OverflowOnlyOnCycles
  BY DEF GraphInv, WholeInv, OverflowOnlyOnCycles
<1> QED
  BY <1>1, GraphInvariant, PTL

\* The IR of a finished compilation is that of the modules in reach, imports first
\* (codegen.cpp:180-200).
THEOREM IrIsInOrder == Spec => []IrInOrder
<1>1. GraphInv => IrInOrder
  BY DEF GraphInv
<1> QED
  BY <1>1, GraphInvariant, PTL

=============================================================================
