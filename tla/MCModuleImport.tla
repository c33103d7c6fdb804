---------------------------- MODULE MCModuleImport ----------------------------
(* Instances of ModuleImport for TLC. *)
EXTENDS ModuleImport

CONSTANTS main, a, b, c

\* "a.sa" and "a" name one file, "x" none.
MCLookup == [n \in Names |->
  CASE n = "main" -> main [] n \in {"a", "a.sa"} -> a [] n = "b" -> b
    [] n = "c" -> IF c \in Files THEN c ELSE NoFile
    [] n = "x" -> NoFile]

Lists(names, len) == UNION {[1 .. k -> names] : k \in 0 .. len}
Text(imports, body, fault) == [imports |-> imports, body |-> body, fault |-> fault]

Bodies == {<< >>, <<"fn">>, <<"var">>}

\* Every import graph on the program and two modules with up to two imports each,
\* and every fault in one file; a has every body, unless the fault is in b.
GraphFaults ==
  {<<main, k>> : k \in {"none", "type", "lower"}}
    \cup ({a, b} \X (FaultKinds \ {"none"}))
GraphPrograms ==
  {[f \in Files |->
      CASE f = main -> Text(im, <<"fn">>, IF flt[1] = main THEN flt[2] ELSE "none")
        [] f = a -> Text(ia, IF flt[1] = b THEN <<"fn">> ELSE body,
                         IF flt[1] = a THEN flt[2] ELSE "none")
        [] f = b -> Text(ib, <<"fn">>, IF flt[1] = b THEN flt[2] ELSE "none")
        [] OTHER -> Text(<< >>, << >>, "none")] :
     im \in Lists({"a", "a.sa", "b", "x"}, 2), ia \in Lists({"main", "b", "a"}, 2),
     ib \in Lists({"a", "main"}, 1), body \in Bodies, flt \in GraphFaults}

\* Acyclic graphs on the program and three modules without faults: the program
\* imports the modules in any order, a may import b and c, b may import c.  The
\* modules have no body, one function or two, and the program may import a module
\* several times.
DagPrograms ==
  {[f \in Files |->
      CASE f = main -> Text(im, <<"fn">>, "none")
        [] f = a -> Text(ia, body, "none")
        [] f = b -> Text(ib, body, "none")
        [] f = c -> Text(<< >>, body, "none")] :
     im \in Lists({"a", "b", "c"}, 3), ia \in Lists({"b", "c"}, 2),
     ib \in Lists({"c"}, 1), body \in {<< >>, <<"fn">>, <<"fn", "fn">>}}

AllPrograms == GraphPrograms \cup DagPrograms

\* One program each for what the source says and the code does not do.
One(im, ta, tb, tc) ==
  {[f \in Files |-> CASE f = main -> Text(im, <<"fn">>, "none") [] f = a -> ta
                      [] f = b -> tb [] f = c -> tc]}
Fn(imports) == Text(imports, <<"fn">>, "none")
CircularProgram == One(<<"a">>, Fn(<<"b">>), Fn(<<"a">>), Fn(<< >>))
MissingProgram == One(<<"a", "x">>, Fn(<< >>), Fn(<< >>), Fn(<< >>))
DiamondProgram == One(<<"a", "b">>, Fn(<<"c">>), Fn(<<"c">>), Fn(<< >>))

=============================================================================
