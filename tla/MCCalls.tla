------------------------------- MODULE MCCalls -------------------------------
(* Instances of CallLowering for TLC. *)
EXTENDS CallLowering

\* A callee and the arguments it is called with.
Callee(name, defined, params, returns, body, calleeFirst, linkage) ==
  [name |-> name, defined |-> defined, params |-> params, ret |-> returns, body |-> body,
   calleeFirst |-> calleeFirst, linkage |-> linkage, args |-> << >>]
Call(c, arguments) == [c EXCEPT !.args = arguments]

UpTo(S, n) == UNION {[1 .. k -> S] : k \in 0 .. n}
Rest(b) == [type |-> ListOf(b), variadic |-> TRUE]
Literal(l) == [literal |-> l, type |-> Unknown]
Typed(t) == [literal |-> "none", type |-> t]

Ints == Literal("int")
Decimals == Literal("float")
Text == Typed(Scalar("STRINGS"))
Long == Typed(Scalar("I64"))

User(params) == Callee("f", TRUE, params, NoType, << >>, TRUE, "own")

\* Up to three variadic groups behind at most one fixed parameter.
Grouped ==
  {User(fixed \o groups) :
     fixed \in UpTo({Fixed(Scalar("STRINGS"))}, 1),
     groups \in UpTo({Rest(b) : b \in {"I32", "I64", "STRINGS"}}, 3)}
ToGroups == UpTo({Ints, Decimals, Text, Long}, 4)

\* Other orders of parameters.
Disordered ==
  {User(params) :
     params \in UpTo({Rest("I32"), Fixed(Scalar("I32")), Fixed(PtrTo("I32")), Fixed(PtrTo("I64"))}, 3)}

\* One parameter or none, of every kind, under every name and linkage.
Simple ==
  {Callee(name, TRUE, params, NoType, << >>, first, linkage) :
     name \in {"f", "printf", "malloc"}, first \in BOOLEAN, linkage \in {"own", "sibling"},
     params \in UpTo({Fixed(Scalar("I32")), Fixed(Scalar("F64")), Fixed(Scalar("STRINGS")),
                      Fixed(PtrTo("I32")), Rest("I32"), Rest("STRINGS")}, 1)}
\* Functions of the program's own with the names of builtins.
Namesakes ==
  {Callee(name, TRUE, params, NoType, body, first, linkage) :
     name \in {"len", "malloc"},
     params \in UpTo({Fixed(Scalar("I32")), Fixed(ListOf("I32")), Rest("I32")}, 2),
     body \in {<< >>, <<Long>>}, first \in BOOLEAN, linkage \in {"own", "sibling"}}
\* Nothing is defined.
Builtin ==
  {Callee(name, FALSE, << >>, NoType, << >>, FALSE, "own") : name \in BuiltinNames \cup {"f", "len"}}
ToAny ==
  UpTo({Ints, Decimals, Text, Long, Typed(Scalar("F64")), Typed(ListOf("I32")), Typed(PtrTo("I32")),
        Typed(Scalar("CHARACTER"))}, 2)
\* A call whose type is not known.
ToAnything == ToAny \cup UpTo({Text, Typed(Unknown)}, 2)

\* Declared and inferred return types, checked before and behind the call.
Returning ==
  {Callee("f", TRUE, << >>, returns, body, first, linkage) :
     returns \in {NoType, Scalar("I32"), Scalar("F64"), Scalar("STRINGS"), Scalar("VOID")},
     body \in UpTo({Ints, Decimals, Text, Long, Typed(Unknown)}, 1), first \in BOOLEAN,
     linkage \in {"own", "imported", "sibling"}}

\* Who is called with what, as a filtered product: TLC takes long for the union of
\* large sets.
Callees ==
  UNION {Grouped \X {"groups"}, Disordered \X {"ints"}, (Simple \cup Namesakes) \X {"any"},
         Builtin \X {"anything"}, Returning \X {"nothing"}}
Kinds(arguments) == {arguments[a] : a \in 1 .. Len(arguments)}
Suits(arguments, with) ==
  CASE with = "groups" -> Kinds(arguments) \subseteq {Ints, Decimals, Text, Long}
    [] with = "ints" -> Kinds(arguments) \subseteq {Ints} /\ Len(arguments) <= 3
    [] with = "any" -> Len(arguments) <= 2 /\ Typed(Unknown) \notin Kinds(arguments)
    [] with = "anything" -> Len(arguments) <= 2
    [] with = "nothing" -> arguments = << >>
AllCalls ==
  {Call(s[1][1], s[2]) :
     s \in {t \in Callees \X (ToGroups \cup ToAnything) : Suits(t[2], t[1][2])}}
MCPrograms == AllCalls

=============================================================================
