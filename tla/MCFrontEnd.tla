----------------------------- MODULE MCFrontEnd -----------------------------
(* Programs of three families: any statements, but few of them; longer     *)
(* ones that only declare variables in nested scopes and use them; and     *)
(* long expressions.                                                       *)
EXTENDS FrontEnd

CONSTANT FewNodes

Header(name, params, ret, ext) ==
  [name |-> name, params |-> params, ret |-> ret, ext |-> ext]

SomeHeaders ==
  { Header("f", << << "x", "u8" >> >>, "i64", TRUE),
    Header("f", << << "x", "i64" >>, << "x", "i64" >> >>, "void", TRUE),
    Header("g", << << "x", "i64" >> >>, "bool", FALSE),
    Header("g", << >>, "u8", FALSE) }

Kinds == {ast[n].kind : n \in 1 .. Len(ast)}
Literals == {types[n] : n \in NodesOf("literal")}
NoArgs == ast = << >> \/ ast[1].kids = << >>

OnlyNames ==
  /\ Kinds \subseteq {"fn", "arg", "literal", "identifier", "let", "if"}
  /\ Literals \subseteq {"bool"}
  /\ \A n \in 2 .. Len(ast) : ast[n].name \in {"x", "none"}
  /\ \A n \in 1 .. Len(ast) : ast[n].kind = "let" => ~muts[n]
  /\ explicitTypes = << >>
  /\ token = "none"

OnlyOperators ==
  /\ Kinds \subseteq {"fn", "literal", "binary"}
  /\ NoArgs
  /\ Literals \subseteq {"i64"}

Explored == Len(ast) <= FewNodes \/ OnlyNames \/ OnlyOperators
=============================================================================
