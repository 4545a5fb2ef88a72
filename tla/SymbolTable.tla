---------------------------- MODULE SymbolTable ----------------------------
(***************************************************************************)
(* The scopes of the parser, common/ast/symbols.cpp: a tree of tables that *)
(* outlives the parse.  A table gives each name the node that declares it  *)
(* there, 0 if there is none, and has the number of the table around it, 0 *)
(* if it is the root's.  Also the precedences of the operators,            *)
(* parsing/precedence.h and parsing/grammar.cpp.                           *)
(***************************************************************************)
EXTENDS Integers, Sequences

(* Mistake: a new table does not get the table around it.                  *)
RootTable(parent, names) == [parent |-> 0, symbols |-> [n \in names |-> 0]]

EmptyTable(parent, names) == [parent |-> parent, symbols |-> [n \in names |-> 0]]

(* The declaration that a name has in a table or, failing that, around it. *)
find_base(tables, scope, name) ==
  LET find[s \in 0 .. Len(tables)] ==
        IF s = 0 THEN 0
        ELSE IF tables[s].symbols[name] # 0 THEN tables[s].symbols[name]
        ELSE find[tables[s].parent]
  IN find[scope]

(* Mistake: a name is only refused if the current scope has it already.    *)
AddableHere(tables, scope, name) == tables[scope].symbols[name] = 0

(* validate_add passes: neither the table nor one around it has the name.  *)
Addable(tables, scope, name) == find_base(tables, scope, name) = 0

WithSymbol(tables, scope, name, node) ==
  [tables EXCEPT ![scope].symbols[name] = node]

-----------------------------------------------------------------------------
Products == {"Star", "Slash", "Modulus"}
Sums == {"Plus", "Minus"}
Equalities == {"DoubleEquals", "NotEqual"}
BinaryTokens ==
  Products \cup Sums \cup Equalities \cup {"LogOr", "LogAnd", "BitOr", "BitAnd"}
InfixTokens == BinaryTokens \cup {"Equals"}

(* get_precedence: a token that is no infix operator has precedence 0.     *)
Precedence(token) ==
  CASE token \in Products -> 10
    [] token \in Sums -> 9
    [] token \in Equalities -> 6
    [] token = "BitAnd" -> 5
    [] token = "BitOr" -> 4
    [] token = "LogAnd" -> 3
    [] token = "LogOr" -> 2
    [] token = "Equals" -> 1
    [] OTHER -> 0

(* Mistake: an operator also takes the operators of its own level.         *)
BindsLoosely(token, precedence) ==
  Precedence(token) # 0 /\ precedence <= Precedence(token)

(* parse_expr goes on at this level.                                       *)
Binds(token, precedence) == precedence < Precedence(token)
=============================================================================
