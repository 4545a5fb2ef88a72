------------------------------ MODULE FrontEnd ------------------------------
(***************************************************************************)
(* What happens to the tree that the parser has built: the type checker,   *)
(* types/type_checker.cpp, visits it and refuses programs or retypes their *)
(* literals; then the code generator visits it, of which only the names    *)
(* are modelled here: where each is declared and looked up.                *)
(***************************************************************************)
EXTENDS BriskParser

VARIABLES
  errors,      \* TypeChecker::type_errors_, their number
  addrTables   \* Generator::addr_tables_: the declarations, innermost first

vars == << parserState, errors, addrTables >>

Frame == INSTANCE StackFrame

MaxErrors == 5

-----------------------------------------------------------------------------
(* The type checker.                                                       *)

Visited == trail[position + 1]
Subject == ast[Visited.node]
Kid(i) == Subject.kids[i]

(* The arguments of a call are not visited.                                *)
IsChecked(step) == step.step = "leave" /\ ~step.inCall
Checks(kinds) ==
  /\ phase = "checking"
  /\ position < Len(trail)
  /\ IsChecked(Visited)
  /\ Subject.kind \in kinds

(* Go on to the next node, with so many errors more; the fifth throws.     *)
Report(count) ==
  /\ errors' = errors + count
  /\ IF errors + count >= MaxErrors
       THEN phase' = "threw" /\ UNCHANGED position
       ELSE position' = position + 1 /\ UNCHANGED phase

Passes == Report(0)

Unless(ok) == Report(IF ok THEN 0 ELSE 1)

checkerRest == << ast, muts, trail, scopeVars, defered, parserVars, addrTables >>

(* A null type is used through a pointer: anything may follow.             *)
UsesNull == StopAs("undefined") /\ UNCHANGED << errors, addrTables >>

(* check_expr: equal types, or a literal that becomes one of type target.  *)
Converts(node, target) ==
  /\ ast[node].kind = "literal"
  /\ types[node] \in IntegralTypes
  /\ target \in IntegralTypes

Fits(node, target) == types[node] = target \/ Converts(node, target)

(* Mistake: the literal is accepted and keeps its type.                    *)
KeepsType(node, target) == types[node]

(* The type of node after check_expr: a literal that fits is retyped.      *)
Retyped(node, target) == IF Converts(node, target) THEN target ELSE types[node]

CheckNothing ==
  /\ phase = "checking"
  /\ position < Len(trail)
  /\ \/ ~IsChecked(Visited)
     \/ Subject.kind \in {"literal", "identifier", "fn"}
  /\ Passes
  /\ UNCHANGED << types, checkerRest >>

(* Operands have the same type id.                                         *)
CheckBinary ==
  /\ Checks({"binary"})
  /\ IF "null" \in {types[Kid(1)], types[Kid(2)]}
       THEN UsesNull
       ELSE /\ Unless(TypeId(types[Kid(1)]) = TypeId(types[Kid(2)]))
            /\ UNCHANGED << types, checkerRest >>

(* The left side is mutable, and the types have the same id.               *)
AssignErrors ==
  (IF muts[Kid(1)] THEN 0 ELSE 1)
  + (IF TypeId(types[Kid(1)]) = TypeId(types[Kid(2)]) THEN 0 ELSE 1)

CheckAssign ==
  /\ Checks({"assign"})
  /\ IF "null" \in {types[Kid(1)], types[Kid(2)]}
       THEN UsesNull
       ELSE Report(AssignErrors) /\ UNCHANGED << types, checkerRest >>

CheckVarDecl ==
  /\ Checks({"let"})
  /\ IF "null" \in {types[Visited.node], types[Kid(1)]}
       THEN UsesNull
       ELSE /\ Unless(types[Visited.node] = types[Kid(1)])
            /\ UNCHANGED << types, checkerRest >>

CheckRet ==
  /\ Checks({"ret"})
  /\ IF types[Kid(1)] = "null"
       THEN UsesNull
       ELSE LET target == ast[Subject.fn].word IN
            /\ Unless(Fits(Kid(1), target))
            /\ types' = [types EXCEPT ![Kid(1)] = Retyped(Kid(1), target)]
            /\ UNCHANGED checkerRest

CheckIf ==
  /\ Checks({"if"})
  /\ IF types[Kid(1)] = "null"
       THEN UsesNull
       ELSE Unless(types[Kid(1)] = "bool") /\ UNCHANGED << types, checkerRest >>

(* check_fn_call: a wrong number of arguments is an error of its own.      *)
CheckedArgs == 1 .. (IF Len(Subject.kids) < Len(ast[Subject.fn].kids)
                     THEN Len(Subject.kids) ELSE Len(ast[Subject.fn].kids))
Target(i) == types[ast[Subject.fn].kids[i]]

CheckCall ==
  /\ Checks({"call"})
  /\ IF \E i \in CheckedArgs : types[Kid(i)] = "null"
       THEN UsesNull
       ELSE /\ Report(Cardinality({i \in CheckedArgs : ~Fits(Kid(i), Target(i))})
                      + (IF Len(Subject.kids) = Len(ast[Subject.fn].kids) THEN 0 ELSE 1))
            /\ types' = [n \in 1 .. Len(types) |->
                 IF \E i \in CheckedArgs : Kid(i) = n
                 THEN Retyped(n, Target(CHOOSE i \in CheckedArgs : Kid(i) = n))
                 ELSE types[n]]
            /\ UNCHANGED checkerRest

(* One error is enough to refuse the program.                              *)
EndCheck ==
  /\ phase = "checking"
  /\ position = Len(trail)
  /\ phase' = IF errors > 0 THEN "threw" ELSE "generating"
  /\ position' = 0
  /\ UNCHANGED << types, errors, checkerRest >>

Check ==
  \/ CheckNothing \/ CheckBinary \/ CheckAssign \/ CheckVarDecl \/ CheckRet
  \/ CheckIf \/ CheckCall \/ EndCheck

-----------------------------------------------------------------------------
(* The names in the code generator: an address table for each function and *)
(* each if, in which a variable is entered after its initialiser.          *)

Generates(step, kinds) ==
  /\ phase = "generating"
  /\ position < Len(trail)
  /\ Visited.step = step
  /\ Subject.kind \in kinds

generatorRest ==
  << phase, treeVars, scopeVars, defered, parserVars, errors >>

Slot(node) == Frame!Slot(node, "declared")

PushAddrTable ==
  /\ Generates("enter", {"fn", "if"})
  /\ addrTables' =
       << [n \in AllNames |->
             IF Subject.kind = "fn" /\ \E i \in 1 .. Len(Subject.kids) : ast[Kid(i)].name = n
             THEN Slot(CHOOSE k \in 1 .. Len(ast) :
                         ast[k].name = n
                         /\ \E i \in 1 .. Len(Subject.kids) : Kid(i) = k)
             ELSE Frame!NoSlot] >> \o addrTables
  /\ position' = position + 1
  /\ UNCHANGED generatorRest

PopAddrTable ==
  /\ Generates("leave", {"fn", "if"})
  /\ addrTables' = Tail(addrTables)
  /\ position' = position + 1
  /\ UNCHANGED generatorRest

AddAddrEntry ==
  /\ Generates("leave", {"let"})
  /\ addrTables' = Frame!WithEntry(addrTables, Subject.name, Slot(Visited.node))
  /\ position' = position + 1
  /\ UNCHANGED generatorRest

(* visit(AssignExpr) visits neither side.  A name that no table has is     *)
(* thrown as a string, which nothing catches.                              *)
FindAddrEntry ==
  /\ Generates("leave", {"identifier"})
  /\ IF Visited.inAssign \/ Frame!Resolves(addrTables, Subject.name)
       THEN position' = position + 1 /\ UNCHANGED << generatorRest, addrTables >>
       ELSE StopAs("aborted") /\ UNCHANGED << errors, addrTables >>

GenerateOther ==
  /\ Generates("leave", {"literal", "binary", "assign", "call", "ret"})
  /\ position' = position + 1
  /\ UNCHANGED << generatorRest, addrTables >>

EndGenerate ==
  /\ phase = "generating"
  /\ position = Len(trail)
  /\ phase' = "done"
  /\ UNCHANGED << treeVars, scopeVars, defered, parserVars, position, errors, addrTables >>

Generate ==
  \/ PushAddrTable \/ PopAddrTable \/ AddAddrEntry \/ FindAddrEntry \/ GenerateOther
  \/ EndGenerate

-----------------------------------------------------------------------------
Stopped == {"done", "threw", "undefined", "aborted"}
Terminated == phase \in Stopped /\ UNCHANGED vars

FrontInit ==
  /\ Init
  /\ errors = 0
  /\ addrTables = << Frame!EmptyScope(AllNames) >>

FrontNext ==
  \/ (Parse \/ Resolve) /\ UNCHANGED << errors, addrTables >>
  \/ Check
  \/ Generate
  \/ Terminated

FrontSpec == FrontInit /\ [][FrontNext]_vars

-----------------------------------------------------------------------------
(* Types.                                                                  *)

Phases == {"parsing", "resolving", "checking", "generating"} \cup Stopped
NodeTypes == IntegralTypes \cup {"bool", "str", "void", "null"}
NodeKinds ==
  {"fn", "arg", "literal", "identifier", "call", "binary", "assign", "let", "ret", "if"}
TreeNode ==
  [kind : NodeKinds, name : AllNames \cup {"none"},
   word : BinaryTokens \cup NodeTypes \cup {"none"}, kids : Seq(Nat), fn : Nat]
TrailStep ==
  [step : {"enter", "leave"}, node : Nat, inCall : BOOLEAN, inAssign : BOOLEAN]
Table == [parent : Nat, symbols : [AllNames -> Nat]]
DeferedCall ==
  [what : {"parse_type", "literal", "find", "binary", "assign", "let", "callee", "call"},
   node : Nat, word : Types \cup {"none"}, of : Nat]

(* What an active parser waits for, and the item that says so.             *)
LevelItem == [what : {"expr", "infix"}, level : 0 .. 10]
HolderItem ==
  [what : {"call", "argument", "right", "assign", "explicit", "inferred", "ret",
           "condition"} \cup BodyKinds,
   node : Nat]
Item == LevelItem \cup HolderItem

(* The state of the front end: every number of a node is that of a node of *)
(* the tree, every number of a scope that of a table, and a parser that    *)
(* opens or closes a scope finds one that is open.                         *)
FrontTypeOK ==
  /\ phase \in Phases
  /\ ast \in Seq(TreeNode) /\ types \in Seq(NodeTypes) /\ muts \in Seq(BOOLEAN)
  /\ Len(types) = Len(ast) /\ Len(muts) = Len(ast)
  /\ \A n \in 1 .. Len(ast) :
       /\ ast[n].fn \in 0 .. Len(ast)
       /\ \A i \in 1 .. Len(ast[n].kids) : ast[n].kids[i] \in 1 .. Len(ast)
  /\ trail \in Seq(TrailStep) /\ \A p \in 1 .. Len(trail) : trail[p].node \in 1 .. Len(ast)
  /\ tables \in Seq(Table)
  /\ \A s \in 1 .. Len(tables) :
       /\ tables[s].parent \in 0 .. (s - 1)
       /\ \A n \in AllNames : tables[s].symbols[n] \in 0 .. Len(ast)
  /\ currentScope \in 0 .. Len(tables)
  /\ phase = "parsing" => currentScope # 0
  /\ fnTypes \in [FnNames -> 0 .. Len(ast)]
  /\ defered \in Seq(DeferedCall)
  /\ \A i \in 1 .. Len(defered) : defered[i].node \in 1 .. Len(ast)
  /\ explicitTypes \in Seq(1 .. Len(ast))
  /\ token \in Infix \cup {"none"}
  /\ agenda \in Seq(Item)
  /\ \A i \in 1 .. Len(agenda) :
       agenda[i] \in HolderItem => agenda[i].node \in 1 .. Len(ast)
  /\ value \in 0 .. Len(ast)
  /\ position \in Nat
  /\ phase = "resolving" => position <= Len(defered)
  /\ phase \in {"checking", "generating"} => position <= Len(trail)
  /\ errors \in Nat
  /\ addrTables \in Seq([AllNames -> {Frame!NoSlot} \cup {Slot(n) : n \in 1 .. Len(ast)}])

-----------------------------------------------------------------------------
(* Properties.                                                             *)

NodesOf(kind) == {n \in 1 .. Len(ast) : ast[n].kind = kind}
Ops(node) == IF ast[node].kind = "binary" THEN Precedence(ast[node].word) ELSE 11

(* However operators follow one another, those that bind tighter end up    *)
(* below the others, and of two of the same level the first one below the  *)
(* second: no operand has to be in parentheses to mean what the tree says. *)
PrecedenceRespected ==
  \A n \in NodesOf("binary") :
    /\ Len(ast[n].kids) > 0 => Ops(ast[n].kids[1]) >= Ops(n)
    /\ Len(ast[n].kids) = 2 => Ops(ast[n].kids[2]) > Ops(n)

(* The declaration that a name is bound to when the calls are run.         *)
LookedUpIn(node) ==
  (CHOOSE d \in {defered[i] : i \in 1 .. Len(defered)} :
     d.what = "find" /\ d.node = node).of
Binding(node) == find_base(tables, LookedUpIn(node), ast[node].name)

LeftAt(node) == CHOOSE i \in 1 .. Len(trail) : trail[i].step = "leave" /\ trail[i].node = node

(* A name that is not declared when it is used: it means a function, or a  *)
(* variable whose declaration is not complete there.                       *)
Premature(node) ==
  LET d == Binding(node) IN
    \/ d = 0
    \/ ast[d].kind = "fn"
    \/ ast[d].kind = "let" /\ LeftAt(d) > LeftAt(node)
SomePremature == \E n \in NodesOf("identifier") : Premature(n)

Parsed == phase \notin {"parsing", "resolving", "threw"}
ValueKinds == {"literal", "identifier", "binary", "assign", "call", "let", "arg"}

(* The order in which the calls were put off is one in which every type is *)
(* set before it is read: unless a name is used before its declaration is  *)
(* complete, every expression has a type after the parse, no visitor uses  *)
(* a null type, and the generator finds every name.                        *)
TypesResolved ==
  Parsed /\ ~SomePremature =>
    /\ phase \notin {"undefined", "aborted"}
    /\ \A n \in 1 .. Len(ast) : ast[n].kind \in ValueKinds => types[n] # "null"

(* The parser looks a name up in the scopes as they are at the end of the  *)
(* file, the generator in its address tables as they are at that point of  *)
(* the code: if the generator finds the name, it is the same declaration,  *)
(* and the one whose type the code is generated for.                       *)
BindingsAgree ==
  phase = "generating" /\ position < Len(trail) =>
    /\ Generates("leave", {"identifier"}) /\ ~Visited.inAssign =>
         \A i \in 1 .. Len(addrTables) :
           Frame!IsInnermost(addrTables, Subject.name, i) =>
             addrTables[i][Subject.name] = Slot(Binding(Visited.node))
    /\ Generates("leave", {"let"}) => ~Frame!Resolves(addrTables, Subject.name)

(* Outside the arguments of calls nothing ill-typed reaches the generator, *)
(* whatever the checker has retyped: operands agree in their type id,      *)
(* initialisers, conditions, returned values and arguments have exactly    *)
(* the type that is asked for, and a variable that is assigned is mut.     *)
CheckedNodes == {trail[i].node : i \in {k \in 1 .. Len(trail) : IsChecked(trail[k])}}

TypedNode(n) ==
  LET kids == ast[n].kids IN
  /\ ast[n].kind \in {"binary", "assign"} =>
       TypeId(types[kids[1]]) = TypeId(types[kids[2]])
  /\ ast[n].kind = "assign" /\ ast[Binding(kids[1])].kind = "let" =>
       muts[Binding(kids[1])]
  /\ ast[n].kind = "let" => types[n] = types[kids[1]]
  /\ ast[n].kind = "if" => types[kids[1]] = "bool"
  /\ ast[n].kind = "ret" => types[kids[1]] = ast[ast[n].fn].word
  /\ ast[n].kind = "call" =>
       LET parameters == ast[ast[n].fn].kids IN
         /\ Len(kids) = Len(parameters)
         /\ \A i \in 1 .. Len(kids) : types[kids[i]] = types[parameters[i]]

WellTyped == phase = "generating" => \A n \in CheckedNodes : TypedNode(n)
=============================================================================
