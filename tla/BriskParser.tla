---------------------------- MODULE BriskParser ----------------------------
(***************************************************************************)
(* The parser of briskc, parsing/brisk_parser.cpp and parsing/parsers/.    *)
(* It builds the syntax tree and the scopes, and puts off everything that  *)
(* needs a type: these calls are queued and run in order at the end of the *)
(* file.                                                                   *)
(*                                                                         *)
(* The source text is not given beforehand: whenever a parser looks at the *)
(* next token, the model lets it be any one that some program has there.   *)
(* The recursion of the parsers is unrolled into an agenda whose head is   *)
(* the innermost one.  Nodes are numbered in the order they are made in;   *)
(* trail lists them in the order in which the parser, and later every      *)
(* visitor of the tree, is done with them.                                 *)
(***************************************************************************)
EXTENDS SymbolTable, FiniteSets

CONSTANTS
  Types,       \* the types that occur in the programs
  VarNames,    \* names of variables and parameters
  FnNames,     \* names of functions
  Headers,     \* the headers of functions: name, params, ret and ext
  Infix,       \* the infix operators of the programs
  Statements,  \* the kinds of statement
  Muts,        \* whether variables are declared mut
  MaxArgs,     \* arguments of a call
  MaxNodes     \* bound: nodes after which the programs get no longer

IntegralTypes == {"u8", "i8", "u16", "i16", "u32", "i32", "u64", "i64"}

(* Type::id: the type of string literals is a pointer to u8.               *)
TypeId(t) == IF t = "str" THEN "u8" ELSE t

ASSUME ParserAssumption ==
  /\ Types \subseteq IntegralTypes \cup {"bool", "str"}
  /\ Infix \subseteq InfixTokens
  /\ Statements \subseteq {"explicit", "inferred", "ret", "if", "expr"}
  /\ Muts \subseteq BOOLEAN
  /\ MaxArgs \in Nat
  /\ MaxNodes \in Nat

(* A parameter is its name and its type; the type of the result has no     *)
(* star, and ext says that the function is in another object file.         *)
ASSUME HeadersAssumption ==
  \A h \in Headers :
    /\ h.name \in FnNames
    /\ h.params \in Seq(VarNames \X Types)
    /\ h.ret \in (Types \ {"str"}) \cup {"void"}
    /\ h.ext \in BOOLEAN

VARIABLES
  phase,           \* how far the compiler is
  ast,             \* the nodes
  types,           \* Expr::type of each node, "null" until it is set
  muts,            \* VarDeclExpr::mut and IdentifierExpr::mut of each node
  trail,           \* the tree, as the steps of a visitor
  tables,          \* the scopes
  currentScope,    \* BriskParser::current_scope_, 0 for null
  fnTypes,         \* the functions of the type table: their nodes, 0 for none
  defered,         \* BriskParser::defered_calls_
  explicitTypes,   \* BriskParser::explicit_literal_types_, top first
  token,           \* the infix operator that comes next, or "none"
  agenda,          \* the active parsers
  value,           \* the node that the last parser returned
  position         \* of the loop over defered, later of the visitor on trail

treeVars == << ast, types, muts, trail >>
scopeVars == << tables, currentScope, fnTypes >>
parserVars == << explicitTypes, token, agenda, value >>
parserState ==
  << phase, ast, types, muts, trail, tables, currentScope, fnTypes, defered,
     explicitTypes, token, agenda, value, position >>

AllNames == VarNames \cup FnNames

Node(kind, name) ==
  [kind |-> kind, name |-> name, word |-> "none", kids |-> << >>, fn |-> 0]

(* Calls that are put off.                                                 *)
Call(what, node) == [what |-> what, node |-> node, word |-> "none", of |-> 0]
CallWith(what, node, of) == [what |-> what, node |-> node, word |-> "none", of |-> of]
CallType(node, t) == [what |-> "parse_type", node |-> node, word |-> t, of |-> 0]

(* Active parsers.                                                         *)
ExprItem(level) == [what |-> "expr", level |-> level]
InfixItem(level) == [what |-> "infix", level |-> level]
NodeItem(what, node) == [what |-> what, node |-> node]
BodyKinds == {"fn", "if"}

Doing(what) == phase = "parsing" /\ agenda # << >> /\ Head(agenda).what \in what
Replace(items) == agenda' = items \o Tail(agenda)
Enter(items) == agenda' = items \o agenda

(* Steps of a visitor: it enters a body or leaves a node.  Whether the     *)
(* node is below an argument or an assignment matters to some visitors.    *)
Below(what) == \E i \in 1 .. Len(agenda) : agenda[i].what = what
Step(step, node) ==
  [step |-> step, node |-> node, inCall |-> Below("call"), inAssign |-> Below("assign")]
LeaveAs(node) == trail' = Append(trail, Step("leave", node))

(* Where a compilation can stop before its end.                            *)
StopAs(outcome) ==
  /\ phase' = outcome
  /\ UNCHANGED << treeVars, scopeVars, defered, parserVars, position >>

Throw == StopAs("threw")

(* Mistake: the calls are run in the reverse of their order.               *)
DeferFirst(calls) == defered' = calls \o defered

Defer(calls) == defered' = defered \o calls
NewId == Len(ast) + 1
MayGrow == Len(ast) < MaxNodes

(* Extend the tree by nodes whose types are given.                         *)
AddNodes(nodes, nodeTypes, isMut) ==
  /\ ast' = ast \o nodes
  /\ types' = types \o nodeTypes
  /\ muts' = muts \o [i \in 1 .. Len(nodes) |-> isMut]

-----------------------------------------------------------------------------
Init ==
  /\ phase = "parsing"
  /\ ast = << >> /\ types = << >> /\ muts = << >> /\ trail = << >>
  /\ tables = << EmptyTable(0, AllNames) >>
  /\ currentScope = 1
  /\ fnTypes = [f \in FnNames |-> 0]
  /\ defered = << >>
  /\ explicitTypes = << >>
  /\ token = "none"
  /\ agenda = << >>
  /\ value = 0
  /\ position = 0

-----------------------------------------------------------------------------
(* FnDeclParser.  A function is known to the type table before its body,   *)
(* to the scope around it only after.                                      *)

(* add_fn_arg for each parameter: its name must be new.                    *)
ParametersAddable(p) ==
  \A i \in 1 .. Len(p) :
    /\ Addable(tables, currentScope, p[i][1])
    /\ \A j \in 1 .. (i - 1) : p[j][1] # p[i][1]

ParameterTable(p) ==
  [EmptyTable(currentScope, AllNames) EXCEPT !.symbols =
     [n \in AllNames |->
        IF \E i \in 1 .. Len(p) : p[i][1] = n
        THEN NewId + (CHOOSE i \in 1 .. Len(p) : p[i][1] = n)
        ELSE 0]]

FunctionNodes(f, p, ret) ==
  << [Node("fn", f) EXCEPT !.word = ret,
                           !.kids = [i \in 1 .. Len(p) |-> NewId + i]] >>
  \o [i \in 1 .. Len(p) |-> Node("arg", p[i][1])]

(* Up to the body, which a function of another object file does not have.  *)
ParseFunction(f, p, ret, ext) ==
  /\ phase = "parsing"
  /\ agenda = << >>
  /\ MayGrow
  /\ IF ~ParametersAddable(p) \/ fnTypes[f] # 0
       THEN Throw
       ELSE /\ AddNodes(FunctionNodes(f, p, ret),
                        << "void" >> \o [i \in 1 .. Len(p) |-> "null"], FALSE)
            /\ Defer([i \in 1 .. Len(p) |-> CallType(NewId + i, p[i][2])])
            /\ fnTypes' = [fnTypes EXCEPT ![f] = NewId]
            /\ IF ext
                 THEN /\ tables' = Append(WithSymbol(tables, currentScope, f, NewId),
                                          ParameterTable(p))
                      /\ UNCHANGED << currentScope, agenda, trail >>
                 ELSE /\ tables' = Append(tables, ParameterTable(p))
                      /\ currentScope' = Len(tables) + 1
                      /\ Enter(<< NodeItem("fn", NewId) >>)
                      /\ trail' = Append(trail, Step("enter", NewId))
            /\ UNCHANGED << phase, explicitTypes, token, value, position >>

BeginFunction == \E h \in Headers : ParseFunction(h.name, h.params, h.ret, h.ext)

EndFunction ==
  /\ Doing({"fn"})
  /\ LET fn == Head(agenda).node
         outer == tables[currentScope].parent
     IN /\ currentScope' = outer
        /\ tables' = WithSymbol(tables, outer, ast[fn].name, fn)
        /\ LeaveAs(fn)
  /\ Replace(<< >>)
  /\ UNCHANGED << phase, ast, types, muts, fnTypes, defered, explicitTypes, token, value,
                  position >>

-----------------------------------------------------------------------------
(* parse_expr: an operand, then the operators that bind tighter than the   *)
(* level it was called with.                                               *)

(* What may follow an operand.                                             *)
NextToken == token' \in (IF MayGrow THEN Infix \cup {"none"} ELSE {"none"})

(* A parser has returned a node.                                           *)
Return(node) == value' = node /\ LeaveAs(node)

Operand == Replace(<< InfixItem(Head(agenda).level) >>)

(* LiteralParser.  Only integers have a type that depends on where they    *)
(* stand: in an explicitly typed declaration it is put off.                *)
ParseInteger ==
  /\ Doing({"expr"})
  /\ IF explicitTypes = << >>
       THEN /\ AddNodes(<< Node("literal", "none") >>, << "i64" >>, FALSE)
            /\ UNCHANGED defered
       ELSE /\ AddNodes(<< Node("literal", "none") >>, << "null" >>, FALSE)
            /\ Defer(<< CallWith("literal", NewId, Head(explicitTypes)) >>)
  /\ Return(NewId)
  /\ Operand
  /\ NextToken
  /\ UNCHANGED << phase, scopeVars, explicitTypes, position >>

ParseOtherLiteral ==
  /\ Doing({"expr"})
  /\ \E t \in Types \cap {"bool", "str"} :
       AddNodes(<< Node("literal", "none") >>, << t >>, FALSE)
  /\ Return(NewId)
  /\ Operand
  /\ NextToken
  /\ UNCHANGED << phase, scopeVars, defered, explicitTypes, position >>

(* IdentifierParser: the name is looked up later, in the scope it is in.   *)
ParseIdentifier ==
  /\ Doing({"expr"})
  /\ \E n \in AllNames : AddNodes(<< Node("identifier", n) >>, << "null" >>, FALSE)
  /\ Defer(<< CallWith("find", NewId, currentScope) >>)
  /\ Return(NewId)
  /\ Operand
  /\ NextToken
  /\ UNCHANGED << phase, scopeVars, explicitTypes, position >>

(* FnCallParser.                                                           *)
BeginCall ==
  /\ Doing({"expr"})
  /\ MayGrow
  /\ \E f \in FnNames : AddNodes(<< Node("call", f) >>, << "null" >>, FALSE)
  /\ Replace(<< NodeItem("call", NewId), InfixItem(Head(agenda).level) >>)
  /\ UNCHANGED << phase, trail, scopeVars, defered, explicitTypes, token, value, position >>

ParseArgument ==
  /\ Doing({"call"})
  /\ Len(ast[Head(agenda).node].kids) < MaxArgs
  /\ Enter(<< ExprItem(0), NodeItem("argument", Head(agenda).node) >>)
  /\ UNCHANGED << phase, treeVars, scopeVars, defered, explicitTypes, token, value, position >>

AddKid(node) == ast' = [ast EXCEPT ![node].kids = Append(@, value)]

EndArgument ==
  /\ Doing({"argument"})
  /\ AddKid(Head(agenda).node)
  /\ Replace(<< >>)
  /\ UNCHANGED << phase, types, muts, trail, scopeVars, defered, explicitTypes, token, value,
                  position >>

EndCall ==
  /\ Doing({"call"})
  /\ LET call == Head(agenda).node IN
       /\ Defer(<< Call("callee", call), Call("call", call) >>)
       /\ value' = call
       /\ trail' = Append(trail, [Step("leave", call) EXCEPT
            !.inCall = \E i \in 2 .. Len(agenda) : agenda[i].what = "call"])
  /\ Replace(<< >>)
  /\ NextToken
  /\ UNCHANGED << phase, ast, types, muts, scopeVars, explicitTypes, position >>

(* BinExprParser.                                                          *)
ParseOperator ==
  /\ Doing({"infix"})
  /\ token \in BinaryTokens
  /\ Binds(token, Head(agenda).level)
  /\ AddNodes(<< [Node("binary", "none") EXCEPT !.word = token, !.kids = << value >>] >>,
              << "null" >>, FALSE)
  /\ Enter(<< ExprItem(Precedence(token)), NodeItem("right", NewId) >>)
  /\ token' = "none"
  /\ UNCHANGED << phase, trail, scopeVars, defered, explicitTypes, value, position >>

(* AssignmentParser.                                                       *)
ParseAssignment ==
  /\ Doing({"infix"})
  /\ token = "Equals"
  /\ Binds(token, Head(agenda).level)
  /\ IF ast[value].kind # "identifier"
       THEN Throw
       ELSE /\ AddNodes(<< [Node("assign", "none") EXCEPT !.kids = << value >>] >>,
                        << "null" >>, FALSE)
            /\ Enter(<< ExprItem(Precedence(token)), NodeItem("assign", NewId) >>)
            /\ token' = "none"
            /\ UNCHANGED << phase, trail, scopeVars, defered, explicitTypes, value, position >>

(* The right operand is there: the type of the whole is put off.           *)
EndInfix ==
  /\ Doing({"right", "assign"})
  /\ LET node == Head(agenda).node IN
       /\ AddKid(node)
       /\ Defer(<< Call(ast[node].kind, node) >>)
       /\ value' = node
       /\ trail' = Append(trail, [Step("leave", node) EXCEPT
            !.inAssign = \E i \in 2 .. Len(agenda) : agenda[i].what = "assign"])
  /\ Replace(<< >>)
  /\ UNCHANGED << phase, types, muts, scopeVars, explicitTypes, token, position >>

EndExpression ==
  /\ Doing({"infix"})
  /\ ~Binds(token, Head(agenda).level)
  /\ Replace(<< >>)
  /\ UNCHANGED << phase, treeVars, scopeVars, defered, explicitTypes, token, value, position >>

-----------------------------------------------------------------------------
(* Statements.                                                             *)

InBody(kind) == Doing(BodyKinds) /\ kind \in Statements /\ MayGrow

(* VarDeclParser, with a type and without.                                 *)
BeginExplicit ==
  /\ InBody("explicit")
  /\ \E n \in VarNames, t \in Types, isMut \in Muts :
       /\ AddNodes(<< Node("let", n) >>, << "null" >>, isMut)
       /\ Defer(<< CallType(NewId, t) >>)
  /\ explicitTypes' = << NewId >> \o explicitTypes
  /\ Enter(<< ExprItem(0), NodeItem("explicit", NewId) >>)
  /\ UNCHANGED << phase, trail, scopeVars, token, value, position >>

BeginInferred ==
  /\ InBody("inferred")
  /\ \E n \in VarNames, isMut \in Muts :
       AddNodes(<< Node("let", n) >>, << "null" >>, isMut)
  /\ Enter(<< ExprItem(0), NodeItem("inferred", NewId) >>)
  /\ UNCHANGED << phase, trail, scopeVars, defered, explicitTypes, token, value, position >>

EndVarDecl ==
  /\ Doing({"explicit", "inferred"})
  /\ LET let == Head(agenda).node IN
       IF ~Addable(tables, currentScope, ast[let].name)
       THEN Throw
       ELSE /\ AddKid(let)
            /\ IF Head(agenda).what = "inferred"
                 THEN Defer(<< Call("let", let) >>) /\ UNCHANGED explicitTypes
                 ELSE explicitTypes' = Tail(explicitTypes) /\ UNCHANGED defered
            /\ tables' = WithSymbol(tables, currentScope, ast[let].name, let)
            /\ Return(let)
            /\ Replace(<< >>)
            /\ UNCHANGED << phase, types, muts, currentScope, fnTypes, token, position >>

(* RetParser: the owner is the function at the bottom of the agenda.       *)
BeginRet ==
  /\ InBody("ret")
  /\ AddNodes(<< [Node("ret", "none") EXCEPT !.fn = agenda[Len(agenda)].node] >>,
              << "null" >>, FALSE)
  /\ Enter(<< ExprItem(0), NodeItem("ret", NewId) >>)
  /\ UNCHANGED << phase, trail, scopeVars, defered, explicitTypes, token, value, position >>

EndRet ==
  /\ Doing({"ret"})
  /\ AddKid(Head(agenda).node)
  /\ types' = [types EXCEPT ![Head(agenda).node] = types[value]]
  /\ Return(Head(agenda).node)
  /\ Replace(<< >>)
  /\ UNCHANGED << phase, muts, scopeVars, defered, explicitTypes, token, position >>

(* IfParser.                                                               *)
BeginIf ==
  /\ InBody("if")
  /\ AddNodes(<< Node("if", "none") >>, << "void" >>, FALSE)
  /\ Enter(<< ExprItem(0), NodeItem("condition", NewId) >>)
  /\ UNCHANGED << phase, trail, scopeVars, defered, explicitTypes, token, value, position >>

ParseIfBody ==
  /\ Doing({"condition"})
  /\ AddKid(Head(agenda).node)
  /\ tables' = Append(tables, EmptyTable(currentScope, AllNames))
  /\ currentScope' = Len(tables) + 1
  /\ trail' = Append(trail, Step("enter", Head(agenda).node))
  /\ Replace(<< NodeItem("if", Head(agenda).node) >>)
  /\ UNCHANGED << phase, types, muts, fnTypes, defered, explicitTypes, token, value, position >>

EndIf ==
  /\ Doing({"if"})
  /\ currentScope' = tables[currentScope].parent
  /\ Return(Head(agenda).node)
  /\ Replace(<< >>)
  /\ UNCHANGED << phase, ast, types, muts, tables, fnTypes, defered, explicitTypes, token,
                  position >>

(* An assignment, a call, or any other expression as a statement.          *)
BeginExprStatement ==
  /\ InBody("expr")
  /\ Enter(<< ExprItem(0) >>)
  /\ UNCHANGED << phase, treeVars, scopeVars, defered, explicitTypes, token, value, position >>

-----------------------------------------------------------------------------
(* The end of the file, and the calls that were put off.                   *)

EndOfFile ==
  /\ phase = "parsing"
  /\ agenda = << >>
  /\ phase' = "resolving"
  /\ UNCHANGED << treeVars, scopeVars, defered, parserVars, position >>

Running == defered[position + 1]
RunsCall(what) ==
  phase = "resolving" /\ position < Len(defered) /\ Running.what \in what

SetType(t) == types' = [types EXCEPT ![Running.node] = t]
CallDone ==
  /\ position' = position + 1
  /\ UNCHANGED << phase, trail, scopeVars, defered, parserVars >>

RunParseType ==
  /\ RunsCall({"parse_type"})
  /\ SetType(Running.word)
  /\ CallDone
  /\ UNCHANGED << ast, muts >>

(* A declaration of any but an integral type leaves i64.                   *)
RunLiteral ==
  /\ RunsCall({"literal"})
  /\ LET t == types[Running.of] IN
       IF t = "null" THEN StopAs("undefined")
       ELSE /\ SetType(IF TypeId(t) \in IntegralTypes THEN TypeId(t) ELSE "i64")
            /\ CallDone
            /\ UNCHANGED << ast, muts >>

(* Whatever the name means is taken for a variable: of a function or a     *)
(* parameter, mut is a byte of something else.                             *)
RunFind ==
  /\ RunsCall({"find"})
  /\ LET declaration == find_base(tables, Running.of, ast[Running.node].name) IN
       IF declaration = 0 THEN Throw
       ELSE /\ SetType(types[declaration])
            /\ \E isMut \in IF ast[declaration].kind = "let" THEN {muts[declaration]}
                                                            ELSE BOOLEAN :
                 muts' = [muts EXCEPT ![Running.node] = isMut]
            /\ CallDone
            /\ UNCHANGED ast

RunBinary ==
  /\ RunsCall({"binary"})
  /\ SetType(IF ast[Running.node].word \in Equalities
             THEN "bool" ELSE types[ast[Running.node].kids[1]])
  /\ CallDone
  /\ UNCHANGED << ast, muts >>

RunLetOrAssign ==
  /\ RunsCall({"let", "assign"})
  /\ SetType(types[ast[Running.node].kids[1]])
  /\ CallDone
  /\ UNCHANGED << ast, muts >>

RunCallee ==
  /\ RunsCall({"callee"})
  /\ LET callee == fnTypes[ast[Running.node].name] IN
       IF callee = 0 THEN Throw
       ELSE /\ ast' = [ast EXCEPT ![Running.node].fn = callee]
            /\ CallDone
            /\ UNCHANGED << types, muts >>

RunCall ==
  /\ RunsCall({"call"})
  /\ SetType(ast[ast[Running.node].fn].word)
  /\ CallDone
  /\ UNCHANGED << ast, muts >>

EndParse ==
  /\ phase = "resolving"
  /\ position = Len(defered)
  /\ phase' = "checking"
  /\ position' = 0
  /\ currentScope' = tables[currentScope].parent
  /\ UNCHANGED << treeVars, tables, fnTypes, defered, parserVars >>

Parse ==
  \/ BeginFunction \/ EndFunction
  \/ ParseInteger \/ ParseOtherLiteral \/ ParseIdentifier
  \/ BeginCall \/ ParseArgument \/ EndArgument \/ EndCall
  \/ ParseOperator \/ ParseAssignment \/ EndInfix \/ EndExpression
  \/ BeginExplicit \/ BeginInferred \/ EndVarDecl
  \/ BeginRet \/ EndRet \/ BeginIf \/ ParseIfBody \/ EndIf \/ BeginExprStatement
  \/ EndOfFile

Resolve ==
  \/ RunParseType \/ RunLiteral \/ RunFind \/ RunBinary \/ RunLetOrAssign
  \/ RunCallee \/ RunCall
  \/ EndParse
=============================================================================
