------------------------------ MODULE Generator ------------------------------
(***************************************************************************)
(* The code generator of briskc, codegen/amd64/generator.cpp: a visitor    *)
(* that walks the typed syntax tree once and emits x64 code as it goes.    *)
(*                                                                         *)
(* The C++ recursion is unrolled into an agenda: the head is what the      *)
(* innermost active visit does next, the tail are the visits that wait for *)
(* it.  The program is not given beforehand: whenever the generator looks  *)
(* at a new node, the model lets the node be any one that the parser and   *)
(* the type checker admit there, within MaxNodes nodes.                    *)
(*                                                                         *)
(* Of the emitted code the model keeps the length, the patch sites, and    *)
(* in contents the effect: contents[r] names the syntax node whose value   *)
(* register r holds when the code emitted so far has run (0: none that     *)
(* matters).  Nodes are numbered in the order in which they are visited.   *)
(* The emitter cannot name every register in every instruction; from the   *)
(* first one that names another register than the generator means,         *)
(* misencoded is set, and code that runs after it works on wrong values.   *)
(***************************************************************************)
EXTENDS OperatorCode, StackFrame, Integers, FiniteSets

CONSTANTS
  Types,        \* the types that occur in the programs
  Names,        \* names of variables and parameters
  FnNames,      \* names of functions, defined in the unit or external
  Statements,   \* the kinds of statement in a body
  Operands,     \* the shapes of an expression outside an argument list
  Arguments,    \* the shapes of a call argument
  Operators,    \* the binary operators
  StringSizes,  \* the lengths of string literals
  MaxArgs,      \* parameters of a function and arguments of a call
  MaxNodes      \* bound: nodes of the program

ASSUME TypesAssumption == Types \subseteq ValueType
ASSUME ShapesAssumption ==
  /\ Statements \subseteq {"call", "let", "ret", "if", "assign", "expr"}
  /\ Operands \subseteq {"literal", "identifier", "binary", "call"}
  /\ Arguments \subseteq {"literal", "identifier", "binary", "call"}
  /\ "literal" \in Operands \cap Arguments
ASSUME BoundsAssumption ==
  /\ StringSizes \subseteq Nat
  /\ MaxArgs \in Nat
  /\ MaxNodes \in Nat

VARIABLES
  allocated,    \* RegisterAllocator::allocated_
  mode,         \* RegisterAllocator::mode_
  evalStack,    \* RegisterAllocator::eval_stack_: register, and node it stands for
  spOffset,     \* StackAllocator::current_sp_offset_
  scopes,       \* Generator::addr_tables_, innermost first
  codeLength,   \* length of the emitter's buffer
  dataLength,   \* length of Generator::data_
  symbols,      \* the symbols given to the COFF writer
  relocations,  \* the relocations given to the COFF writer
  agenda,       \* the active visits
  status,       \* "running", "threw", "undefined" or "done"
  contents,     \* history: what the emitted code leaves in each register
  nodes,        \* history: number of nodes visited
  jumps,        \* history: the relative jumps and where each should land
  leaks,        \* history: registers popped and never freed
  abandoned,    \* history: entries of evalStack that nothing will pop
  misencoded    \* history: an instruction has named another register than meant

allocatorVars == << allocated, mode, evalStack >>
frameVars == << spOffset, scopes >>
objectVars == << dataLength, symbols, relocations >>
historyVars == << jumps, leaks, abandoned, misencoded >>
vars == << allocated, mode, evalStack, spOffset, scopes, codeLength, dataLength,
           symbols, relocations, agenda, status, contents, nodes, jumps, leaks,
           abandoned, misencoded >>

-----------------------------------------------------------------------------
(* Types of values and the moves that depend on them.                      *)

(* is_boolean_operator: == and != yield bool, any other operator the type  *)
(* of its left operand.                                                    *)
ResultType(op, operandType) ==
  IF op \in Equality THEN "bool" ELSE operandType

(* What integral_bin_op and boolean_bin_op handle; they throw on the rest, *)
(* and so does visit(BinExpr) on an expression of pointer type.            *)
Handled(op, operandType) ==
  \/ op \in Equality
  \/ op \in Arithmetic /\ operandType \in IntegralType
  \/ op \in Logical /\ operandType = "bool"

StoreToSlot(addr, t, source) ==
  CASE Size(t) = 1 -> emit_spd_mov8_store(addr % 256, source)
    [] Size(t) = 2 -> emit_spd_mov16_store(addr % 256, source)
    [] Size(t) = 4 -> emit_spd_mov32_store(addr % 256, source)
    [] Size(t) = 8 -> emit_spd_mov64_store(addr % 256, source)

LoadFromSlot(destination, t, addr) ==
  CASE t \in {"u8", "bool"} -> emit_spd_movzx8(destination, addr % 256)
    [] t = "i8" -> emit_spd_movsx8(destination, addr % 256)
    [] t = "u16" -> emit_spd_movzx16(destination, addr % 256)
    [] t = "i16" -> emit_spd_movsx16(destination, addr % 256)
    [] t \in {"u32", "i32"} -> emit_spd_mov32_load(destination, addr % 256)
    [] t \in {"u64", "i64", "str"} -> emit_spd_mov64_load(destination, addr % 256)

(* store_literal_to_mem for the types that need no register.               *)
ImmediateToSlot(addr, t) ==
  CASE Size(t) = 1 -> emit_spd_mov8_imm(addr % 256, 0)
    [] Size(t) = 2 -> emit_spd_mov16_imm(addr % 256, 0)
    [] OTHER -> emit_spd_mov32_imm(addr % 256, 0)

-----------------------------------------------------------------------------
(* A jump is the offset of its distance byte, that byte, and the offset    *)
(* the comments of the source say it goes to.                              *)
Jump(at, rel, target) == [at |-> at, rel |-> rel, target |-> target]

(* The jumps inside the code of an operator, which starts at offset base:  *)
(* past the last move, to the last move, and for || and && from the first  *)
(* test to the last move.                                                  *)
BinaryJumps(op, right, base, code) ==
  LET end == base + Len(code)
      lastMove == end - Len(emit_mov8_imm(right, 1))
      branch == lastMove - Len(emit_jmp_rel8(3)) - Len(emit_mov8_imm(right, 0))
      first == branch - Len(emit_je_rel8(5)) - Len(emit_test8(right, 1))
      From(next, target) == Jump(next - 1, code[next - base], target)
  IN IF op \in Arithmetic THEN {}
     ELSE {From(lastMove, end), From(branch, lastMove)}
          \cup (IF op \in Logical THEN {From(first, lastMove)} ELSE {})

(* What the code leaves in the registers, if left and right held their     *)
(* operands: division takes its dividend through RAX, clears RDX and only  *)
(* then reads the divisor.                                                 *)
ResultOf(op, left, right, leftNode, rightNode, node) ==
  IF /\ contents[left] = leftNode
     /\ contents[right] = rightNode
     /\ op \in Division => right \notin {RAX, RDX}
  THEN node ELSE 0

ContentsAfter(op, t, left, right, result) ==
  Effect(contents, 0, op, t, left, right, result)

(* The moves into a register: an immediate or a load loses the high bit of *)
(* its number, in an lea that bit spoils the form of the operand.          *)
Moved(r, node) == [contents EXCEPT ![Encoded(r)] = node]
Addressed(r, node) == [s \in Register |-> IF r > RDI THEN 0
                                          ELSE IF s = r THEN node ELSE contents[s]]

Misencode(wrong) == misencoded' = (misencoded \/ wrong)

-----------------------------------------------------------------------------
(* The agenda.  An item that waits for the value of an expression has the  *)
(* number of that expression in of.                                        *)

ExprItem(t) == [what |-> "expr", type |-> t]
LeftItem(op, t, node, of) ==
  [what |-> "left", op |-> op, type |-> t, node |-> node, of |-> of]
RightItem(op, t, node, of, left, leftNode) ==
  [what |-> "right", op |-> op, type |-> t, node |-> node, of |-> of,
   left |-> left, leftNode |-> leftNode]
LetItem(n, t, of) == [what |-> "let", name |-> n, type |-> t, of |-> of]
UseItem(what, of) == [what |-> what, of |-> of]
CallItem(f, base, count) ==
  [what |-> "call", name |-> f, base |-> base, count |-> count]
IfItem(at) == [what |-> "if", at |-> at]
FnItem == [what |-> "fn"]

UseKind == {"ret", "test", "discard"}
Awaiting == UseKind \cup {"left", "right", "let"}
BodyKind == {"fn", "if"}

Doing(what) == status = "running" /\ agenda # << >> /\ Head(agenda).what \in what
DirectlyUnder(what) == Len(agenda) > 1 /\ agenda[2].what = what

(* Handlers replace the head of the agenda, or go on below it.             *)
Replace(items) == agenda' = items \o Tail(agenda)
Enter(items) == agenda' = items \o agenda

NewNode == nodes' = nodes + 1
ThisNode == nodes + 1
NextNode == nodes + 2

Emit(code) == codeLength' = codeLength + Len(code)

Operand(r, node) == [reg |-> r, node |-> node]
Top == evalStack[Len(evalStack)]

(* Mistake: top() without pop().                                           *)
Peeked == evalStack

Popped == SubSeq(evalStack, 1, Len(evalStack) - 1)

(* get_free, then push: register r now stands for node.                    *)
GetAndPush(r, node) ==
  /\ Grants(allocated, mode, r)
  /\ allocated' = allocated \cup {r}
  /\ evalStack' = Append(evalStack, Operand(r, node))
  /\ UNCHANGED mode

-----------------------------------------------------------------------------
Init ==
  /\ allocated = InitiallyAllocated
  /\ mode = "None"
  /\ evalStack = << >>
  /\ spOffset = FirstLocal
  /\ scopes = << EmptyScope(Names) >>
  /\ codeLength = 0
  /\ dataLength = 0
  /\ symbols = << >>
  /\ relocations = << >>
  /\ agenda = << >>
  /\ status = "running"
  /\ contents = [r \in Register |-> 0]
  /\ nodes = 0
  /\ jumps = {}
  /\ leaks = 0
  /\ abandoned = 0
  /\ misencoded = FALSE

-----------------------------------------------------------------------------
(* Functions.                                                              *)

Symbol(name, section, value) ==
  [name |-> name, section |-> section, value |-> value]

DefinedFns ==
  {symbols[i].name : i \in {k \in 1 .. Len(symbols) : symbols[k].section = 2}}

(* The parameters of a function have names that differ from one another.   *)
Parameters ==
  UNION {{p \in [1 .. k -> Names \X Types] :
            \A i, j \in 1 .. k : i # j => p[i][1] # p[j][1]} : k \in 0 .. MaxArgs}

(* store_fn_args goes from the last parameter to the first.                *)
StoreParameter(p, i) ==
  IF i <= Len(p) THEN StoreToSlot(ArgHome(i), p[i][2], ArgRegister(i)) ELSE << >>

ParameterCode(p) ==
  StoreParameter(p, 4) \o StoreParameter(p, 3)
  \o StoreParameter(p, 2) \o StoreParameter(p, 1)

ParameterScope(p) ==
  [n \in Names |->
     IF \E i \in 1 .. Len(p) : p[i][1] = n
     THEN LET i == CHOOSE k \in 1 .. Len(p) : p[k][1] = n IN Slot(ArgHome(i), p[i][2])
     ELSE NoSlot]

(* visit(FnDeclExpr) up to the body.  Five parameters or more throw before *)
(* the first of them is stored.                                            *)
BeginFunction ==
  /\ status = "running"
  /\ agenda = << >>
  /\ \E f \in FnNames \ DefinedFns, p \in Parameters :
       /\ symbols' = Append(symbols, Symbol(f, 2, codeLength))
       /\ spOffset' = FirstLocal
       /\ IF Len(p) > MaxRegisterArgs
            THEN /\ status' = "threw"
                 /\ scopes' = << EmptyScope(Names) >> \o scopes
                 /\ Emit(emit_sub64_imm32(RSP, FrameSize))
                 /\ UNCHANGED agenda
            ELSE /\ scopes' = << ParameterScope(p) >> \o scopes
                 /\ Emit(emit_sub64_imm32(RSP, FrameSize) \o ParameterCode(p))
                 /\ Enter(<< FnItem >>)
                 /\ UNCHANGED status
  /\ UNCHANGED << allocatorVars, dataLength, relocations, contents, nodes, historyVars >>

(* Mistake: a block that ends keeps its addresses.                         *)
KeepAddrTable == UNCHANGED scopes

pop_addr_table == scopes' = Tail(scopes)

(* The rest of visit(FnDeclExpr).                                          *)
EndFunction ==
  /\ Doing({"fn"})
  /\ Emit(emit_add64_imm32(RSP, FrameSize) \o emit_ret)
  /\ pop_addr_table
  /\ Replace(<< >>)
  /\ UNCHANGED << allocatorVars, spOffset, objectVars, status, contents, nodes,
                  historyVars >>

(* write_to_disk, after the last top-level expression.                     *)
WriteToDisk ==
  /\ status = "running"
  /\ agenda = << >>
  /\ status' = "done"
  /\ UNCHANGED << allocatorVars, frameVars, codeLength, objectVars, agenda, contents,
                  nodes, historyVars >>

-----------------------------------------------------------------------------
(* Statements: what a body may contain.                                    *)

InBody(kind) == Doing(BodyKind) /\ kind \in Statements /\ nodes < MaxNodes

(* Nothing of these nodes is emitted before their expression is visited.   *)
visitedOnly == << allocatorVars, frameVars, codeLength, objectVars, status, contents,
                  historyVars >>

(* visit(VarDeclExpr).  The parser rejects a name that a scope already has.*)
VisitVarDecl ==
  /\ InBody("let")
  /\ \E n \in {m \in Names : ~Resolves(scopes, m)}, t \in Types :
       Enter(<< ExprItem(t), LetItem(n, t, NextNode) >>)
  /\ NewNode
  /\ UNCHANGED visitedOnly

(* visit(RetExpr), visit(IfExpr) and an expression whose value is unused.  *)
VisitUse(kind, what, types) ==
  /\ InBody(kind)
  /\ \E t \in types : Enter(<< ExprItem(t), UseItem(what, NextNode) >>)
  /\ NewNode
  /\ UNCHANGED visitedOnly

VisitRet == VisitUse("ret", "ret", Types)
VisitIf == VisitUse("if", "test", {"bool"})
VisitExprStatement == VisitUse("expr", "discard", Types)

(* visit(AssignExpr) emits nothing.                                        *)
VisitAssign ==
  /\ InBody("assign")
  /\ NewNode
  /\ UNCHANGED << visitedOnly, agenda >>

-----------------------------------------------------------------------------
(* Leaves of an expression.                                                *)

Expecting(shape) ==
  /\ Doing({"expr"})
  /\ shape \in (IF DirectlyUnder("call") THEN Arguments ELSE Operands)

Wanted == Head(agenda).type

(* A literal as the whole initialiser of a variable goes through           *)
(* store_literal_to_mem, any other through visit(LiteralExpr).             *)
Initialising == DirectlyUnder("let") /\ Wanted # "str"

VisitLiteral ==
  /\ Expecting("literal")
  /\ Wanted # "str"
  /\ ~Initialising
  /\ \E r \in Register :
       /\ GetAndPush(r, ThisNode)
       /\ Emit(emit_mov32_imm(r, 0))
       /\ contents' = Moved(r, ThisNode)
       /\ Misencode(r > RDI)
  /\ Replace(<< >>)
  /\ NewNode
  /\ UNCHANGED << frameVars, objectVars, status, jumps, leaks, abandoned >>

(* Mistake: the relocation of the bytes after the displacement.            *)
RelocateNext(code) ==
  relocations' = Append(relocations, [vaddr |-> codeLength + Len(code),
                                      symndx |-> Len(symbols)])

(* add_rel_reloc: the four bytes before the current offset refer to the    *)
(* symbol that is added in the same step.                                  *)
Relocate(code) ==
  relocations' = Append(relocations, [vaddr |-> codeLength + Len(code) - 4,
                                      symndx |-> Len(symbols)])

(* Mistake: a literal without its terminator.                              *)
BareString(size) == size

(* A literal is written with its terminator.                               *)
StringBytes(size) == size + 1

VisitString ==
  /\ Expecting("literal")
  /\ Wanted = "str"
  /\ \E r \in Register, size \in StringSizes :
       /\ GetAndPush(r, ThisNode)
       /\ Emit(emit_lea64(r, 0))
       /\ Relocate(emit_lea64(r, 0))
       /\ contents' = Addressed(r, ThisNode)
       /\ Misencode(r > RDI)
       /\ symbols' = Append(symbols, Symbol("$d", 1, dataLength))
       /\ dataLength' = dataLength + StringBytes(size)
  /\ Replace(<< >>)
  /\ NewNode
  /\ UNCHANGED << frameVars, status, jumps, leaks, abandoned >>

(* The variable that a name means, if it has the type that is wanted.      *)
Variable(n, i) ==
  /\ IsInnermost(scopes, n, i)
  /\ scopes[i][n].type = Wanted

VisitIdentifier ==
  /\ Expecting("identifier")
  /\ \E n \in Names, i \in 1 .. Len(scopes), r \in Register :
       /\ Variable(n, i)
       /\ GetAndPush(r, ThisNode)
       /\ Emit(LoadFromSlot(r, Wanted, scopes[i][n].addr))
       /\ contents' = Moved(r, ThisNode)
       /\ Misencode(r > RDI)
  /\ Replace(<< >>)
  /\ NewNode
  /\ UNCHANGED << frameVars, objectVars, status, jumps, leaks, abandoned >>

(* Mistake: a reserve that does not advance the offset.                    *)
DeclareInPlace(item) ==
  /\ scopes' = WithEntry(scopes, item.name, Slot(spOffset, item.type))
  /\ UNCHANGED spOffset

(* reserve, store and add_addr_entry for the variable declared by item.    *)
Declare(item) ==
  /\ scopes' = WithEntry(scopes, item.name, Slot(spOffset, item.type))
  /\ spOffset' = spOffset + Size(item.type)

(* store_literal_to_mem: a 64-bit literal passes through a register that   *)
(* is freed again.                                                         *)
StoreLiteral ==
  /\ Expecting("literal")
  /\ Initialising
  /\ Declare(agenda[2])
  /\ \/ /\ Size(Wanted) < 8
        /\ Emit(ImmediateToSlot(spOffset, Wanted))
        /\ UNCHANGED << contents, misencoded >>
     \/ /\ Size(Wanted) = 8
        /\ \E r \in Register :
             /\ Grants(allocated, mode, r)
             /\ Emit(emit_mov64_imm(r, 0) \o emit_spd_mov64_store(spOffset % 256, r))
             /\ contents' = Moved(r, 0)
             /\ Misencode(r > RDI)
  /\ agenda' = Tail(Tail(agenda))
  /\ NewNode
  /\ UNCHANGED << allocatorVars, objectVars, status, jumps, leaks, abandoned >>

NeedsRegister ==
  \/ Expecting("literal") /\ (~Initialising \/ Size(Wanted) = 8)
  \/ /\ Expecting("identifier")
     /\ \E n \in Names, i \in 1 .. Len(scopes) : Variable(n, i)

(* Mistake: the loop of get_free starts again instead of throwing.         *)
SearchAgain == NeedsRegister /\ ~CanGrant(allocated, mode) /\ UNCHANGED vars

(* get_free throws: no register is left.                                   *)
OutOfRegisters ==
  /\ ~CanGrant(allocated, mode)
  /\ NeedsRegister
  /\ status' = "threw"
  /\ UNCHANGED << allocatorVars, frameVars, codeLength, objectVars, agenda, contents,
                  nodes, historyVars >>

-----------------------------------------------------------------------------
(* visit(BinExpr): left operand, pop, right operand, pop, operator.        *)

VisitBinary ==
  /\ Expecting("binary")
  /\ nodes < MaxNodes
  /\ \E op \in Operators, t \in Types :
       /\ ResultType(op, t) = Wanted
       /\ Replace(<< ExprItem(t), LeftItem(op, t, ThisNode, NextNode) >>)
  /\ NewNode
  /\ UNCHANGED visitedOnly

PopLeft ==
  /\ Doing({"left"})
  /\ evalStack # << >>
  /\ LET item == Head(agenda) IN
       Replace(<< ExprItem(item.type),
                  RightItem(item.op, item.type, item.node, ThisNode, Top.reg, item.of) >>)
  /\ evalStack' = Popped
  /\ UNCHANGED << allocated, mode, frameVars, codeLength, objectVars, status, contents,
                  nodes, historyVars >>

ApplyOperator ==
  /\ Doing({"right"})
  /\ evalStack # << >>
  /\ LET item == Head(agenda)
         left == item.left
         right == Top.reg
         code == BinaryCode(item.op, item.type, left, right)
         result == ResultOf(item.op, left, right, item.leftNode, item.of, item.node)
     IN /\ Handled(item.op, item.type)
        /\ Emit(code)
        /\ jumps' = jumps \cup BinaryJumps(item.op, right, codeLength, code)
        /\ evalStack' = Append(Popped, Operand(right, item.node))
        /\ allocated' = Freed(allocated, left)
        /\ contents' = ContentsAfter(item.op, item.type, left, right, result)
        /\ Misencode(Misnames(item.op, item.type, left, right))
  /\ Replace(<< >>)
  /\ UNCHANGED << mode, frameVars, objectVars, status, nodes, leaks, abandoned >>

(* An operator that neither integral_bin_op nor boolean_bin_op handles.    *)
RejectOperator ==
  /\ Doing({"right"})
  /\ evalStack # << >>
  /\ ~Handled(Head(agenda).op, Head(agenda).type)
  /\ evalStack' = Popped
  /\ status' = "threw"
  /\ UNCHANGED << allocated, mode, frameVars, codeLength, objectVars, agenda, contents,
                  nodes, historyVars >>

(* std::stack::top on an empty stack: whatever follows is undefined.       *)
PopEmpty ==
  /\ Doing(Awaiting)
  /\ evalStack = << >>
  /\ status' = "undefined"
  /\ UNCHANGED << allocatorVars, frameVars, codeLength, objectVars, agenda, contents,
                  nodes, historyVars >>

-----------------------------------------------------------------------------
(* What a statement does with its value.                                   *)

EndVarDecl ==
  /\ Doing({"let"})
  /\ evalStack # << >>
  /\ Declare(Head(agenda))
  /\ Emit(StoreToSlot(spOffset, Head(agenda).type, Top.reg))
  /\ Misencode(Size(Head(agenda).type) = 1 /\ Top.reg \in HighByteNumber)
  /\ evalStack' = Popped
  /\ allocated' = Freed(allocated, Top.reg)
  /\ Replace(<< >>)
  /\ UNCHANGED << mode, objectVars, status, contents, nodes, jumps, leaks, abandoned >>

(* The popped register is never freed, and control goes on after a ret.    *)
(* The move has no REX.R: from R8 on it copies another register.           *)
EndRet ==
  /\ Doing({"ret"})
  /\ evalStack # << >>
  /\ Emit(emit_mov32_rr(RAX, Top.reg))
  /\ contents' = [contents EXCEPT ![RAX] = contents[Encoded(Top.reg)]]
  /\ Misencode(Top.reg > RDI)
  /\ evalStack' = Popped
  /\ leaks' = leaks + 1
  /\ Replace(<< >>)
  /\ UNCHANGED << allocated, mode, frameVars, objectVars, status, nodes, jumps, abandoned >>

(* The test and the jump around the body; the condition is not freed.  The *)
(* test of a byte has no REX prefix.                                       *)
BeginIf ==
  /\ Doing({"test"})
  /\ evalStack # << >>
  /\ LET code == emit_test8(Top.reg, 1) \o emit_je_rel8(0) IN
       /\ Emit(code)
       /\ Replace(<< IfItem(codeLength + Len(code) - 1) >>)
  /\ Misencode(Top.reg > RBX)
  /\ scopes' = << EmptyScope(Names) >> \o scopes
  /\ evalStack' = Popped
  /\ leaks' = leaks + 1
  /\ UNCHANGED << allocated, mode, spOffset, objectVars, status, contents, nodes, jumps,
                  abandoned >>

(* Mistakes: the distance from the byte itself, and the operands swapped   *)
(* and not cut.                                                            *)
DistanceFromByte(at) == (codeLength - at) % 256
DistanceSwapped(at) == at - (codeLength - 1)

(* The distance from the byte after the jump to the end, cut to a byte.    *)
IfDistance(at) == ((codeLength - 1) - at) % 256

(* emit_rel8_at patches the jump.                                          *)
EndIf ==
  /\ Doing({"if"})
  /\ LET at == Head(agenda).at
     IN jumps' = jumps \cup {Jump(at, IfDistance(at), codeLength)}
  /\ pop_addr_table
  /\ Replace(<< >>)
  /\ UNCHANGED << allocatorVars, spOffset, codeLength, objectVars, status, contents,
                  nodes, leaks, abandoned, misencoded >>

(* The value of an expression statement stays on the evaluation stack.     *)
EndExprStatement ==
  /\ Doing({"discard"})
  /\ evalStack # << >>
  /\ leaks' = leaks + 1
  /\ abandoned' = abandoned + 1
  /\ Replace(<< >>)
  /\ UNCHANGED << allocatorVars, frameVars, codeLength, objectVars, status, contents,
                  nodes, jumps, misencoded >>

-----------------------------------------------------------------------------
(* visit(FnCallExpr).  Arguments stay on the evaluation stack, after the   *)
(* call too, and keep their registers; nothing is pushed for the value of  *)
(* the call.                                                               *)

BeginCall(f) ==
  /\ mode' = "Call"
  /\ allocated' = PreparedForCall(allocated)
  /\ NewNode
  /\ UNCHANGED << evalStack, frameVars, codeLength, objectVars, status, contents,
                  historyVars >>

VisitCallStatement ==
  /\ InBody("call")
  /\ \E f \in FnNames :
       BeginCall(f) /\ Enter(<< CallItem(f, Len(evalStack), 0) >>)

VisitCallOperand ==
  /\ Expecting("call")
  /\ ~DirectlyUnder("discard")
  /\ nodes < MaxNodes
  /\ \E f \in FnNames :
       BeginCall(f) /\ Replace(<< CallItem(f, Len(evalStack), 0) >>)

VisitArgument ==
  /\ Doing({"call"})
  /\ Head(agenda).count < MaxArgs
  /\ nodes < MaxNodes
  /\ \E t \in Types :
       Replace(<< ExprItem(t),
                  [Head(agenda) EXCEPT !.count = Head(agenda).count + 1] >>)
  /\ UNCHANGED << visitedOnly, nodes >>

(* Mistake: call mode is left on.                                          *)
StayInCall == UNCHANGED mode

end_call_prepare == mode' = "None"

EndCall ==
  /\ Doing({"call"})
  /\ end_call_prepare
  /\ Emit(emit_call)
  /\ Relocate(emit_call)
  /\ symbols' = Append(symbols, Symbol(Head(agenda).name, 0, 0))
  /\ contents' = [r \in Register |-> IF r \in VolatileRegisters THEN 0 ELSE contents[r]]
  /\ abandoned' = abandoned + Head(agenda).count
  /\ Replace(<< >>)
  /\ UNCHANGED << allocated, evalStack, frameVars, dataLength, status, nodes, jumps, leaks,
                  misencoded >>

-----------------------------------------------------------------------------
Terminated == status # "running" /\ UNCHANGED vars

Statement ==
  \/ VisitVarDecl \/ VisitRet \/ VisitIf \/ VisitExprStatement \/ VisitAssign
  \/ VisitCallStatement
  \/ EndVarDecl \/ EndRet \/ BeginIf \/ EndIf \/ EndExprStatement

Expression ==
  \/ VisitLiteral \/ VisitString \/ VisitIdentifier \/ StoreLiteral
  \/ VisitBinary \/ PopLeft \/ ApplyOperator
  \/ VisitCallOperand \/ VisitArgument \/ EndCall

Failure == OutOfRegisters \/ RejectOperator \/ PopEmpty

Next ==
  \/ BeginFunction \/ EndFunction \/ WriteToDisk
  \/ Statement \/ Expression \/ Failure
  \/ Terminated

Spec == Init /\ [][Next]_vars

(* The compiler is one thread and a visit waits for nothing.               *)
FairSpec == Spec /\ WF_vars(Next)

-----------------------------------------------------------------------------
(* Type correctness.                                                       *)

Item ==
  [what : {"expr"}, type : ValueType]
  \cup [what : {"left"}, op : Operators, type : ValueType, node : Nat, of : Nat]
  \cup [what : {"right"}, op : Operators, type : ValueType, node : Nat, of : Nat,
        left : Register, leftNode : Nat]
  \cup [what : {"let"}, name : Names, type : ValueType, of : Nat]
  \cup [what : UseKind, of : Nat]
  \cup [what : {"call"}, name : FnNames, base : Nat, count : Nat]
  \cup [what : {"if"}, at : Int]
  \cup [what : {"fn"}]

JumpRecord == [at : Int, rel : Byte, target : Int]
Scope == [Names -> [addr : Nat, type : ValueType] \cup {NoSlot}]

(* Every variable of the generator has its type.                           *)
TypeOK ==
  /\ allocated \subseteq Register
  /\ mode \in AllocatorMode
  /\ evalStack \in Seq([reg : Register, node : Nat])
  /\ spOffset \in Nat
  /\ scopes \in Seq(Scope)
  /\ codeLength \in Nat
  /\ dataLength \in Nat
  /\ symbols \in Seq([name : FnNames \cup {"$d"}, section : 0 .. 2, value : Nat])
  /\ relocations \in Seq([vaddr : Nat, symndx : Nat])
  /\ agenda \in Seq(Item)
  /\ status \in {"running", "threw", "undefined", "done"}
  /\ contents \in [Register -> Nat]
  /\ nodes \in Nat
  /\ jumps \subseteq JumpRecord
  /\ leaks \in Nat
  /\ abandoned \in Nat
  /\ misencoded \in BOOLEAN

-----------------------------------------------------------------------------
(* Registers and the evaluation stack.                                     *)

RightItems == {i \in 1 .. Len(agenda) : agenda[i].what = "right"}
BodiesIn(items) == {i \in 1 .. Len(items) : items[i].what \in BodyKind}
Bodies == BodiesIn(agenda)

(* The entries of the evaluation stack that are still to be used: those    *)
(* above the abandoned ones, unless a call is an operand.                  *)
Live == (abandoned + 1) .. Len(evalStack)

(* RAX and RSP are never handed out: neither the evaluation stack nor a    *)
(* pending left operand is ever in them (register_allocator.cpp:17-21), so *)
(* no code of an expression moves the stack pointer, unless an instruction *)
(* names another register than meant.                                      *)
ReservedRegisters ==
  /\ \A i \in 1 .. Len(evalStack) : evalStack[i].reg \notin {RAX, RSP}
  /\ \A i \in RightItems : agenda[i].left \notin {RAX, RSP}
  /\ ~misencoded => contents[RSP] = 0

(* Until it is used, the value of every evaluated operand and argument is  *)
(* still in the register it was computed into, whatever code is emitted in *)
(* between for other operands, as long as every instruction has named the  *)
(* register that was meant.                                                *)
ValuesHeld ==
  status = "running" /\ ~misencoded =>
    /\ \A i \in Live : contents[evalStack[i].reg] = evalStack[i].node
    /\ \A i \in RightItems : contents[agenda[i].left] = agenda[i].leftNode

(* Whoever pops the evaluation stack finds the operand it has just         *)
(* visited, though arguments of earlier calls and unused values are left   *)
(* below; between statements nothing but those is left, one for each       *)
(* argument and unused value, and the allocator is out of call mode.       *)
Balanced ==
  /\ Doing(Awaiting) =>
       evalStack # << >> /\ Top.node = Head(agenda).of
  /\ Doing(BodyKind) => Len(evalStack) = abandoned /\ mode = "None"

(* The operands of the expressions in progress, outermost first: the left  *)
(* ones that wait for their right ones, then what is on the evaluation     *)
(* stack; each is what the emitted code has left in its register.          *)
LeftValue(item, cont) == IF item.what = "right" THEN << cont[item.left] >> ELSE << >>

(* Sequences put one after the other.                                      *)
Joined(parts) ==
  LET upTo[n \in 0 .. Len(parts)] == IF n = 0 THEN << >> ELSE upTo[n - 1] \o parts[n]
  IN upTo[Len(parts)]

PendingLefts(items, cont) ==
  Joined([i \in 1 .. Len(items) |-> LeftValue(items[Len(items) + 1 - i], cont)])
LiveOperands(stack, gone, cont) ==
  [i \in 1 .. Len(stack) - gone |-> cont[stack[gone + i].reg]]

HeldOperands ==
  PendingLefts(agenda, contents) \o LiveOperands(evalStack, abandoned, contents)

(* In programs without calls the registers implement the operand stack:    *)
(* the code emitted for one operand never disturbs another that is still   *)
(* to be used, though they share thirteen registers, two of them with the  *)
(* division.  The first instruction that names another register than meant *)
(* breaks the machine.                                                     *)
Machine == INSTANCE OperandStack WITH operands <- HeldOperands, broken <- misencoded
KeepsOperands == Machine!StackSpec

(* In programs without calls a register is lost exactly when a ret or an   *)
(* if pops its value without freeing it: the others are the three reserved *)
(* ones and those that hold an operand still to be used.                   *)
RegistersAccounted ==
  status = "running" =>
    Cardinality(allocated) =
      Cardinality(InitiallyAllocated) + leaks
      + Cardinality(Live) + Cardinality(RightItems)

(* get_free throws only when all thirteen registers it can hand out are    *)
(* lost or in use, in programs without calls.                              *)
ThrowsOnlyWhenFull ==
  status = "threw" /\ agenda # << >> /\ Head(agenda).what = "expr" =>
    leaks + Cardinality(Live) + Cardinality(RightItems) = 13

(* The allocator hands out RCX, RDX, R8 and R9 to the arguments of a call, *)
(* in this order (generator.cpp:197), and as long as every instruction has *)
(* named the register that was meant, which is so for the first two        *)
(* arguments, the emitted code has their values there, those evaluated     *)
(* first included.                                                         *)
ArgumentsInOrder ==
  Doing({"call"}) =>
    LET call == Head(agenda) IN
      /\ Len(evalStack) = call.base + call.count
      /\ \A i \in 1 .. call.count :
           LET argument == evalStack[call.base + i] IN
             /\ argument.reg = ArgRegister(i)
             /\ ~misencoded => contents[ArgRegister(i)] = argument.node

(* What generator.cpp:197 says: the emitted code puts the arguments into   *)
(* RCX, RDX, R8 and R9, in this order.                                     *)
ArgumentsDelivered ==
  Doing({"call"}) =>
    LET call == Head(agenda) IN
      \A i \in 1 .. call.count :
        contents[ArgRegister(i)] = evalStack[call.base + i].node

(* Call mode is over when the outermost call is: between two statements    *)
(* get_free looks through all registers again, however calls are nested in *)
(* the arguments of calls and whichever of them ended first                *)
(* (generator.cpp:199-205).                                                *)
CallModeInCalls ==
  status = "running" /\ mode = "Call" =>
    \E i \in 1 .. Len(agenda) : agenda[i].what = "call"

-----------------------------------------------------------------------------
(* The frame.                                                              *)

(* While the generator runs there is one address table for each function   *)
(* or if being generated, and the one at the bottom, so that a name never  *)
(* resolves to a slot of a block that has been left.                       *)
ScopesFollowBodies ==
  status = "running" => Len(scopes) = 1 + Cardinality(Bodies)

Visible == {v \in (1 .. Len(scopes)) \X Names : Declares(scopes, v[1], v[2])}
SlotOf(v) == scopes[v[1]][v[2]]
Bytes(slot) == slot.addr .. (slot.addr + Size(slot.type) - 1)

(* Two variables that are alive at the same time share no byte of the      *)
(* frame, whatever scopes they are in.                                     *)
SlotsDisjoint ==
  \A v, w \in Visible : v # w => Bytes(SlotOf(v)) \cap Bytes(SlotOf(w)) = {}

(* A variable lies between the first local and the offset of the allocator *)
(* or is one of the four parameter homes below the first local.            *)
SlotsInFrame ==
  \A v \in Visible :
    LET slot == SlotOf(v) IN
      \/ FirstLocal <= slot.addr /\ slot.addr + Size(slot.type) <= spOffset
      \/ \E i \in 1 .. MaxRegisterArgs :
           slot.addr = ArgHome(i) /\ slot.addr + Size(slot.type) <= FirstLocal

-----------------------------------------------------------------------------
(* The emitted code.                                                       *)

Landing(j) == j.at + 1 + (IF j.rel < 128 THEN j.rel ELSE j.rel - 256)
Reach(j) == j.target - (j.at + 1)

(* A jump goes where the comments of the generator say, as long as that is *)
(* within the reach of a one-byte distance: the constants 10, 5 and 3 of   *)
(* the operators match the instructions they jump over, and the jump of an *)
(* if is patched to the end of its body.                                   *)
JumpsLandInReach == \A j \in jumps : Reach(j) <= 127 => Landing(j) = j.target

(* The places that are patched later, the distance byte of a jump by the   *)
(* generator and the four bytes of a relocation by the linker, are inside  *)
(* the code and never overlap.                                             *)
RelocationBytes(r) == r.vaddr .. (r.vaddr + 3)

PatchSitesDisjoint ==
  /\ \A i \in 1 .. Len(relocations) :
       /\ relocations[i].vaddr + 4 <= codeLength
       /\ relocations[i].symndx < Len(symbols)
       /\ \A k \in 1 .. (i - 1) :
            RelocationBytes(relocations[i]) \cap RelocationBytes(relocations[k]) = {}
       /\ \A j \in jumps : j.at \notin RelocationBytes(relocations[i])
  /\ \A j, k \in jumps : j.at = k.at => j = k

(* Each string literal has bytes of its own in .data, at least a NUL, and  *)
(* its symbol is where they start.                                         *)
StringsDistinct ==
  \A i \in 1 .. Len(symbols) :
    symbols[i].section = 1 =>
      /\ symbols[i].value < dataLength
      /\ \A k \in 1 .. (i - 1) :
           symbols[k].section = 1 => symbols[k].value < symbols[i].value

-----------------------------------------------------------------------------
(* The generator finishes every program: it writes the object file, or it  *)
(* throws, or it reaches undefined behaviour.                              *)
Finishes == <>(status # "running")
=============================================================================
