--------------------------- MODULE OperandProofs ----------------------------
(***************************************************************************)
(* Proofs about the order of operands: where the arguments of a call are,  *)
(* and that in programs without calls the registers implement the operand  *)
(* stack of OperandStack.                                                  *)
(***************************************************************************)
EXTENDS RegisterProofs, WellFoundedInduction

-----------------------------------------------------------------------------
(* The arguments of a call.  While one is in progress, the ones done are   *)
(* on top of what the call found on the evaluation stack, the argument     *)
(* registers stand for them in their order and hold them unless misencoded *)
(* is set, and no other argument register is taken; only a leaf is ever    *)
(* visited above the call.                                                 *)

LeafArguments == CallsAreStatements /\ "binary" \notin Arguments

Filled(base, done) ==
  /\ mode = "Call"
  /\ done \in 0 .. 4
  /\ Len(evalStack) = base + done
  /\ \A i \in 1 .. done : evalStack[base + i].reg = ArgRegister(i)
  /\ allocated \cap ArgRegisters = {ArgRegister(i) : i \in 1 .. done}
  /\ misencoded \/ \A i \in 1 .. done : contents[ArgRegister(i)] = evalStack[base + i].node

AtCall(a) == a # << >> /\ Head(a).what = "call"

Passing ==
  \/ /\ AtCall(agenda)
     /\ Filled(Head(agenda).base, Head(agenda).count)
  \/ /\ Doing({"expr"}) /\ AtCall(Tail(agenda))
     /\ Filled(Head(Tail(agenda)).base, Head(Tail(agenda)).count - 1)

ArgInv == status = "running" /\ HasCall(agenda) => Passing

LEMMA ArgumentRegisters ==
  /\ ArgRegisters = {1, 2, 8, 9}
  /\ ArgRegister(1) = 1 /\ ArgRegister(2) = 2 /\ ArgRegister(3) = 8 /\ ArgRegister(4) = 9
BY DEF ArgRegisters, ArgRegister, RCX, RDX, R8, R9

(* In call mode get_free grants the first argument register that is not    *)
(* taken: the one of the next argument.                                    *)
LEMMA NextArgument ==
  ASSUME NEW done \in 0 .. 4, NEW alloc, NEW r,
         alloc \cap ArgRegisters = {ArgRegister(i) : i \in 1 .. done},
         Grants(alloc, "Call", r)
  PROVE /\ done + 1 \in 0 .. 4 /\ r = ArgRegister(done + 1)
        /\ (alloc \cup {r}) \cap ArgRegisters = {ArgRegister(i) : i \in 1 .. (done + 1)}
<1>1. /\ r \in {1, 2, 8, 9} \ alloc
      /\ \A s \in {1, 2, 8, 9} \ alloc : r <= s
  BY ArgumentRegisters DEF Grants, Candidates
<1>2. CASE done = 0
  <2>1. {ArgRegister(i) : i \in 1 .. done} = {} /\ {ArgRegister(i) : i \in 1 .. (done + 1)} = {1}
    BY <1>2, ArgumentRegisters
  <2> QED
    BY <1>1, <1>2, <2>1, ArgumentRegisters
<1>3. CASE done = 1
  <2>1. 1 .. done = {1} /\ 1 .. (done + 1) = {1, 2}
    BY <1>3
  <2>2. {ArgRegister(i) : i \in 1 .. done} = {1} /\ {ArgRegister(i) : i \in 1 .. (done + 1)} = {1, 2}
    BY <2>1, ArgumentRegisters
  <2> QED
    BY <1>1, <1>3, <2>2, ArgumentRegisters
<1>4. CASE done = 2
  <2>1. 1 .. done = {1, 2} /\ 1 .. (done + 1) = {1, 2, 3}
    BY <1>4
  <2>2. {ArgRegister(i) : i \in 1 .. done} = {1, 2} /\ {ArgRegister(i) : i \in 1 .. (done + 1)} = {1, 2, 8}
    BY <2>1, ArgumentRegisters
  <2> QED
    BY <1>1, <1>4, <2>2, ArgumentRegisters
<1>5. CASE done = 3
  <2>1. 1 .. done = {1, 2, 3} /\ 1 .. (done + 1) = {1, 2, 3, 4}
    BY <1>5
  <2>2. {ArgRegister(i) : i \in 1 .. done} = {1, 2, 8} /\ {ArgRegister(i) : i \in 1 .. (done + 1)} = {1, 2, 8, 9}
    BY <2>1, ArgumentRegisters
  <2> QED
    BY <1>1, <1>5, <2>2, ArgumentRegisters
<1>6. CASE done = 4
  <2>1. 1 .. done = {1, 2, 3, 4}
    BY <1>6
  <2>2. {ArgRegister(i) : i \in 1 .. done} = {1, 2, 8, 9}
    BY <2>1, ArgumentRegisters
  <2> QED
    BY <1>1, <2>2, ArgumentRegisters
<1> QED
  BY <1>2, <1>3, <1>4, <1>5, <1>6

LEMMA NoCallLeft ==
  ASSUME NEW a, OnlyBodies(a)
  PROVE ~HasCall(a)
BY BodiesHaveNoCall, CallIsOn

LEMMA CallBelow ==
  ASSUME NEW a \in Seq(SafeItem), a # << >>
  PROVE HasCall(a) <=> Head(a).what = "call" \/ HasCall(Tail(a))
<1>1. CallsOn(a) # {} <=> Head(a).what = "call" \/ CallsOn(Tail(a)) # {}
  BY CallsOfTail
<1> QED
  BY <1>1, CallIsOn

LEMMA CallOnTop ==
  ASSUME NEW x \in SafeItem, NEW a \in Seq(SafeItem)
  PROVE /\ << x >> \o a \in Seq(SafeItem) /\ << x >> \o a # << >>
        /\ Head(<< x >> \o a) = x /\ Tail(<< x >> \o a) = a
        /\ HasCall(<< x >> \o a) <=> x.what = "call" \/ HasCall(a)
<1> DEFINE b == << x >> \o a
<1>1. b \in Seq(SafeItem) /\ b # << >> /\ Head(b) = x /\ Tail(b) = a
  OBVIOUS
<1> HIDE DEF b
<1>2. HasCall(b) <=> x.what = "call" \/ HasCall(a)
  BY <1>1, CallBelow
<1> QED
  BY <1>1, <1>2 DEF b

(* Outside calls nothing changes unless a call is put on the agenda.       *)
LEMMA NoCallStays ==
  ASSUME IInv, NEW what, Doing(what), ~HasCall(agenda), NEW items \in Seq(SafeItem),
         \A i \in 1 .. Len(items) : items[i].what # "call",
         Replace(items) \/ Enter(items)
  PROVE ~HasCall(agenda')
<1>1. /\ agenda \in Seq(SafeItem) /\ agenda # << >> /\ Tail(agenda) \in Seq(SafeItem)
  BY HandledHead
<1>2. ~HasCall(Tail(agenda))
  BY <1>1, CallBelow
<1>3. ASSUME NEW a \in Seq(SafeItem), ~HasCall(a) PROVE ~HasCall(items \o a)
  <2> SUFFICES ASSUME NEW i \in 1 .. Len(items \o a), (items \o a)[i].what = "call" PROVE FALSE
    BY DEF HasCall
  <2>1. CASE i <= Len(items)
    <3>1. i \in 1 .. Len(items)
      BY <2>1
    <3> QED
      BY <3>1, ConcatItems
  <2>2. CASE i > Len(items)
    <3>1. i - Len(items) \in 1 .. Len(a) /\ i \in (Len(items) + 1) .. (Len(items) + Len(a))
      BY <2>2, ConcatItems
    <3>2. (items \o a)[i] = a[i - Len(items)]
      BY <3>1, ConcatItems
    <3> QED
      BY <1>3, <3>1, <3>2 DEF HasCall
  <2> QED
    BY <2>1, <2>2
<1> QED
  BY <1>1, <1>2, <1>3 DEF Replace, Enter

LEMMA NoCallInNone ==
  << >> \in Seq(SafeItem) /\ \A i \in 1 .. Len(<< >>) : << >>[i].what # "call"
OBVIOUS

LEMMA OutsideCalls ==
  ASSUME IInv, ArgInv, NEW what, Doing(what), what \cap {"call", "expr"} = {}
  PROVE ~HasCall(agenda)
BY HandledHead DEF ArgInv, Passing, AtCall, Doing

(* An expression that is not a leaf is not an argument.                    *)
LEMMA ArgumentIsLeaf ==
  ASSUME IInv, CInv, ArgInv, LeafArguments, Expecting("binary") \/ Expecting("call")
  PROVE Expecting("binary") /\ ~HasCall(agenda)
<1>1. Doing({"expr"}) /\ ~Expecting("call")
  BY DEF Expecting, LeafArguments, CallsAreStatements
<1>2. /\ agenda \in Seq(SafeItem) /\ agenda # << >> /\ Head(agenda).what = "expr"
      /\ status = "running" /\ Tail(agenda) \in Seq(SafeItem)
  BY <1>1, HandledHead
<1>3. ASSUME HasCall(agenda) PROVE FALSE
  <2>1. AtCall(Tail(agenda))
    BY <1>2, <1>3 DEF ArgInv, Passing, AtCall
  <2>2. DirectlyUnder("call")
    <3>1. Len(agenda) \in Nat /\ Len(Tail(agenda)) = Len(agenda) - 1 /\ Len(Tail(agenda)) # 0
      BY <1>2, <2>1, TailItems DEF AtCall
    <3>2. Head(Tail(agenda)) = agenda[2]
      BY <1>2, <3>1
    <3> QED
      BY <2>1, <3>1, <3>2 DEF DirectlyUnder, AtCall
  <2> QED
    BY <1>1, <2>2 DEF Expecting, LeafArguments
<1> QED
  BY <1>1, <1>3

(* A leaf: the next argument register is its own.                          *)
LEMMA LeafArgument ==
  ASSUME IInv, IInv', ArgInv, Doing({"expr"}), NEW r \in Register, GetAndPush(r, ThisNode),
         Replace(<< >>), UNCHANGED status,
         ~misencoded' => ~misencoded /\ contents' = [contents EXCEPT ![r] = ThisNode]
  PROVE ArgInv'
<1>1. /\ agenda \in Seq(SafeItem) /\ agenda # << >> /\ Head(agenda).what = "expr"
      /\ status = "running" /\ Tail(agenda) \in Seq(SafeItem)
      /\ evalStack \in Seq(SafeOperand) /\ Len(evalStack) \in Nat
  BY HandledHead
<1>2. agenda' = Tail(agenda)
  BY <1>1, NoItems DEF Replace
<1> SUFFICES ASSUME HasCall(agenda') PROVE Passing'
  BY DEF ArgInv
<1>3. HasCall(agenda)
  BY <1>1, <1>2, CallBelow
<1> DEFINE item == Head(Tail(agenda))
           done == item.count - 1
<1>4. AtCall(Tail(agenda)) /\ Filled(item.base, done)
  BY <1>1, <1>3 DEF ArgInv, Passing, AtCall
<1>5. item \in SafeItem /\ item.base \in Nat /\ item.count \in Nat
  <2>1. item \in SafeItem /\ item.what = "call"
    BY <1>1, <1>4 DEF AtCall
  <2> QED
    BY <2>1, ItemFields
<1> HIDE DEF item
<1>6. /\ done \in 0 .. 4 /\ allocated \cap ArgRegisters = {ArgRegister(i) : i \in 1 .. done}
      /\ Grants(allocated, "Call", r) /\ Len(evalStack) = item.base + done
      /\ \A i \in 1 .. done : evalStack[item.base + i].reg = ArgRegister(i)
      /\ misencoded \/
           \A i \in 1 .. done : contents[ArgRegister(i)] = evalStack[item.base + i].node
  BY <1>4 DEF Filled, GetAndPush
<1>7. /\ done + 1 \in 0 .. 4 /\ r = ArgRegister(done + 1)
      /\ (allocated \cup {r}) \cap ArgRegisters = {ArgRegister(i) : i \in 1 .. (done + 1)}
  BY <1>6, NextArgument
<1>8. /\ evalStack' = Append(evalStack, Operand(r, ThisNode)) /\ mode' = "Call"
      /\ allocated' = allocated \cup {r}
  BY <1>4 DEF Filled, GetAndPush
<1>9. /\ Len(evalStack') = Len(evalStack) + 1
      /\ \A i \in 1 .. Len(evalStack) : evalStack'[i] = evalStack[i]
      /\ evalStack'[Len(evalStack) + 1].reg = r
      /\ evalStack'[Len(evalStack) + 1].node = ThisNode
  BY <1>1, <1>8 DEF Operand
<1>10. \A i \in 1 .. (done + 1) : evalStack'[item.base + i].reg = ArgRegister(i)
  <2> TAKE i \in 1 .. (done + 1)
  <2>1. CASE i = done + 1
    BY <1>5, <1>6, <1>7, <1>9, <2>1
  <2>2. CASE i # done + 1
    <3>1. i \in 1 .. done /\ item.base + i \in 1 .. Len(evalStack)
      BY <1>5, <1>6, <2>2
    <3> QED
      BY <1>6, <1>9, <3>1
  <2> QED
    BY <2>1, <2>2
<1>11. done + 1 = item.count /\ Len(evalStack') = item.base + (done + 1)
  BY <1>5, <1>6, <1>9
<1>12. ASSUME ~misencoded', NEW i \in 1 .. (done + 1)
       PROVE contents'[ArgRegister(i)] = evalStack'[item.base + i].node
  <2>1. /\ ~misencoded /\ contents' = [contents EXCEPT ![r] = ThisNode]
        /\ contents \in [Register -> Nat]
    BY <1>12 DEF IInv, ContentsInv
  <2>2. CASE i = done + 1
    BY <1>5, <1>6, <1>7, <1>9, <2>1, <2>2
  <2>3. CASE i # done + 1
    <3>1. i \in 1 .. done /\ item.base + i \in 1 .. Len(evalStack) /\ i \in 1 .. 4
      BY <1>5, <1>6, <2>3
    <3>2. ArgRegister(i) \in Register
      BY <3>1, ArgumentRegisters DEF Register
    <3>3. ArgRegister(i) \in allocated
      BY <1>6, <3>1
    <3>4. ArgRegister(i) # r
      BY <1>6, <3>3 DEF Grants, Candidates
    <3> QED
      BY <1>6, <1>9, <2>1, <3>1, <3>2, <3>4
  <2> QED
    BY <2>2, <2>3
<1> HIDE DEF done
<1>13. AtCall(agenda') /\ Head(agenda') = item
  BY <1>2, <1>4 DEF AtCall, item
<1>14. Filled(Head(agenda).base, Head(agenda).count)'
  BY <1>7, <1>8, <1>10, <1>11, <1>13, <1>12 DEF Filled
<1> QED
  BY <1>13, <1>14 DEF Passing, AtCall

LEMMA EnteringArgument == IInv /\ IInv' /\ CInv /\ ArgInv /\ VisitArgument => ArgInv'
<1> SUFFICES ASSUME IInv, IInv', CInv, ArgInv, VisitArgument PROVE ArgInv'
  OBVIOUS
<1> DEFINE item == Head(agenda)
           a == Tail(agenda)
           y == [item EXCEPT !.count = item.count + 1]
<1>1. PICK t \in Types : Replace(<< ExprItem(t), y >>)
  BY DEF VisitArgument
<1> DEFINE x == ExprItem(t)
           b == << y >> \o a
           c == << x >> \o b
<1>2. /\ Doing({"call"}) /\ UNCHANGED << mode, status, evalStack, allocated >>
      /\ UNCHANGED << contents, misencoded >>
  BY DEF VisitArgument, visitedOnly, allocatorVars, historyVars
<1>3. /\ agenda \in Seq(SafeItem) /\ agenda # << >> /\ item \in SafeItem
      /\ item.what = "call" /\ a \in Seq(SafeItem) /\ status = "running"
      /\ x \in SafeItem /\ x.what = "expr"
  BY <1>2, HandledHead, HandlersPush, ItemFieldsByName, TypesAssumption
<1>4. /\ y \in SafeItem /\ y.what = "call" /\ y.base = item.base
      /\ item.count \in Nat /\ y.count = item.count + 1
  BY <1>3 DEF SafeItem, Item, UseKind
<1>5. Filled(item.base, item.count)
  <2>1. HasCall(agenda)
    BY <1>3, CallBelow
  <2> QED
    BY <1>3, <2>1 DEF ArgInv, Passing, Doing
<1> HIDE DEF a, x, y, item
<1>6. agenda' = c
  BY <1>1, <1>3, <1>4, TwoItems DEF Replace, a, x
<1>7. b \in Seq(SafeItem) /\ b # << >> /\ Head(b) = y
  BY <1>3, <1>4, CallOnTop
<1> HIDE DEF b
<1>8. c # << >> /\ Head(c) = x /\ Tail(c) = b
  BY <1>3, <1>7, CallOnTop
<1> HIDE DEF c
<1>9. Doing({"expr"})' /\ AtCall(Tail(agenda')) /\ Head(Tail(agenda')) = y
  BY <1>2, <1>3, <1>4, <1>6, <1>7, <1>8 DEF Doing, AtCall
<1>10. y.count - 1 = item.count
  BY <1>4
<1>11. Filled(Head(Tail(agenda)).base, Head(Tail(agenda)).count - 1)'
  BY <1>2, <1>4, <1>5, <1>9, <1>10 DEF Filled
<1> QED
  BY <1>9, <1>11 DEF ArgInv, Passing

LEMMA CallStatementArguments ==
  IInv /\ IInv' /\ CInv /\ LeafArguments /\ VisitCallStatement => ArgInv'
<1> SUFFICES ASSUME IInv, IInv', CInv, LeafArguments, VisitCallStatement PROVE ArgInv'
  OBVIOUS
<1>1. PICK f \in FnNames : BeginCall(f) /\ Enter(<< CallItem(f, Len(evalStack), 0) >>)
  BY DEF VisitCallStatement
<1> DEFINE x == CallItem(f, Len(evalStack), 0)
<1>2. /\ Doing(BodyKind) /\ UNCHANGED << evalStack, status >> /\ mode' = "Call"
      /\ allocated' = allocated \ ArgRegisters
  BY <1>1 DEF VisitCallStatement, InBody, BeginCall, PreparedForCall
<1>3. agenda \in Seq(SafeItem) /\ x \in SafeItem /\ Len(evalStack) \in Nat
  BY <1>2, HandledHead, HandlersPush
<1>4. x.what = "call" /\ x.base = Len(evalStack) /\ x.count = 0
  BY DEF CallItem
<1>5. agenda' = << x >> \o agenda
  BY <1>1 DEF Enter
<1> HIDE DEF x
<1>6. AtCall(agenda') /\ Head(agenda') = x
  BY <1>3, <1>4, <1>5, CallOnTop DEF AtCall
<1>7. Filled(Head(agenda).base, Head(agenda).count)'
  BY <1>2, <1>3, <1>4, <1>6 DEF Filled
<1> QED
  BY <1>6, <1>7 DEF ArgInv, Passing

LEMMA StatementsArguments ==
  IInv /\ IInv' /\ CInv /\ LeafArguments /\ ArgInv /\ Statement => ArgInv'
<1> SUFFICES ASSUME IInv, IInv', CInv, LeafArguments, ArgInv, Statement, ~VisitCallStatement
             PROVE ~HasCall(agenda')
  BY CallStatementArguments DEF ArgInv
<1>1. Doing(BodyKind \cup UseKind \cup {"let"})
  BY DEF Statement, VisitVarDecl, VisitRet, VisitIf, VisitExprStatement, VisitUse, VisitAssign,
     InBody, EndVarDecl, EndRet, BeginIf, EndIf, EndExprStatement, Doing, BodyKind, UseKind
<1>2. ~HasCall(agenda)
  BY <1>1, Kinds, OutsideCalls
<1>3. CASE VisitVarDecl \/ VisitRet \/ VisitIf \/ VisitExprStatement
  <2>1. PICK t \in ValueType, y \in SafeItem : y.what # "call" /\ Enter(<< ExprItem(t), y >>)
    <3>1. CASE VisitVarDecl
      <4>1. PICK n \in Names, t \in Types : Enter(<< ExprItem(t), LetItem(n, t, NextNode) >>)
        BY <3>1 DEF VisitVarDecl
      <4> QED
        BY <3>1, <4>1, HandlersPush, ItemFieldsByName, TypesAssumption
    <3>2. CASE VisitRet \/ VisitIf \/ VisitExprStatement
      <4>1. /\ Types \subseteq ValueType /\ {"bool"} \subseteq ValueType
            /\ {"ret", "test", "discard"} \subseteq UseKind /\ NextNode \in Nat
        BY TypesAssumption DEF ValueType, UseKind, IInv, CountersInv, NextNode
      <4>2. \E what \in UseKind, t \in ValueType :
              Enter(<< ExprItem(t), UseItem(what, NextNode) >>)
        BY <3>2, <4>1 DEF VisitRet, VisitIf, VisitExprStatement, VisitUse
      <4> QED
        BY <4>1, <4>2, HandlersPush, ItemFieldsByName, Kinds
    <3> QED
      BY <1>3, <3>1, <3>2
  <2> DEFINE items == << ExprItem(t), y >>
  <2>2. items \in Seq(SafeItem) /\ \A i \in 1 .. Len(items) : items[i].what # "call"
    BY <2>1, HandlersPush, ItemFieldsByName, TwoItems
  <2> HIDE DEF items
  <2> QED
    BY <1>1, <1>2, <2>1, <2>2, NoCallStays DEF items
<1>4. CASE VisitAssign
  BY <1>2, <1>4 DEF VisitAssign
<1>5. CASE EndVarDecl \/ EndRet \/ EndIf \/ EndExprStatement
  <2>1. Replace(<< >>)
    BY <1>5 DEF EndVarDecl, EndRet, EndIf, EndExprStatement
  <2> QED
    BY <1>1, <1>2, <2>1, NoCallInNone, NoCallStays
<1>6. CASE BeginIf
  <2>1. PICK at : Replace(<< IfItem(at) >>) /\ Doing({"test"})
    BY <1>6 DEF BeginIf
  <2>2. Tail(agenda) \in Seq(SafeItem) /\ OnlyBodies(Tail(agenda))
    BY <2>1, HandledHead, AtStatementEnd, Kinds DEF CInv, LeafArguments
  <2>3. IfItem(at).what = "if" /\ agenda' = << IfItem(at) >> \o Tail(agenda)
    BY <2>1, ItemFieldsByName DEF Replace
  <2>4. \A i \in 1 .. Len(agenda') :
          agenda'[i] = IF i = 1 THEN IfItem(at) ELSE Tail(agenda)[i - 1]
    BY <2>2, <2>3
  <2>5. \A i \in 1 .. Len(agenda') : i # 1 => i - 1 \in 1 .. Len(Tail(agenda))
    BY <2>2, <2>3
  <2> QED
    BY <2>2, <2>3, <2>4, <2>5, Kinds DEF HasCall, OnlyBodies
<1> QED
  BY <1>3, <1>4, <1>5, <1>6 DEF Statement

LEMMA ExpressionsArguments ==
  IInv /\ IInv' /\ CInv /\ LeafArguments /\ ArgInv /\ Expression => ArgInv'
<1> SUFFICES ASSUME IInv, IInv', CInv, LeafArguments, ArgInv, Expression PROVE ArgInv'
  OBVIOUS
<1>1. CASE VisitLiteral \/ VisitString \/ VisitIdentifier
  <2>1. PICK r \in Register :
          /\ GetAndPush(r, ThisNode) /\ Misencode(r > RDI)
          /\ contents' \in {Moved(r, ThisNode), Addressed(r, ThisNode)}
    BY <1>1 DEF VisitLiteral, VisitString, VisitIdentifier
  <2>2. Doing({"expr"}) /\ Replace(<< >>) /\ UNCHANGED status
    BY <1>1 DEF VisitLiteral, VisitString, VisitIdentifier, Expecting
  <2> QED
    BY <2>1, <2>2, LeafMoves, LeafArgument
<1>2. CASE StoreLiteral
  <2>1. Doing({"expr"}) /\ agenda' = Tail(Tail(agenda)) /\ Len(agenda) > 1
        /\ agenda[2].what = "let"
    BY <1>2 DEF StoreLiteral, Expecting, Initialising, DirectlyUnder
  <2>2. /\ agenda \in Seq(SafeItem) /\ agenda # << >> /\ Head(agenda).what = "expr"
        /\ Tail(agenda) \in Seq(SafeItem) /\ status = "running"
    BY <2>1, HandledHead
  <2>3. Tail(agenda) # << >> /\ Head(Tail(agenda)).what = "let"
    BY <2>1, <2>2, TailRemains
  <2>4. ~HasCall(agenda)
    BY <2>2, <2>3 DEF ArgInv, Passing, AtCall
  <2>5. ~HasCall(agenda')
    <3> DEFINE b == Tail(agenda)
    <3>1. b \in Seq(SafeItem) /\ b # << >> /\ ~HasCall(b) /\ agenda' = Tail(b)
      BY <2>1, <2>2, <2>3, <2>4, CallBelow
    <3> HIDE DEF b
    <3> QED
      BY <3>1, CallBelow
  <2> QED
    BY <2>5 DEF ArgInv
<1>3. CASE VisitBinary
  <2>1. PICK op \in Operators, t \in Types :
          Replace(<< ExprItem(t), LeftItem(op, t, ThisNode, NextNode) >>)
    BY <1>3 DEF VisitBinary
  <2> DEFINE y == LeftItem(op, t, ThisNode, NextNode)
             items == << ExprItem(t), y >>
  <2>2. Expecting("binary") /\ Doing({"expr"}) /\ ~HasCall(agenda)
    BY <1>3, ArgumentIsLeaf DEF VisitBinary, Expecting
  <2>3. items \in Seq(SafeItem) /\ \A i \in 1 .. Len(items) : items[i].what # "call"
    BY HandlersPush, ItemFieldsByName, TwoItems, TypesAssumption
  <2> HIDE DEF items
  <2>4. ~HasCall(agenda')
    BY <2>1, <2>2, <2>3, NoCallStays DEF items
  <2> QED
    BY <2>4 DEF ArgInv
<1>4. CASE PopLeft
  <2> DEFINE item == Head(agenda)
             x == ExprItem(item.type)
             y == RightItem(item.op, item.type, item.node, ThisNode, Top.reg, item.of)
             items == << x, y >>
  <2>1. Doing({"left"}) /\ Replace(items) /\ evalStack # << >>
    BY <1>4 DEF PopLeft
  <2>2. item \in SafeItem /\ item.what = "left" /\ ThisNode \in Nat
    BY <2>1, HandledHead DEF ThisNode
  <2>3. x \in SafeItem /\ y \in SafeItem
    BY <2>1, <2>2, Popping, ItemFields, ItemsTyped DEF IInv
  <2>4. x.what = "expr" /\ y.what = "right"
    BY ItemFieldsByName
  <2> HIDE DEF x, y
  <2>5. items \in Seq(SafeItem) /\ \A i \in 1 .. Len(items) : items[i].what # "call"
    BY <2>3, <2>4, TwoItems
  <2> HIDE DEF items
  <2>6. ~HasCall(agenda')
    BY <2>1, <2>5, OutsideCalls, NoCallStays
  <2> QED
    BY <2>6 DEF ArgInv
<1>5. CASE ApplyOperator
  <2>1. Doing({"right"}) /\ Replace(<< >>)
    BY <1>5 DEF ApplyOperator
  <2>2. ~HasCall(agenda')
    BY <2>1, NoCallInNone, OutsideCalls, NoCallStays
  <2> QED
    BY <2>2 DEF ArgInv
<1>6. CASE VisitCallOperand
  <2>1. Expecting("call")
    BY <1>6 DEF VisitCallOperand
  <2> QED
    BY <2>1 DEF Expecting, LeafArguments, CallsAreStatements
<1>7. CASE EndCall
  <2>1. Doing({"call"}) /\ Replace(<< >>)
    BY <1>7 DEF EndCall
  <2>2. /\ agenda \in Seq(SafeItem) /\ agenda # << >> /\ Head(agenda).what = "call"
        /\ Tail(agenda) \in Seq(SafeItem) /\ status = "running"
    BY <2>1, HandledHead
  <2>3. agenda' = Tail(agenda) /\ OnlyBodies(Tail(agenda))
    BY <2>1, <2>2, NoItems, TailNested, Kinds DEF Replace, CInv, BalanceInv, LeafArguments
  <2> QED
    BY <2>3, NoCallLeft DEF ArgInv
<1> QED
  BY <1>1, <1>2, <1>3, <1>4, <1>5, <1>6, <1>7, EnteringArgument DEF Expression

LEMMA NextArguments ==
  IInv /\ IInv' /\ CInv /\ LeafArguments /\ ArgInv /\ [Next]_vars => ArgInv'
<1> SUFFICES ASSUME IInv, IInv', CInv, LeafArguments, ArgInv, [Next]_vars PROVE ArgInv'
  OBVIOUS
<1>1. CASE BeginFunction
  <2>1. agenda = << >> /\ (UNCHANGED agenda \/ Enter(<< FnItem >>))
    BY <1>1 DEF BeginFunction
  <2>2. << FnItem >> \in Seq(SafeItem) /\ FnItem.what = "fn"
    BY HandlersPush, OneItem, ItemFieldsByName
  <2>3. << FnItem >> \o << >> = << FnItem >>
    BY <2>2
  <2>4. OnlyBodies(agenda')
    BY <2>1, <2>2, <2>3 DEF Enter, OnlyBodies, BodyKind
  <2> QED
    BY <2>4, NoCallLeft DEF ArgInv
<1>2. CASE EndFunction
  <2>1. Doing({"fn"}) /\ Replace(<< >>)
    BY <1>2 DEF EndFunction
  <2> QED
    BY <2>1, NoCallInNone, OutsideCalls, NoCallStays DEF ArgInv
<1>3. CASE WriteToDisk \/ Failure
  BY <1>3 DEF WriteToDisk, Failure, OutOfRegisters, RejectOperator, PopEmpty, ArgInv
<1>4. CASE Terminated \/ UNCHANGED vars
  BY <1>4 DEF Terminated, vars, ArgInv, Passing, Filled, Doing, AtCall
<1> QED
  BY <1>1, <1>2, <1>3, <1>4, StatementsArguments, ExpressionsArguments DEF Next

(* In every program whose calls are statements and whose arguments are     *)
(* literals and variables, the allocator hands RCX, RDX, R8 and R9 to the  *)
(* arguments of a call in this order: prepare_call makes these registers   *)
(* free, and in call mode get_free grants the first of them that is not    *)
(* taken (register_allocator.cpp:37-54, 74-86; generator.cpp:195-211).     *)
(* As long as no instruction has named another register than meant, which  *)
(* is so for the first two arguments, they hold the values too; a third    *)
(* one is moved elsewhere, as the run of MCThirdArgument shows, and one    *)
(* that is computed takes registers out of turn, as that of                *)
(* MCComputedArgument does.                                                *)
THEOREM ArgumentsPlaced == ASSUME LeafArguments PROVE Spec => []ArgumentsInOrder
<1>1. Init => ArgInv
  BY DEF Init, ArgInv, HasCall
<1>2. IInv /\ CInv /\ ArgInv => ArgumentsInOrder
  <2> SUFFICES ASSUME IInv, CInv, ArgInv, Doing({"call"}) PROVE ArgumentsInOrder
    BY DEF ArgumentsInOrder
  <2>1. /\ agenda \in Seq(SafeItem) /\ agenda # << >> /\ Head(agenda).what = "call"
        /\ status = "running"
    BY HandledHead
  <2>2. Filled(Head(agenda).base, Head(agenda).count)
    BY <2>1, CallBelow DEF ArgInv, Passing, Doing
  <2> QED
    BY <2>2 DEF ArgumentsInOrder, Filled
<1>3. IInv /\ CInv /\ ArgInv /\ [Next]_vars => ArgInv'
  BY NextSafe, NextArguments
<1> QED
  BY <1>1, <1>2, <1>3, ControlInvariant, PTL DEF Spec

-----------------------------------------------------------------------------
(* Sequences put one after the other.                                      *)

LEMMA LeastNatural ==
  ASSUME NEW T, T \subseteq Nat, T # {}
  PROVE \E x \in T : \A y \in T : x <= y
<1>1. PICK x \in T : \A y \in T : ~(<< y, x >> \in OpToRel(<, Nat))
  BY NatLessThanWellFounded, WFMin
<1>2. \A y \in T : ~(y < x)
  BY <1>1 DEF OpToRel
<1> QED
  BY <1>2

(* A function that is defined step by step exists.                         *)
Follows(f, n, base, step) == f[0] = base /\ \A i \in 1 .. n : f[i] = step[<< i, f[i - 1] >>]

LEMMA StepByStep ==
  ASSUME NEW V, NEW n \in Nat, NEW base \in V, NEW step \in [(1 .. n) \X V -> V]
  PROVE \E f \in [0 .. n -> V] : Follows(f, n, base, step)
<1> DEFINE Good(f, m) == f[0] = base /\ \A i \in 1 .. m : f[i] = step[<< i, f[i - 1] >>]
           Exists(m) == \E f \in [0 .. m -> V] : Good(f, m)
           Bad == {m \in 0 .. n : ~Exists(m)}
<1>0. SUFFICES ASSUME Bad # {} PROVE FALSE
  <2> USE DEF Follows
  <2>1. n \in 0 .. n
    OBVIOUS
  <2>2. ASSUME Bad = {} PROVE Exists(n)
    <3> HIDE DEF Exists
    <3> QED
      BY <2>1, <2>2
  <2> QED
    BY <2>2
<1>1. PICK m \in Bad : \A k \in Bad : m <= k
  BY <1>0, LeastNatural, Bad \subseteq Nat
<1>2. m # 0
  <2>1. [i \in 0 .. 0 |-> base] \in [0 .. 0 -> V] /\ Good([i \in 0 .. 0 |-> base], 0)
    OBVIOUS
  <2> QED
    BY <2>1
<1>3. m - 1 \in 0 .. n /\ m - 1 \notin Bad /\ m \in 1 .. n
  BY <1>1, <1>2
<1>4. PICK f \in [0 .. (m - 1) -> V] : Good(f, m - 1)
  BY <1>3
<1> DEFINE g == [i \in 0 .. m |-> IF i = m THEN step[<< m, f[m - 1] >>] ELSE f[i]]
<1>5. f[m - 1] \in V /\ step[<< m, f[m - 1] >>] \in V
  BY <1>3, <1>4
<1>6. g \in [0 .. m -> V]
  BY <1>3, <1>4, <1>5
<1>7. Good(g, m)
  <2>1. g[0] = base
    BY <1>3, <1>4
  <2>2. ASSUME NEW i \in 1 .. m PROVE g[i] = step[<< i, g[i - 1] >>]
    <3>1. i \in 0 .. m /\ i - 1 \in 0 .. m /\ i - 1 # m /\ (i = m \/ i \in 1 .. (m - 1))
      BY <1>3
    <3>2. g[i - 1] = f[i - 1]
      BY <3>1
    <3>3. CASE i = m
      BY <3>1, <3>2, <3>3
    <3>4. CASE i # m
      BY <1>4, <3>1, <3>2, <3>4
    <3> QED
      BY <3>3, <3>4
  <2> QED
    BY <2>1, <2>2
<1> QED
  BY <1>1, <1>6, <1>7

(* Two such functions agree as far as their steps do.                      *)
AgreeUpTo(n, f, g) == \A i \in 0 .. n : f[i] = g[i]
AgreeNext(n, f, g) == f[0] = g[0] /\ \A i \in 1 .. n : f[i - 1] = g[i - 1] => f[i] = g[i]

LEMMA StepsAgree ==
  ASSUME NEW n \in Nat, NEW f, NEW g, AgreeNext(n, f, g)
  PROVE AgreeUpTo(n, f, g)
<1> USE DEF AgreeNext, AgreeUpTo
<1> DEFINE Bad == {m \in 0 .. n : f[m] # g[m]}
<1> SUFFICES ASSUME Bad # {} PROVE FALSE
  OBVIOUS
<1>1. PICK m \in Bad : \A k \in Bad : m <= k
  BY LeastNatural, Bad \subseteq Nat
<1>2. m # 0
  BY <1>1
<1>3. m \in 1 .. n /\ m - 1 \in 0 .. n /\ m - 1 \notin Bad
  BY <1>1, <1>2
<1> QED
  BY <1>1, <1>3

LEMMA JoinedSteps ==
  ASSUME NEW S, NEW parts \in Seq(Seq(S))
  PROVE \E f \in [0 .. Len(parts) -> Seq(S)] :
          /\ f[0] = << >> /\ \A i \in 1 .. Len(parts) : f[i] = f[i - 1] \o parts[i]
          /\ Joined(parts) = f[Len(parts)]
<1> DEFINE n == Len(parts)
           step == [p \in (1 .. n) \X Seq(S) |-> p[2] \o parts[p[1]]]
           Def(h) == h = [i \in 0 .. n |-> IF i = 0 THEN << >> ELSE h[i - 1] \o parts[i]]
<1>1. n \in Nat /\ << >> \in Seq(S)
  OBVIOUS
<1>2. step \in [(1 .. n) \X Seq(S) -> Seq(S)]
  <2> SUFFICES ASSUME NEW i \in 1 .. n, NEW s \in Seq(S) PROVE s \o parts[i] \in Seq(S)
    OBVIOUS
  <2>1. parts[i] \in Seq(S)
    OBVIOUS
  <2> QED
    BY <2>1
<1>3. PICK f \in [0 .. n -> Seq(S)] :
        f[0] = << >> /\ \A i \in 1 .. n : f[i] = step[<< i, f[i - 1] >>]
  <2>1. \E f \in [0 .. n -> Seq(S)] : Follows(f, n, << >>, step)
    <3> HIDE DEF step, n
    <3> QED
      BY <1>1, <1>2, StepByStep
  <2> QED
    BY <2>1 DEF Follows
<1>4. \A i \in 1 .. n : i - 1 \in 0 .. n /\ f[i] = f[i - 1] \o parts[i]
  BY <1>3
<1>5. Def(f)
  <2> DEFINE h == [i \in 0 .. n |-> IF i = 0 THEN << >> ELSE f[i - 1] \o parts[i]]
  <2>1. ASSUME NEW i \in 0 .. n PROVE f[i] = h[i]
    <3>1. i = 0 \/ i \in 1 .. n
      BY <1>1
    <3> QED
      BY <1>3, <1>4, <3>1
  <2> QED
    BY <1>3, <2>1
<1>6. ASSUME NEW h, Def(h) PROVE h[n] = f[n]
  <2>1. 0 \in 0 .. n /\ n \in 0 .. n /\ \A i \in 1 .. n : i \in 0 .. n /\ i # 0
    BY <1>1
  <2> HIDE DEF n
  <2>2. \A i \in 0 .. n : h[i] = IF i = 0 THEN << >> ELSE h[i - 1] \o parts[i]
    BY <1>6
  <2>3. h[0] = f[0] /\ \A i \in 1 .. n : h[i - 1] = f[i - 1] => h[i] = f[i]
    BY <1>3, <1>4, <2>1, <2>2
  <2> HIDE DEF Def
  <2>4. AgreeNext(n, h, f)
    BY <2>3 DEF AgreeNext
  <2>5. \A i \in 0 .. n : h[i] = f[i]
    <3>1. AgreeUpTo(n, h, f)
      BY <1>1, <2>4, StepsAgree
    <3> QED
      BY <3>1 DEF AgreeUpTo
  <2> QED
    BY <2>1, <2>5
<1>7. Joined(parts) = f[n]
  <2>1. Joined(parts) = (CHOOSE h : Def(h))[n]
    BY DEF Joined
  <2>2. Def(CHOOSE h : Def(h))
    <3> HIDE DEF Def
    <3> QED
      BY <1>5
  <2> QED
    BY <1>6, <2>1, <2>2
<1> QED
  BY <1>3, <1>4, <1>7

(* What is joined has the elements of the parts.                           *)
LEMMA JoinedTyped ==
  ASSUME NEW S, NEW parts \in Seq(Seq(S))
  PROVE Joined(parts) \in Seq(S)
<1>1. PICK f \in [0 .. Len(parts) -> Seq(S)] : Joined(parts) = f[Len(parts)]
  BY JoinedSteps
<1>2. Len(parts) \in 0 .. Len(parts)
  OBVIOUS
<1> QED
  BY <1>1, <1>2

LEMMA JoinedAppended ==
  ASSUME NEW S, NEW parts \in Seq(Seq(S)), NEW p \in Seq(S)
  PROVE Joined(Append(parts, p)) = Joined(parts) \o p
<1> DEFINE q == Append(parts, p)
           n == Len(parts)
<1>1. /\ n \in Nat /\ q \in Seq(Seq(S)) /\ Len(q) = n + 1 /\ q[n + 1] = p
      /\ \A i \in 1 .. n : q[i] = parts[i]
  OBVIOUS
<1>2. PICK f \in [0 .. n -> Seq(S)] :
        /\ f[0] = << >> /\ \A i \in 1 .. n : f[i] = f[i - 1] \o parts[i]
        /\ Joined(parts) = f[n]
  BY JoinedSteps
<1> HIDE DEF q
<1>3. PICK g \in [0 .. Len(q) -> Seq(S)] :
        /\ g[0] = << >> /\ \A i \in 1 .. Len(q) : g[i] = g[i - 1] \o q[i]
        /\ Joined(q) = g[Len(q)]
  BY <1>1, JoinedSteps
<1> HIDE DEF n
<1>4. AgreeNext(n, g, f)
  <2>1. \A i \in 1 .. n : i \in 1 .. Len(q)
    BY <1>1
  <2> QED
    BY <1>1, <1>2, <1>3, <2>1 DEF AgreeNext
<1>5. AgreeUpTo(n, g, f)
  BY <1>1, <1>4, StepsAgree
<1>6. n \in 0 .. n /\ n + 1 \in 1 .. Len(q) /\ (n + 1) - 1 = n
  BY <1>1
<1>7. g[n] = f[n]
  BY <1>5, <1>6 DEF AgreeUpTo
<1>8. g[n + 1] = g[n] \o p
  BY <1>1, <1>3, <1>6
<1> QED
  BY <1>1, <1>2, <1>3, <1>7, <1>8 DEF q

-----------------------------------------------------------------------------
(* The operands that HeldOperands lists.                                   *)

LEMMA Appended ==
  ASSUME NEW S, NEW s \in Seq(S), NEW e \in S
  PROVE /\ Append(s, e) \in Seq(S) /\ Len(Append(s, e)) = Len(s) + 1
        /\ Append(s, e)[Len(s) + 1] = e
        /\ \A i \in 1 .. Len(s) : Append(s, e)[i] = s[i]
OBVIOUS

Lefts(a, c) == [i \in 1 .. Len(a) |-> LeftValue(a[Len(a) + 1 - i], c)]

LEMMA LeftsListed ==
  ASSUME NEW a \in Seq(SafeItem), NEW c, NEW S, \A o \in LeftsIn(a) : c[o.reg] \in S
  PROVE Lefts(a, c) \in Seq(Seq(S)) /\ PendingLefts(a, c) \in Seq(S)
<1>1. ASSUME NEW i \in 1 .. Len(a) PROVE LeftValue(a[i], c) \in Seq(S)
  <2>1. CASE a[i].what = "right"
    <3>1. Operand(a[i].left, a[i].leftNode) \in LeftsIn(a)
      BY <2>1 DEF LeftsIn, LeftIndices
    <3>2. c[a[i].left] \in S
      BY <3>1 DEF Operand
    <3> QED
      BY <2>1, <3>2 DEF LeftValue
  <2>2. CASE a[i].what # "right"
    BY <2>2 DEF LeftValue
  <2> QED
    BY <2>1, <2>2
<1>2. Len(a) \in Nat /\ \A i \in 1 .. Len(a) : Len(a) + 1 - i \in 1 .. Len(a)
  OBVIOUS
<1>3. Lefts(a, c) \in Seq(Seq(S))
  BY <1>1, <1>2 DEF Lefts
<1> QED
  BY <1>3, JoinedTyped DEF PendingLefts, Lefts

(* The first visit of the agenda comes last.                               *)
LEMMA LeftsSplit ==
  ASSUME NEW a \in Seq(SafeItem), a # << >>, NEW c \in [Register -> Nat]
  PROVE PendingLefts(a, c) = PendingLefts(Tail(a), c) \o LeftValue(Head(a), c)
<1> DEFINE b == Tail(a)
           x == Head(a)
<1>1. /\ b \in Seq(SafeItem) /\ Len(b) = Len(a) - 1 /\ Len(a) \in Nat \ {0}
      /\ \A i \in 1 .. Len(b) : b[i] = a[i + 1]
      /\ x = a[1] /\ x \in SafeItem
  BY TailItems
<1>2. \A o \in LeftsIn(a) : c[o.reg] \in Nat
  BY OperandsSafe, << >> \in Seq(SafeOperand) DEF Register
<1> HIDE DEF b, x
<1>3. LeftsIn(b) \subseteq LeftsIn(a)
  BY LeftsOfTail DEF b
<1>4. Lefts(b, c) \in Seq(Seq(Nat))
  BY <1>1, <1>2, <1>3, LeftsListed
<1>5. LeftValue(x, c) \in Seq(Nat)
  <2>1. x.what = "right" => c[x.left] \in Nat
    BY <1>1, ItemFields
  <2> QED
    BY <2>1 DEF LeftValue
<1>6. Lefts(a, c) = Append(Lefts(b, c), LeftValue(x, c))
  <2>1. /\ Len(Lefts(b, c)) = Len(a) - 1
        /\ \A i \in 1 .. (Len(a) - 1) : Lefts(b, c)[i] = LeftValue(b[Len(b) + 1 - i], c)
    BY <1>1 DEF Lefts
  <2>2. \A i \in 1 .. (Len(a) - 1) : b[Len(b) + 1 - i] = a[Len(a) + 1 - i]
    <3> SUFFICES ASSUME NEW i \in 1 .. (Len(a) - 1)
                 PROVE b[Len(b) + 1 - i] = a[Len(a) + 1 - i]
      OBVIOUS
    <3>1. Len(b) + 1 - i \in 1 .. Len(b) /\ Len(b) + 1 - i + 1 = Len(a) + 1 - i
      BY <1>1
    <3> QED
      BY <1>1, <3>1
  <2> DEFINE p == Lefts(a, c)
             q == Append(Lefts(b, c), LeftValue(x, c))
             n == Len(a)
  <2>3. /\ p \in Seq(Seq(Nat)) /\ Len(p) = n
        /\ \A i \in 1 .. n : p[i] = LeftValue(a[n + 1 - i], c)
    <3>1. p \in Seq(Seq(Nat))
      BY <1>2, LeftsListed
    <3>2. Len(p) = n /\ \A i \in 1 .. n : p[i] = LeftValue(a[n + 1 - i], c)
      BY <1>1 DEF Lefts
    <3> QED
      BY <3>1, <3>2
  <2>4. /\ q \in Seq(Seq(Nat)) /\ Len(q) = n /\ q[n] = LeftValue(x, c)
        /\ \A i \in 1 .. (n - 1) : q[i] = Lefts(b, c)[i]
    <3>1. /\ q \in Seq(Seq(Nat)) /\ Len(q) = Len(Lefts(b, c)) + 1
          /\ q[Len(Lefts(b, c)) + 1] = LeftValue(x, c)
          /\ \A i \in 1 .. Len(Lefts(b, c)) : q[i] = Lefts(b, c)[i]
      BY <1>4, <1>5, Appended
    <3>2. Len(Lefts(b, c)) = n - 1 /\ n - 1 + 1 = n
      BY <1>1, <2>1
    <3> HIDE DEF q
    <3> QED
      BY <3>1, <3>2
  <2> HIDE DEF p, q
  <2>5. ASSUME NEW i \in 1 .. n PROVE p[i] = q[i]
    <3>1. CASE i = n
      <4>1. n + 1 - i = 1
        BY <1>1, <3>1
      <4> QED
        BY <1>1, <2>3, <2>4, <3>1, <4>1
    <3>2. CASE i # n
      <4>1. i \in 1 .. (n - 1)
        BY <1>1, <3>2
      <4> QED
        BY <2>1, <2>2, <2>3, <2>4, <4>1
    <3> QED
      BY <3>1, <3>2
  <2>6. p = q
    BY <2>3, <2>4, <2>5, SeqEqual
  <2> QED
    BY <2>6 DEF p, q
<1>7. Joined(Lefts(a, c)) = Joined(Lefts(b, c)) \o LeftValue(x, c)
  BY <1>4, <1>5, <1>6, JoinedAppended
<1> QED
  BY <1>7 DEF PendingLefts, Lefts, b, x

(* In programs without calls the evaluation stack has one live operand     *)
(* while a visit waits for it, and none otherwise.                         *)
LEMMA Depth ==
  ASSUME NEW a, NEW stack, NEW gone, Poised(a, stack, gone), ~HasCall(a)
  PROVE IF Waits(a) THEN stack # << >> /\ Len(stack) - 1 = gone ELSE Len(stack) = gone
BY CallIsOn DEF Poised, Held

LEMMA NoneLive ==
  ASSUME NEW s, NEW gone \in Nat, Len(s) = gone, NEW c
  PROVE LiveOperands(s, gone, c) = << >> /\ LiveOn(s, gone) = {}
BY DEF LiveOperands, LiveOn, LiveIndices

LEMMA OneLive ==
  ASSUME NEW s \in Seq(SafeOperand), NEW e \in SafeOperand, NEW gone \in Nat,
         Len(s) = gone, NEW c
  PROVE /\ LiveOperands(Append(s, e), gone, c) = << c[e.reg] >>
        /\ LiveOn(Append(s, e), gone) = {e}
<1> DEFINE t == Append(s, e)
<1>1. Len(t) = gone + 1 /\ t[gone + 1] = e
  OBVIOUS
<1> HIDE DEF t
<1>2. LiveIndices(t, gone) = {gone + 1} /\ 1 .. (Len(t) - gone) = {1}
  BY <1>1 DEF LiveIndices
<1>3. LiveOn(t, gone) = {e}
  BY <1>1, <1>2 DEF LiveOn
<1>4. LiveOperands(t, gone, c) = << c[e.reg] >>
  <2>1. LiveOperands(t, gone, c) = [i \in {1} |-> c[t[gone + i].reg]]
    BY <1>2 DEF LiveOperands
  <2>2. LiveOperands(t, gone, c) = [i \in {1} |-> c[e.reg]]
    BY <1>1, <2>1
  <2>3. << c[e.reg] >> = [i \in {1} |-> c[e.reg]]
    OBVIOUS
  <2> QED
    BY <2>2, <2>3
<1> QED
  BY <1>3, <1>4 DEF t

(* They depend on the contents of their registers only.                    *)
LEMMA SameOperands ==
  ASSUME NEW c, NEW d, NEW a, \A o \in LeftsIn(a) : d[o.reg] = c[o.reg]
  PROVE PendingLefts(a, d) = PendingLefts(a, c)
<1>1. ASSUME NEW i \in 1 .. Len(a), a[i].what = "right"
      PROVE d[a[i].left] = c[a[i].left]
  <2>1. Operand(a[i].left, a[i].leftNode) \in LeftsIn(a)
    BY <1>1 DEF LeftsIn, LeftIndices
  <2> QED
    BY <2>1 DEF Operand
<1> QED
  BY <1>1 DEF PendingLefts, LeftValue

LEMMA NoLefts ==
  ASSUME NEW a \in Seq(SafeItem), LeftIndices(a) = {}, NEW c
  PROVE PendingLefts(a, c) = << >>
<1>1. LeftsIn(a) = {}
  BY DEF LeftsIn
<1>2. PendingLefts(a, c) \in Seq({})
  BY <1>1, LeftsListed
<1>3. \A q \in Seq({}) : q = << >>
  OBVIOUS
<1> QED
  BY <1>2, <1>3

-----------------------------------------------------------------------------
(* The numbers of nodes.  An operator that waits for its right operand was *)
(* visited before its left operand was evaluated, and after every left     *)
(* operand further out: its value is none of theirs.                       *)

Operating == {"left", "right"}

NumberedItem(x, n) ==
  /\ x.what \in Operating => x.node # 0 /\ x.node <= n /\ x.node < x.of
  /\ x.what = "right" => x.node < x.leftNode /\ x.leftNode <= n

Numbered(a, n) ==
  /\ \A i \in 1 .. Len(a) : NumberedItem(a[i], n)
  /\ \A i, j \in 1 .. Len(a) :
       i < j /\ a[i].what \in Operating /\ a[j].what = "right" => a[j].leftNode < a[i].node

NumberedInv ==
  NoCalls => /\ Numbered(agenda, nodes)
             /\ \A o \in LiveOn(evalStack, abandoned) : o.node <= nodes

LEMMA LeftsNumbered ==
  ASSUME NEW a, NEW n, Numbered(a, n)
  PROVE \A o \in LeftsIn(a) : o.node <= n
<1>1. \A l, k : Operand(l, k).node = k
  BY DEF Operand
<1>2. \A i \in LeftIndices(a) : a[i].leftNode <= n
  BY DEF LeftIndices, Numbered, NumberedItem
<1> QED
  BY <1>1, <1>2 DEF LeftsIn

LEMMA NumberedTail ==
  ASSUME NEW a \in Seq(SafeItem), a # << >>, NEW n, Numbered(a, n)
  PROVE /\ NumberedItem(Head(a), n) /\ Numbered(Tail(a), n)
        /\ Head(a).what \in Operating => \A o \in LeftsIn(Tail(a)) : o.node < Head(a).node
<1> DEFINE b == Tail(a)
           x == Head(a)
<1>1. /\ b \in Seq(SafeItem) /\ Len(b) = Len(a) - 1 /\ Len(a) \in Nat \ {0}
      /\ \A i \in 1 .. Len(b) : b[i] = a[i + 1]
      /\ x = a[1]
  BY TailItems
<1> HIDE DEF b, x
<1>2. /\ 1 \in 1 .. Len(a)
      /\ \A i \in 1 .. Len(b) : i + 1 \in 1 .. Len(a) /\ 1 < i + 1
      /\ \A i, j \in 1 .. Len(b) : i < j => i + 1 < j + 1
  BY <1>1
<1>3. NumberedItem(x, n) /\ \A i \in 1 .. Len(b) : NumberedItem(b[i], n)
  BY <1>1, <1>2 DEF Numbered
<1>4. \A i, j \in 1 .. Len(b) :
        i < j /\ b[i].what \in Operating /\ b[j].what = "right" => b[j].leftNode < b[i].node
  BY <1>1, <1>2 DEF Numbered
<1>5. x.what \in Operating => \A j \in LeftIndices(b) : b[j].leftNode < x.node
  BY <1>1, <1>2 DEF Numbered, LeftIndices
<1>6. x.what \in Operating => \A o \in LeftsIn(b) : o.node < x.node
  BY <1>5 DEF LeftsIn, Operand
<1> QED
  BY <1>3, <1>4, <1>6 DEF Numbered, b, x

LEMMA NumberedPushed ==
  ASSUME NEW x \in SafeItem, NEW a \in Seq(SafeItem), NEW n,
         NumberedItem(x, n), Numbered(a, n),
         x.what \in Operating => \A o \in LeftsIn(a) : o.node < x.node
  PROVE Numbered(<< x >> \o a, n)
<1> DEFINE b == << x >> \o a
<1>1. /\ b \in Seq(SafeItem) /\ Len(b) = Len(a) + 1 /\ Len(a) \in Nat /\ b[1] = x
      /\ \A i \in 1 .. Len(b) : i # 1 => i - 1 \in 1 .. Len(a) /\ b[i] = a[i - 1]
  OBVIOUS
<1> HIDE DEF b
<1>2. \A i \in 1 .. Len(b) : NumberedItem(b[i], n)
  BY <1>1 DEF Numbered
<1>3. ASSUME NEW i \in 1 .. Len(b), NEW j \in 1 .. Len(b), i < j,
             b[i].what \in Operating, b[j].what = "right"
      PROVE b[j].leftNode < b[i].node
  <2>1. j # 1 /\ j - 1 \in 1 .. Len(a) /\ b[j] = a[j - 1]
    BY <1>1, <1>3
  <2>2. CASE i = 1
    <3>1. j - 1 \in LeftIndices(a)
      BY <1>3, <2>1 DEF LeftIndices
    <3>2. Operand(a[j - 1].left, a[j - 1].leftNode) \in LeftsIn(a)
      BY <3>1 DEF LeftsIn
    <3>3. a[j - 1].leftNode < x.node
      BY <1>1, <1>3, <2>2, <3>2 DEF Operand
    <3> QED
      BY <1>1, <2>1, <2>2, <3>3
  <2>3. CASE i # 1
    <3>1. i - 1 \in 1 .. Len(a) /\ b[i] = a[i - 1] /\ i - 1 < j - 1
      BY <1>1, <1>3, <2>3
    <3> QED
      BY <1>3, <2>1, <3>1 DEF Numbered
  <2> QED
    BY <2>2, <2>3
<1> QED
  BY <1>2, <1>3 DEF Numbered, b

LEMMA NumberedLater ==
  ASSUME NEW a \in Seq(SafeItem), NEW n \in Nat, Numbered(a, n)
  PROVE Numbered(a, n + 1)
<1>1. ASSUME NEW i \in 1 .. Len(a) PROVE NumberedItem(a[i], n + 1)
  <2>1. a[i] \in SafeItem /\ NumberedItem(a[i], n)
    BY DEF Numbered
  <2>2. /\ a[i].what \in Operating => a[i].node \in Nat
        /\ a[i].what = "right" => a[i].leftNode \in Nat
    BY <2>1, ItemFields DEF Operating
  <2> QED
    BY <2>1, <2>2 DEF NumberedItem
<1> QED
  BY <1>1 DEF Numbered

-----------------------------------------------------------------------------
(* Between expressions: no operator is in progress.                        *)

Calm(a) == \A i \in 1 .. Len(a) : a[i].what \notin Operating

LEMMA BodiesCalm == ASSUME NEW a, OnlyBodies(a) PROVE Calm(a)
BY Kinds DEF OnlyBodies, Calm, Operating

LEMMA CalmNumbered == ASSUME NEW a, Calm(a), NEW n PROVE Numbered(a, n) /\ LeftIndices(a) = {}
BY DEF Calm, Numbered, NumberedItem, LeftIndices, Operating

LEMMA CalmPushed ==
  ASSUME NEW x \in SafeItem, NEW a \in Seq(SafeItem), x.what \notin Operating, Calm(a)
  PROVE << x >> \o a \in Seq(SafeItem) /\ Calm(<< x >> \o a)
<1>1. /\ << x >> \o a \in Seq(SafeItem)
      /\ \A i \in 1 .. Len(<< x >> \o a) :
           IF i = 1 THEN (<< x >> \o a)[i] = x
                    ELSE i - 1 \in 1 .. Len(a) /\ (<< x >> \o a)[i] = a[i - 1]
  OBVIOUS
<1> QED
  BY <1>1 DEF Calm

LEMMA CalmUnder ==
  ASSUME NEW a \in Seq(SafeItem), a # << >>, Head(a).what \notin Operating, Calm(Tail(a))
  PROVE Calm(a)
<1>1. \A i \in 1 .. Len(a) :
        IF i = 1 THEN a[i] = Head(a)
                 ELSE i - 1 \in 1 .. Len(Tail(a)) /\ a[i] = Tail(a)[i - 1]
  OBVIOUS
<1> QED
  BY <1>1 DEF Calm

(* A step between expressions, or one that takes the value of one.         *)
CalmStep == Calm(agenda) /\ Calm(agenda') /\ ~Waits(agenda')

LEMMA ValueWanted ==
  ASSUME Settings, NEW what, Doing(what), what \subseteq UseKind \cup {"let"}
  PROVE /\ Calm(agenda) /\ Calm(Tail(agenda)) /\ Tail(agenda) \in Seq(SafeItem)
        /\ ~Waits(Tail(agenda))
<1>1. /\ agenda \in Seq(SafeItem) /\ agenda # << >> /\ Tail(agenda) \in Seq(SafeItem)
      /\ Head(agenda).what \in what
  BY HandledHead DEF Settings
<1>2. OnlyBodies(Tail(agenda))
  BY AtStatementEnd DEF Settings
<1>3. Calm(Tail(agenda)) /\ ~Waits(Tail(agenda))
  BY <1>1, <1>2, BodiesCalm, BodiesHaveNoCall
<1>4. Calm(agenda)
  BY <1>1, <1>3, CalmUnder, Kinds DEF Operating
<1> QED
  BY <1>1, <1>3, <1>4

LEMMA StatementVisited ==
  ASSUME Settings, Doing(BodyKind), NEW t \in ValueType, NEW y \in SafeItem,
         y.what \notin Operating, Enter(<< ExprItem(t), y >>)
  PROVE CalmStep
<1>1. /\ agenda \in Seq(SafeItem) /\ ExprItem(t) \in SafeItem
      /\ ExprItem(t).what \notin Operating \cup Awaiting
  BY HandledHead, HandlersPush, ItemFieldsByName, Kinds DEF Settings, Operating
<1>2. Calm(agenda)
  BY AtBody, BodiesCalm DEF Settings
<1>3. << y >> \o agenda \in Seq(SafeItem) /\ Calm(<< y >> \o agenda)
  BY <1>1, <1>2, CalmPushed
<1>4. agenda' = << ExprItem(t) >> \o (<< y >> \o agenda)
  BY <1>1, TwoItems DEF Enter
<1>5. Calm(agenda') /\ ~Waits(agenda')
  <2> DEFINE b == << y >> \o agenda
             x == ExprItem(t)
  <2>1. x \in SafeItem /\ b \in Seq(SafeItem) /\ Calm(b) /\ agenda' = << x >> \o b
    BY <1>1, <1>3, <1>4
  <2>2. x.what \notin Operating \cup Awaiting
    BY <1>1
  <2> HIDE DEF b, x
  <2> QED
    BY <2>1, <2>2, CalmPushed, OneItem DEF Waits
<1> QED
  BY <1>2, <1>5 DEF CalmStep

LEMMA CalmSteps ==
  ASSUME Settings, NoCalls, IInv',
         Statement \/ BeginFunction \/ EndFunction \/ StoreLiteral
  PROVE CalmStep
<1>1. CASE VisitVarDecl
  <2>1. PICK n \in Names, t \in Types :
          Enter(<< ExprItem(t), LetItem(n, t, NextNode) >>)
    BY <1>1 DEF VisitVarDecl
  <2>2. Doing(BodyKind)
    BY <1>1 DEF VisitVarDecl, InBody
  <2>3. LetItem(n, t, NextNode).what \notin Operating /\ LetItem(n, t, NextNode) \in SafeItem
    BY ItemFieldsByName, HandlersPush DEF Settings, Operating
  <2> QED
    BY <2>1, <2>2, <2>3, StatementVisited, TypesAssumption
<1>2. CASE VisitRet \/ VisitIf \/ VisitExprStatement
  <2>1. /\ Types \subseteq ValueType /\ {"bool"} \subseteq ValueType
        /\ {"ret", "test", "discard"} \subseteq UseKind
    BY TypesAssumption DEF ValueType, UseKind
  <2>2. Doing(BodyKind)
    BY <1>2 DEF VisitRet, VisitIf, VisitExprStatement, VisitUse, InBody
  <2>3. \E what \in UseKind, t \in ValueType :
          Enter(<< ExprItem(t), UseItem(what, NextNode) >>)
    BY <1>2, <2>1 DEF VisitRet, VisitIf, VisitExprStatement, VisitUse
  <2>4. PICK what \in UseKind, t \in ValueType :
          Enter(<< ExprItem(t), UseItem(what, NextNode) >>)
    BY <2>3
  <2>5. UseItem(what, NextNode) \in SafeItem /\ UseItem(what, NextNode).what = what
    BY HandlersPush DEF UseItem, Settings
  <2>6. what \notin Operating
    BY Kinds DEF Operating
  <2> QED
    BY <2>2, <2>4, <2>5, <2>6, StatementVisited
<1>3. CASE VisitAssign \/ EndIf \/ EndFunction
  <2>1. PICK what \in {BodyKind, {"if"}, {"fn"}} :
          Doing(what) /\ (UNCHANGED agenda \/ Replace(<< >>))
    BY <1>3 DEF VisitAssign, InBody, EndIf, EndFunction
  <2>2. what \subseteq BodyKind
    BY Kinds
  <2>3. OnlyBodies(agenda) /\ OnlyBodies(Tail(agenda))
    BY <2>1, <2>2, AtBody DEF Settings
  <2>4. /\ agenda' = agenda \/ agenda' = Tail(agenda)
        /\ agenda \in Seq(SafeItem) /\ Tail(agenda) \in Seq(SafeItem)
    BY <2>1, HandledHead, NoItems DEF Replace, Settings
  <2> QED
    BY <2>3, <2>4, BodiesCalm, BodiesHaveNoCall DEF CalmStep
<1>4. CASE EndVarDecl \/ EndRet \/ EndExprStatement
  <2>1. PICK what \in {{"let"}, {"ret"}, {"discard"}} :
          Doing(what) /\ Replace(<< >>)
    BY <1>4 DEF EndVarDecl, EndRet, EndExprStatement
  <2>2. what \subseteq UseKind \cup {"let"}
    BY Kinds
  <2>3. /\ Calm(agenda) /\ Calm(Tail(agenda)) /\ Tail(agenda) \in Seq(SafeItem)
        /\ ~Waits(Tail(agenda))
    BY <2>1, <2>2, ValueWanted
  <2>4. agenda' = Tail(agenda)
    BY <2>1, <2>3, NoItems DEF Replace
  <2> QED
    BY <2>3, <2>4 DEF CalmStep
<1>5. CASE BeginIf
  <2>1. /\ Doing({"test"})
        /\ Replace(<< IfItem(codeLength + Len(emit_test8(Top.reg, 1) \o emit_je_rel8(0)) - 1) >>)
    BY <1>5 DEF BeginIf
  <2>2. PICK at : Replace(<< IfItem(at) >>)
    BY <2>1
  <2>3. Calm(agenda) /\ Calm(Tail(agenda)) /\ Tail(agenda) \in Seq(SafeItem)
    BY <2>1, ValueWanted, Kinds
  <2>4. /\ agenda' = << IfItem(at) >> \o Tail(agenda)
        /\ IfItem(at).what \notin Operating \cup Awaiting
    BY <2>2, ItemFieldsByName, Kinds DEF Replace, Operating
  <2>5. Calm(agenda') /\ ~Waits(agenda')
    <3>1. \A i \in 1 .. Len(agenda') :
            IF i = 1 THEN agenda'[i] = IfItem(at)
                     ELSE i - 1 \in 1 .. Len(Tail(agenda)) /\ agenda'[i] = Tail(agenda)[i - 1]
      BY <2>3, <2>4
    <3>2. Head(agenda') = IfItem(at)
      BY <2>3, <2>4
    <3> QED
      BY <2>3, <2>4, <3>1, <3>2 DEF Calm, Waits
  <2> QED
    BY <2>3, <2>5 DEF CalmStep
<1>6. CASE VisitCallStatement
  BY <1>6 DEF VisitCallStatement, InBody, NoCalls
<1>7. CASE BeginFunction
  <2>1. agenda = << >> /\ (agenda' = << >> \/ Enter(<< FnItem >>))
    BY <1>7 DEF BeginFunction
  <2>2. << >> \in Seq(SafeItem) /\ Calm(<< >>) /\ ~Waits(<< >>)
    BY DEF Calm, Waits
  <2>3. FnItem \in SafeItem /\ FnItem.what \notin Operating \cup Awaiting
    BY HandlersPush, ItemFieldsByName, Kinds DEF Settings, Operating
  <2>4. Calm(agenda') /\ ~Waits(agenda')
    BY <2>1, <2>2, <2>3, CalmPushed, OneItem DEF Enter, Waits
  <2> QED
    BY <2>1, <2>2, <2>4 DEF CalmStep
<1>8. CASE StoreLiteral
  <2> DEFINE b == Tail(agenda)
  <2>1. Doing({"expr"}) /\ agenda' = Tail(b)
    BY <1>8 DEF StoreLiteral, Expecting
  <2>2. /\ agenda \in Seq(SafeItem) /\ b \in Seq(SafeItem) /\ agenda # << >>
        /\ Head(agenda).what = "expr"
    BY <2>1, HandledHead DEF Settings
  <2>3. b # << >> /\ Head(b).what = "let"
    BY <1>8, <2>2, TailRemains DEF StoreLiteral, Initialising, DirectlyUnder
  <2>4. Nested(b, 0)
    BY <2>1, AtExpression DEF Settings
  <2>5. OnlyBodies(agenda')
    BY <2>1, <2>2, <2>3, <2>4, TailNested, Kinds
  <2>6. ~Waits(agenda')
    BY <2>5, BodiesHaveNoCall DEF IInv, ControlInv
  <2>7. Calm(b)
    BY <2>1, <2>2, <2>3, <2>5, BodiesCalm, CalmUnder DEF Operating
  <2>8. Calm(agenda)
    BY <2>2, <2>7, CalmUnder DEF Operating
  <2> QED
    BY <2>5, <2>6, <2>8, BodiesCalm DEF CalmStep
<1> QED
  BY <1>1, <1>2, <1>3, <1>4, <1>5, <1>6, <1>7, <1>8 DEF Statement

-----------------------------------------------------------------------------
(* Steps of the operand stack.                                             *)

LEMMA Yielded ==
  ASSUME NEW q \in Seq(Nat), NEW last \in Seq(Nat), NEW m \in Nat, m # 0,
         \A i \in 1 .. Len(q) : q[i] # m, \A i \in 1 .. Len(last) : last[i] # m,
         HeldOperands = q \o last, HeldOperands' = q \o << m >>
  PROVE Machine!Yields(Len(last))
<1> DEFINE old == HeldOperands
           new == q \o << m >>
           k == Len(q)
           n == Len(last)
<1>1. /\ k \in Nat /\ n \in Nat /\ old \in Seq(Nat) /\ Len(old) = k + n
      /\ \A i \in 1 .. k : old[i] = q[i]
      /\ \A i \in 1 .. Len(old) : i \in 1 .. k \/ (i - k \in 1 .. n /\ old[i] = last[i - k])
  OBVIOUS
<1>2. /\ new \in Seq(Nat) /\ Len(new) = k + 1 /\ new[k + 1] = m
      /\ \A i \in 1 .. k : new[i] = q[i]
  OBVIOUS
<1> HIDE DEF HeldOperands, new
<1>3. SubSeq(old, 1, k) = q /\ SubSeq(new, 1, k) = q
  <2>1. ASSUME NEW t \in Seq(Nat), Len(t) >= k, \A i \in 1 .. k : t[i] = q[i]
        PROVE SubSeq(t, 1, k) = q
    <3>1. /\ SubSeq(t, 1, k) \in Seq(Nat) /\ Len(SubSeq(t, 1, k)) = k
          /\ \A i \in 1 .. k : SubSeq(t, 1, k)[i] = t[i]
      BY <1>1, <2>1
    <3> DEFINE u == SubSeq(t, 1, k)
    <3> HIDE DEF u
    <3>2. u = q
      BY <2>1, <3>1, SeqEqual DEF u
    <3> QED
      BY <3>2 DEF u
  <2> QED
    BY <1>1, <1>2, <2>1
<1>4. \A i \in 1 .. Len(old) : old[i] # m
  BY <1>1
<1>5. Len(old) >= n /\ Len(old) - n = k /\ Len(old) - n + 1 = k + 1
  BY <1>1
<1> QED
  BY <1>2, <1>3, <1>4, <1>5 DEF Machine!Yields, Machine!Below, new

LEMMA Taken ==
  ASSUME NEW q \in Seq(Nat), NEW t \in Nat,
         HeldOperands = q \o << t >>, HeldOperands' = q
  PROVE Machine!Take
<1> DEFINE old == HeldOperands
           k == Len(q)
<1>1. /\ k \in Nat /\ old \in Seq(Nat) /\ Len(old) = k + 1 /\ old # << >>
      /\ \A i \in 1 .. k : old[i] = q[i]
  OBVIOUS
<1> HIDE DEF HeldOperands
<1>2. SubSeq(old, 1, k) = q
  <2> DEFINE u == SubSeq(old, 1, k)
  <2>1. u \in Seq(Nat) /\ Len(u) = k /\ \A i \in 1 .. k : u[i] = q[i]
    BY <1>1
  <2> HIDE DEF u
  <2>2. u = q
    BY <2>1, SeqEqual
  <2> QED
    BY <2>2 DEF u
<1>3. Len(old) - 1 = k
  BY <1>1
<1> QED
  BY <1>1, <1>2, <1>3 DEF Machine!Take, Machine!Below

-----------------------------------------------------------------------------
(* What each step of the generator does to the operands, as long as every  *)
(* instruction names the register that is meant.                           *)

MachineStep ==
  ~misencoded /\ ~misencoded' =>
    Machine!Load \/ Machine!Combine \/ Machine!Take \/ HeldOperands' = HeldOperands

LEMMA MachineSteps ==
  ASSUME ~misencoded /\ ~misencoded' =>
           \/ Machine!Take \/ Machine!Yields(0) \/ Machine!Yields(2)
           \/ HeldOperands' = HeldOperands
  PROVE MachineStep
BY DEF MachineStep, Machine!Load, Machine!Combine

CalmHeld == Settings /\ NoCalls /\ NumberedInv /\ IInv'

LEMMA HeldContents ==
  ASSUME CalmHeld, status = "running"
  PROVE /\ contents \in [Register -> Nat] /\ contents' \in [Register -> Nat]
        /\ agenda \in Seq(SafeItem) /\ evalStack \in Seq(SafeOperand) /\ nodes \in Nat
        /\ abandoned \in Nat /\ Numbered(agenda, nodes)
        /\ \A o \in LiveOn(evalStack, abandoned) \cup LeftsIn(agenda) :
             o.node <= nodes /\ (~misencoded => contents[o.reg] = o.node)
        /\ ~misencoded => PendingLefts(agenda, contents) \in Seq(0 .. nodes)
        /\ IF Waits(agenda) THEN evalStack # << >> /\ Len(evalStack) - 1 = abandoned
                            ELSE Len(evalStack) = abandoned
<1>1. /\ contents \in [Register -> Nat] /\ contents' \in [Register -> Nat]
      /\ agenda \in Seq(SafeItem) /\ evalStack \in Seq(SafeOperand) /\ nodes \in Nat
      /\ abandoned \in Nat
  BY DEF CalmHeld, Settings, IInv, ContentsInv, ControlInv, AllocatorInv, CountersInv
<1>2. \A o \in LiveOn(evalStack, abandoned) \cup LeftsIn(agenda) :
        ~misencoded => contents[o.reg] = o.node
  BY DEF CalmHeld, Settings, HeldInv, HeldWith, Kept
<1>3. Numbered(agenda, nodes) /\ \A o \in LiveOn(evalStack, abandoned) : o.node <= nodes
  BY DEF CalmHeld, NumberedInv
<1>4. \A o \in LeftsIn(agenda) : o.node <= nodes
  BY <1>3, LeftsNumbered
<1>5. ASSUME ~misencoded PROVE PendingLefts(agenda, contents) \in Seq(0 .. nodes)
  <2>1. \A o \in LeftsIn(agenda) : o.reg \in Register
    BY <1>1, OperandsSafe
  <2>2. \A o \in LeftsIn(agenda) : contents[o.reg] \in 0 .. nodes
    BY <1>1, <1>2, <1>4, <1>5, <2>1
  <2> QED
    BY <1>1, <2>2, LeftsListed
<1>6. ~HasCall(agenda)
  BY DEF CalmHeld, Settings, PlainInv, Plain, PlainItem, HasCall
<1>7. IF Waits(agenda) THEN evalStack # << >> /\ Len(evalStack) - 1 = abandoned
                       ELSE Len(evalStack) = abandoned
  BY <1>6, Depth DEF CalmHeld, Settings, BalanceInv
<1> QED
  BY <1>1, <1>2, <1>3, <1>4, <1>5, <1>7

LEMMA CalmMachine ==
  ASSUME CalmHeld, BalanceInv', PlainInv', status = "running", status' = "running", CalmStep
  PROVE MachineStep /\ NumberedInv'
<1> DEFINE c == contents
<1>1. /\ c \in [Register -> Nat] /\ agenda \in Seq(SafeItem)
      /\ evalStack \in Seq(SafeOperand) /\ abandoned \in Nat /\ abandoned' \in Nat
      /\ agenda' \in Seq(SafeItem) /\ evalStack' \in Seq(SafeOperand)
  BY HeldContents DEF CalmHeld, IInv, ControlInv, AllocatorInv, CountersInv
<1>2. PendingLefts(agenda, c) = << >> /\ PendingLefts(agenda', contents') = << >>
  BY <1>1, CalmNumbered, NoLefts DEF CalmStep
<1>3. Len(evalStack') = abandoned'
  <2>1. ~HasCall(agenda')
    BY DEF PlainInv, Plain, PlainItem, HasCall, CalmHeld
  <2> QED
    BY <2>1, Depth DEF BalanceInv, CalmStep
<1>4. /\ LiveOperands(evalStack', abandoned', contents') = << >>
      /\ LiveOn(evalStack', abandoned') = {}
  BY <1>1, <1>3, NoneLive
<1>5. HeldOperands' = << >>
  <2>1. HeldOperands' = PendingLefts(agenda', contents')
                          \o LiveOperands(evalStack', abandoned', contents')
    BY DEF HeldOperands
  <2> QED
    BY <1>2, <1>4, <2>1
<1>6. NumberedInv'
  <2>1. Numbered(agenda', nodes')
    BY CalmNumbered DEF CalmStep
  <2> QED
    BY <1>4, <2>1 DEF NumberedInv
<1>7. CASE Len(evalStack) = abandoned
  <2>1. LiveOperands(evalStack, abandoned, c) = << >>
    BY <1>1, <1>7, NoneLive
  <2>2. HeldOperands = << >>
    BY <1>2, <2>1 DEF HeldOperands
  <2> QED
    BY <1>5, <1>6, <2>2, MachineSteps
<1>8. CASE evalStack # << >> /\ Len(evalStack) - 1 = abandoned
  <2>1. /\ Popped \in Seq(SafeOperand) /\ Top \in SafeOperand
        /\ evalStack = Append(Popped, Top) /\ Len(Popped) = abandoned
    BY <1>8, SplitStack DEF CalmHeld, Settings
  <2> HIDE DEF Popped, Top
  <2>2. LiveOperands(evalStack, abandoned, c) = << c[Top.reg] >> /\ c[Top.reg] \in Nat
    <3>1. c[Top.reg] \in Nat
      BY <1>1, <2>1 DEF SafeOperand
    <3>2. LiveOperands(Append(Popped, Top), abandoned, c) = << c[Top.reg] >>
      <4> HIDE DEF c
      <4> QED
        BY <1>1, <2>1, OneLive
    <3> QED
      BY <2>1, <3>1, <3>2
  <2>3. HeldOperands = << >> \o << c[Top.reg] >> /\ << >> \in Seq(Nat)
    BY <1>2, <2>2 DEF HeldOperands
  <2>4. Machine!Take
    BY <1>5, <2>2, <2>3, Taken
  <2> QED
    BY <1>6, <2>4, MachineSteps
<1> QED
  BY <1>7, <1>8, HeldContents

(* A leaf is loaded.                                                       *)
LEMMA LeafMachine ==
  ASSUME CalmHeld, Doing({"expr"}), NEW r \in Register, GetAndPush(r, ThisNode),
         Replace(<< >>), NewNode, UNCHANGED abandoned,
         ~misencoded' => ~misencoded /\ contents' = [contents EXCEPT ![r] = ThisNode]
  PROVE MachineStep /\ NumberedInv'
<1> DEFINE e == Operand(r, ThisNode)
           p == PendingLefts(agenda, contents)
<1>1. /\ agenda \in Seq(SafeItem) /\ agenda # << >> /\ Head(agenda).what = "expr"
      /\ status = "running" /\ evalStack \in Seq(SafeOperand) /\ agenda' = Tail(agenda)
      /\ nodes \in Nat /\ Tail(agenda) \in Seq(SafeItem)
  BY HandledHead, NoItems DEF Replace, CalmHeld, Settings
<1>2. /\ contents \in [Register -> Nat] /\ contents' \in [Register -> Nat]
      /\ Numbered(agenda, nodes) /\ (~misencoded => p \in Seq(0 .. nodes))
      /\ abandoned \in Nat /\ Len(evalStack) = abandoned
  BY <1>1, HeldContents, Kinds DEF Waits
<1>3. r \notin allocated /\ evalStack' = Append(evalStack, e)
  BY DEF GetAndPush, Grants, Candidates
<1>4. e \in SafeOperand /\ e.reg = r /\ e.node = ThisNode /\ e.node # 0 /\ ThisNode \in Nat
  <2>1. r \in Register \ {RAX, RSP} /\ ThisNode \in Nat /\ ThisNode # 0
    BY <1>1, GrantsSafeRegister DEF GetAndPush, CalmHeld, Settings, IInv, ThisNode
  <2> QED
    BY <2>1 DEF Operand, SafeOperand
<1> HIDE DEF e
<1>5. /\ LiveOperands(evalStack, abandoned, contents) = << >>
      /\ LiveOperands(evalStack', abandoned', contents') = << contents'[r] >>
      /\ LiveOn(evalStack', abandoned') = {e}
  <2>1. LiveOperands(evalStack, abandoned, contents) = << >>
    BY <1>2, NoneLive
  <2>2. /\ LiveOperands(Append(evalStack, e), abandoned, contents') = << contents'[e.reg] >>
        /\ LiveOn(Append(evalStack, e), abandoned) = {e}
    BY <1>1, <1>2, <1>4, OneLive
  <2> QED
    BY <1>3, <1>4, <2>1, <2>2
<1>6. NumberedInv'
  <2>1. Numbered(agenda', nodes')
    BY <1>1, <1>2, NumberedTail, NumberedLater DEF NewNode
  <2>2. e.node <= nodes'
    BY <1>1, <1>4 DEF NewNode, ThisNode
  <2> QED
    BY <1>5, <2>1, <2>2 DEF NumberedInv
<1>7. ASSUME ~misencoded, ~misencoded' PROVE Machine!Yields(0)
  <2>1. contents' = [contents EXCEPT ![r] = ThisNode] /\ contents'[r] = ThisNode
    BY <1>2, <1>7
  <2>2. \A o \in LeftsIn(agenda) : o.reg \in allocated
    BY <1>1 DEF CalmHeld, Settings, HeldInv, HeldWith, Kept
  <2>3. \A o \in LeftsIn(agenda) : contents'[o.reg] = contents[o.reg]
    BY <1>2, <1>3, <2>1, <2>2
  <2>4. LeftsIn(Tail(agenda)) = LeftsIn(agenda)
    BY <1>1, HeadGoes
  <2>5. PendingLefts(agenda', contents') = p
    <3>1. PendingLefts(agenda, contents) =
            PendingLefts(Tail(agenda), contents) \o LeftValue(Head(agenda), contents)
      BY <1>1, <1>2, LeftsSplit
    <3>2. LeftValue(Head(agenda), contents) = << >>
      BY <1>1 DEF LeftValue
    <3>3. PendingLefts(Tail(agenda), contents) \in Seq(Nat)
      BY <1>1, <1>2, <2>4, OperandsSafe, LeftsListed DEF Register
    <3>4. PendingLefts(agenda, contents) = PendingLefts(Tail(agenda), contents)
      BY <3>1, <3>2, <3>3
    <3>5. PendingLefts(Tail(agenda), contents') = PendingLefts(Tail(agenda), contents)
      BY <2>3, <2>4, SameOperands
    <3> QED
      BY <1>1, <3>4, <3>5
  <2> HIDE DEF p
  <2>6. p \in Seq(Nat) /\ \A i \in 1 .. Len(p) : p[i] # ThisNode
    <3>1. p \in Seq(0 .. nodes)
      BY <1>2, <1>7
    <3>2. \A i \in 1 .. Len(p) : p[i] \in 0 .. nodes
      BY <1>1, <3>1
    <3> QED
      BY <1>1, <3>1, <3>2 DEF ThisNode
  <2>7. HeldOperands = p \o << >> /\ HeldOperands' = p \o << ThisNode >>
    <3>1. HeldOperands = p \o << >>
      BY <1>5 DEF HeldOperands, p
    <3>2. HeldOperands' = PendingLefts(agenda', contents')
                            \o LiveOperands(evalStack', abandoned', contents')
      BY DEF HeldOperands
    <3> QED
      BY <1>5, <2>1, <2>5, <3>1, <3>2
  <2>8. << >> \in Seq(Nat) /\ Len(<< >>) = 0 /\ \A i \in 1 .. Len(<< >>) : << >>[i] # ThisNode
    OBVIOUS
  <2>9. Machine!Yields(Len(<< >>))
    BY <1>4, <2>6, <2>7, <2>8, Yielded
  <2> QED
    BY <2>8, <2>9
<1> QED
  BY <1>6, <1>7, MachineSteps

(* The head of the agenda adds nothing if it is not a right operand.       *)
LEMMA LeftsWithout ==
  ASSUME NEW a \in Seq(SafeItem), a # << >>, Head(a).what # "right",
         NEW c \in [Register -> Nat]
  PROVE PendingLefts(a, c) = PendingLefts(Tail(a), c)
<1>1. Tail(a) \in Seq(SafeItem)
  BY TailItems
<1>2. \A o \in LeftsIn(Tail(a)) : c[o.reg] \in Nat
  BY <1>1, OperandsSafe, << >> \in Seq(SafeOperand) DEF Register
<1>3. PendingLefts(Tail(a), c) \in Seq(Nat)
  BY <1>1, <1>2, LeftsListed
<1>4. PendingLefts(a, c) = PendingLefts(Tail(a), c) \o LeftValue(Head(a), c)
  BY LeftsSplit
<1>5. LeftValue(Head(a), c) = << >>
  BY DEF LeftValue
<1> QED
  BY <1>3, <1>4, <1>5

LEMMA LeftsUnder ==
  ASSUME NEW x \in SafeItem, x.what # "right", NEW a \in Seq(SafeItem),
         NEW c \in [Register -> Nat]
  PROVE PendingLefts(<< x >> \o a, c) = PendingLefts(a, c)
<1> DEFINE b == << x >> \o a
<1>1. b \in Seq(SafeItem) /\ b # << >> /\ Head(b) = x /\ Tail(b) = a
  OBVIOUS
<1> HIDE DEF b
<1>2. PendingLefts(b, c) = PendingLefts(a, c)
  BY <1>1, LeftsWithout
<1> QED
  BY <1>2 DEF b

(* An operator is visited: nothing is loaded yet.                          *)
LEMMA BinaryMachine ==
  ASSUME CalmHeld, VisitBinary
  PROVE MachineStep /\ NumberedInv'
<1>1. PICK op \in Operators, t \in Types :
        Replace(<< ExprItem(t), LeftItem(op, t, ThisNode, NextNode) >>)
  BY DEF VisitBinary
<1> DEFINE x == ExprItem(t)
           y == LeftItem(op, t, ThisNode, NextNode)
           a == Tail(agenda)
           b == << y >> \o a
<1>2. /\ Doing({"expr"}) /\ UNCHANGED << evalStack, contents, abandoned >>
      /\ nodes' = nodes + 1
  BY DEF VisitBinary, Expecting, visitedOnly, allocatorVars, historyVars, NewNode
<1>3. /\ agenda \in Seq(SafeItem) /\ agenda # << >> /\ Head(agenda).what = "expr"
      /\ a \in Seq(SafeItem) /\ status = "running" /\ nodes \in Nat
      /\ evalStack \in Seq(SafeOperand)
  BY <1>2, HandledHead DEF CalmHeld, Settings
<1>4. x \in SafeItem /\ y \in SafeItem
  BY HandlersPush, TypesAssumption DEF CalmHeld, Settings
<1>5. /\ x.what = "expr" /\ y.what = "left" /\ y.node = nodes + 1 /\ y.of = nodes + 2
  BY ItemFieldsByName DEF ThisNode, NextNode
<1>6. /\ contents \in [Register -> Nat] /\ Numbered(agenda, nodes)
      /\ \A o \in LiveOn(evalStack, abandoned) \cup LeftsIn(agenda) : o.node <= nodes
  BY <1>3, HeldContents
<1>7. agenda' = << x >> \o b
  BY <1>1, <1>3, <1>4, TwoItems DEF Replace
<1> HIDE DEF x, y, a
<1>8. b \in Seq(SafeItem)
  BY <1>3, <1>4
<1>9. PendingLefts(agenda', contents') = PendingLefts(agenda, contents)
  <2>1. PendingLefts(b, contents) = PendingLefts(a, contents)
    BY <1>3, <1>4, <1>5, <1>6, LeftsUnder
  <2>2. PendingLefts(agenda, contents) = PendingLefts(a, contents)
    BY <1>3, <1>6, LeftsWithout DEF a
  <2> HIDE DEF b
  <2>3. PendingLefts(<< x >> \o b, contents) = PendingLefts(b, contents)
    BY <1>4, <1>5, <1>6, <1>8, LeftsUnder
  <2> QED
    BY <1>2, <1>7, <2>1, <2>2, <2>3
<1>10. HeldOperands' = HeldOperands
  <2>1. HeldOperands' = PendingLefts(agenda', contents') \o LiveOperands(evalStack', abandoned', contents')
    BY DEF HeldOperands
  <2> QED
    BY <1>2, <1>9, <2>1 DEF HeldOperands
<1>11. Numbered(agenda', nodes + 1)
  <2>1. Numbered(a, nodes)
    BY <1>3, <1>6, NumberedTail DEF a
  <2>2. Numbered(a, nodes + 1)
    BY <1>3, <2>1, NumberedLater
  <2>3. NumberedItem(y, nodes + 1) /\ NumberedItem(x, nodes + 1)
    BY <1>3, <1>5 DEF NumberedItem, Operating
  <2>4. ASSUME NEW o \in LeftsIn(a) PROVE o.node < y.node
    <3>1. o.node <= nodes
      BY <2>1, LeftsNumbered
    <3>2. PICK i \in LeftIndices(a) : o = Operand(a[i].left, a[i].leftNode)
      BY DEF LeftsIn
    <3>3. a[i].leftNode \in Nat
      BY <1>3, <3>2, ItemFields DEF LeftIndices
    <3> QED
      BY <1>3, <1>5, <3>1, <3>2, <3>3 DEF Operand
  <2>5. Numbered(b, nodes + 1)
    BY <1>3, <1>4, <2>2, <2>3, <2>4, NumberedPushed
  <2> HIDE DEF b
  <2>6. Numbered(<< x >> \o b, nodes + 1)
    BY <1>4, <1>5, <1>8, <2>3, <2>5, NumberedPushed DEF Operating
  <2> QED
    BY <1>7, <2>6
<1>12. LiveOn(evalStack, abandoned) = {}
  BY <1>3, HeldContents, NoneLive, Kinds DEF Waits
<1>13. NumberedInv'
  BY <1>2, <1>11, <1>12 DEF NumberedInv
<1> QED
  BY <1>10, <1>13, MachineSteps

(* The operand on top, seen from the operands of HeldOperands: in programs *)
(* without calls it is all that is live when a visit takes it.             *)
LEMMA TopHeld ==
  ASSUME CalmHeld, NEW what, Doing(what), what \subseteq Awaiting
  PROVE /\ Popped \in Seq(SafeOperand) /\ Top \in SafeOperand
        /\ evalStack = Append(Popped, Top) /\ Len(Popped) = abandoned
        /\ Top.node = Head(agenda).of /\ (~misencoded => contents[Top.reg] = Top.node)
        /\ LiveOn(Popped, abandoned) = {}
        /\ LiveOperands(evalStack, abandoned, contents) = << contents[Top.reg] >>
        /\ \A c : LiveOperands(Popped, abandoned, c) = << >>
        /\ Top.node <= nodes
<1>1. /\ agenda # << >> /\ Head(agenda).what \in Awaiting /\ status = "running"
      /\ Waits(agenda)
  BY DEF Doing, Waits
<1>2. /\ contents \in [Register -> Nat] /\ abandoned \in Nat
      /\ evalStack # << >> /\ Len(evalStack) - 1 = abandoned
      /\ \A o \in LiveOn(evalStack, abandoned) : o.node <= nodes
  BY <1>1, HeldContents
<1>3. /\ Popped \in Seq(SafeOperand) /\ Top \in SafeOperand
      /\ evalStack = Append(Popped, Top) /\ Len(Popped) = abandoned
  BY <1>2, SplitStack DEF CalmHeld, Settings
<1>4. Top.node = Head(agenda).of /\ (~misencoded => contents[Top.reg] = Top.node)
  BY <1>2, TopIsLive DEF CalmHeld, Settings
<1> HIDE DEF Popped, Top
<1>5. /\ LiveOn(evalStack, abandoned) = {Top}
      /\ LiveOperands(evalStack, abandoned, contents) = << contents[Top.reg] >>
  BY <1>2, <1>3, OneLive
<1>6. /\ LiveOn(Popped, abandoned) = {}
      /\ \A c : LiveOperands(Popped, abandoned, c) = << >>
  BY <1>2, <1>3, NoneLive
<1> QED
  BY <1>2, <1>3, <1>4, <1>5, <1>6

(* The value on top is moved to the left operands.                         *)
LEMMA LeftMachine ==
  ASSUME CalmHeld, PopLeft
  PROVE MachineStep /\ NumberedInv'
<1> DEFINE item == Head(agenda)
           a == Tail(agenda)
           x == ExprItem(item.type)
           y == RightItem(item.op, item.type, item.node, ThisNode, Top.reg, item.of)
           b == << y >> \o a
           c == contents
<1>1. /\ Doing({"left"}) /\ evalStack' = Popped /\ Replace(<< x, y >>)
      /\ UNCHANGED << contents, nodes, abandoned >>
  BY DEF PopLeft, historyVars
<1>2. /\ agenda \in Seq(SafeItem) /\ agenda # << >> /\ item \in SafeItem
      /\ item.what = "left" /\ a \in Seq(SafeItem) /\ nodes \in Nat /\ status = "running"
  BY <1>1, HandledHead DEF CalmHeld, Settings
<1>3. /\ Top \in SafeOperand /\ Top.node = item.of /\ LiveOn(Popped, abandoned) = {}
      /\ LiveOperands(evalStack, abandoned, c) = << c[Top.reg] >>
      /\ LiveOperands(Popped, abandoned, c) = << >> /\ Top.node <= nodes
  BY <1>1, TopHeld, Kinds
<1>4. /\ c \in [Register -> Nat] /\ Numbered(agenda, nodes)
      /\ \A o \in LeftsIn(agenda) : o.node <= nodes
  BY <1>2, HeldContents
<1>5. /\ item.node \in Nat /\ item.of \in Nat /\ item.op \in Operators
      /\ item.type \in ValueType
  BY <1>2, ItemFields
<1>6. x \in SafeItem /\ y \in SafeItem
  <2>1. Top.reg \in Register \ {RAX, RSP} /\ ThisNode \in Nat
    BY <1>2, <1>3 DEF SafeOperand, ThisNode
  <2> QED
    BY <1>5, <2>1, ItemsTyped
<1>7. /\ x.what = "expr" /\ y.what = "right" /\ y.left = Top.reg /\ y.leftNode = item.of
      /\ y.node = item.node /\ y.of = nodes + 1
  BY DEF ExprItem, RightItem, ThisNode
<1>8. /\ NumberedItem(item, nodes) /\ Numbered(a, nodes)
      /\ \A o \in LeftsIn(a) : o.node < item.node
  BY <1>2, <1>4, NumberedTail DEF Operating
<1>9. item.node # 0 /\ item.node <= nodes /\ item.node < item.of
  BY <1>2, <1>8 DEF NumberedItem, Operating
<1> HIDE DEF item, a, x, y, Top, Popped
<1>10. agenda' = << x >> \o b
  BY <1>1, <1>2, <1>6, TwoItems DEF Replace, a
<1>11. b \in Seq(SafeItem) /\ b # << >> /\ Head(b) = y /\ Tail(b) = a
  BY <1>2, <1>6
<1>12. NumberedItem(y, nodes) /\ NumberedItem(x, nodes)
  BY <1>2, <1>3, <1>5, <1>7, <1>9 DEF NumberedItem, Operating
<1>13. Numbered(b, nodes)
  BY <1>2, <1>6, <1>7, <1>8, <1>12, NumberedPushed
<1> HIDE DEF b
<1>14. Numbered(agenda', nodes')
  <2>1. Numbered(<< x >> \o b, nodes)
    BY <1>6, <1>7, <1>11, <1>12, <1>13, NumberedPushed DEF Operating
  <2> QED
    BY <1>1, <1>10, <2>1
<1>15. NumberedInv'
  BY <1>1, <1>3, <1>14 DEF NumberedInv
<1>16. PendingLefts(agenda, c) = PendingLefts(a, c)
  BY <1>2, <1>4, LeftsWithout DEF item, a
<1>17. PendingLefts(agenda', c) = PendingLefts(a, c) \o << c[Top.reg] >>
  <2>1. PendingLefts(b, c) = PendingLefts(a, c) \o LeftValue(y, c)
    BY <1>4, <1>11, LeftsSplit
  <2>2. LeftValue(y, c) = << c[Top.reg] >>
    BY <1>7 DEF LeftValue
  <2>3. PendingLefts(<< x >> \o b, c) = PendingLefts(b, c)
    BY <1>4, <1>6, <1>7, <1>11, LeftsUnder
  <2> QED
    BY <1>10, <2>1, <2>2, <2>3
<1>18. HeldOperands' = HeldOperands
  <2>1. HeldOperands' = PendingLefts(agenda', contents') \o LiveOperands(evalStack', abandoned', contents')
    BY DEF HeldOperands
  <2>2. HeldOperands' = (PendingLefts(a, c) \o << c[Top.reg] >>) \o << >>
    BY <1>1, <1>3, <1>17, <2>1
  <2>3. HeldOperands = PendingLefts(a, c) \o << c[Top.reg] >>
    BY <1>3, <1>16 DEF HeldOperands
  <2>4. PendingLefts(a, c) \in Seq(Nat) /\ c[Top.reg] \in Nat
    <3>1. \A o \in LeftsIn(a) : c[o.reg] \in Nat
      BY <1>2, <1>4, OperandsSafe, << >> \in Seq(SafeOperand) DEF Register
    <3> QED
      BY <1>2, <1>3, <1>4, <3>1, LeftsListed DEF SafeOperand
  <2>5. (PendingLefts(a, c) \o << c[Top.reg] >>) \o << >> = PendingLefts(a, c) \o << c[Top.reg] >>
    BY <2>4
  <2> QED
    BY <2>2, <2>3, <2>5
<1> QED
  BY <1>15, <1>18, MachineSteps

(* The operator combines the last left operand with the value on top.      *)
LEMMA OperatorMachine ==
  ASSUME CalmHeld, HeldInv', ApplyOperator
  PROVE MachineStep /\ NumberedInv'
<1> DEFINE item == Head(agenda)
           a == Tail(agenda)
           e == Operand(Top.reg, item.node)
           c == contents
           p == PendingLefts(a, c)
<1>1. /\ Doing({"right"}) /\ evalStack' = Append(Popped, e) /\ Replace(<< >>)
      /\ UNCHANGED << nodes, status, abandoned >>
  BY DEF ApplyOperator
<1>2. /\ agenda \in Seq(SafeItem) /\ agenda # << >> /\ item \in SafeItem
      /\ item.what = "right" /\ a \in Seq(SafeItem) /\ nodes \in Nat /\ status = "running"
      /\ agenda' = a
  BY <1>1, HandledHead, NoItems DEF CalmHeld, Settings, Replace
<1>3. /\ Popped \in Seq(SafeOperand) /\ Top \in SafeOperand /\ Top.node = item.of
      /\ Len(Popped) = abandoned /\ (~misencoded => c[Top.reg] = Top.node)
      /\ LiveOperands(evalStack, abandoned, c) = << c[Top.reg] >>
  BY <1>1, TopHeld, Kinds
<1>4. /\ c \in [Register -> Nat] /\ contents' \in [Register -> Nat]
      /\ Numbered(agenda, nodes) /\ abandoned \in Nat
      /\ \A o \in LeftsIn(agenda) : ~misencoded => c[o.reg] = o.node
  BY <1>2, HeldContents
<1>5. item.node \in Nat /\ item.of \in Nat /\ item.leftNode \in Nat
  BY <1>2, ItemFields
<1>6. /\ item.node # 0 /\ item.node <= nodes /\ item.node < item.of
      /\ item.node < item.leftNode
      /\ Numbered(a, nodes) /\ \A o \in LeftsIn(a) : o.node < item.node
  BY <1>2, <1>4, NumberedTail DEF NumberedItem, Operating
<1>7. /\ LeftsIn(a) \subseteq LeftsIn(agenda)
      /\ Operand(item.left, item.leftNode) \in LeftsIn(agenda)
  BY <1>2, LeftsOfTail
<1>8. e \in SafeOperand /\ e.reg = Top.reg /\ e.node = item.node
  BY <1>3, <1>5 DEF Operand, SafeOperand
<1> HIDE DEF item, a, e, Top, Popped
<1>9. /\ LiveOn(evalStack', abandoned') = {e}
      /\ LiveOperands(evalStack', abandoned', contents') = << contents'[e.reg] >>
  BY <1>1, <1>3, <1>4, <1>8, OneLive
<1>10. NumberedInv'
  BY <1>1, <1>2, <1>6, <1>8, <1>9 DEF NumberedInv
<1>11. ASSUME ~misencoded, ~misencoded' PROVE Machine!Yields(2)
  <2>1. /\ contents'[e.reg] = item.node
        /\ \A o \in LeftsIn(a) : contents'[o.reg] = o.node
    <3>1. \A o \in LiveOn(evalStack', abandoned') \cup LeftsIn(a) : contents'[o.reg] = o.node
      BY <1>1, <1>2, <1>11 DEF HeldInv, HeldWith, Kept
    <3> QED
      BY <1>8, <1>9, <3>1
  <2>2. p \in Seq(Nat) /\ \A i \in 1 .. Len(p) : p[i] # item.node
    <3> DEFINE S == {k \in Nat : k < item.node}
    <3>1. \A o \in LeftsIn(a) : c[o.reg] \in S
      <4>1. \A o \in LeftsIn(a) : o.reg \in Register
        BY <1>2, OperandsSafe, << >> \in Seq(SafeOperand)
      <4> QED
        BY <1>4, <1>6, <1>7, <1>11, <4>1
    <3> HIDE DEF S, p
    <3>2. p \in Seq(S)
      BY <1>2, <3>1, LeftsListed DEF p
    <3>3. S \subseteq Nat /\ item.node \notin S
      BY <1>5 DEF S
    <3>4. p \in Seq(Nat)
      <4>1. \A o \in LeftsIn(a) : c[o.reg] \in Nat
        BY <3>1, <3>3
      <4> QED
        BY <1>2, <4>1, LeftsListed DEF p
    <3>5. \A i \in 1 .. Len(p) : p[i] \in S
      BY <3>2
    <3> QED
      BY <3>3, <3>4, <3>5
  <2>3. HeldOperands = p \o << item.leftNode, Top.node >>
    <3>1. PendingLefts(agenda, c) = p \o LeftValue(item, c)
      BY <1>2, <1>4, LeftsSplit DEF item, a
    <3>2. LeftValue(item, c) = << item.leftNode >>
      BY <1>2, <1>4, <1>7, <1>11 DEF LeftValue, Operand
    <3>3. HeldOperands = (p \o << item.leftNode >>) \o << Top.node >>
      BY <1>3, <1>11, <3>1, <3>2 DEF HeldOperands
    <3> HIDE DEF p
    <3>4. (p \o << item.leftNode >>) \o << Top.node >> = p \o << item.leftNode, Top.node >>
      <4> DEFINE u == (p \o << item.leftNode >>) \o << Top.node >>
                 v == p \o << item.leftNode, Top.node >>
      <4>1. u \in Seq(Nat) /\ v \in Seq(Nat)
        BY <1>3, <1>5, <2>2
      <4>2. Len(u) = Len(v) /\ \A i \in 1 .. Len(u) : u[i] = v[i]
        BY <1>3, <1>5, <2>2
      <4> HIDE DEF u, v
      <4>3. u = v
        BY <4>1, <4>2, SeqEqual
      <4> QED
        BY <4>3 DEF u, v
    <3> QED
      BY <3>3, <3>4
  <2>4. HeldOperands' = p \o << item.node >>
    <3>1. HeldOperands' = PendingLefts(agenda', contents')
                            \o LiveOperands(evalStack', abandoned', contents')
      BY DEF HeldOperands
    <3>2. PendingLefts(a, contents') = p
      BY <1>4, <1>7, <1>11, <2>1, SameOperands
    <3> QED
      BY <1>2, <1>9, <2>1, <3>1, <3>2
  <2> DEFINE last == << item.leftNode, Top.node >>
  <2>5. /\ last \in Seq(Nat) /\ Len(last) = 2
        /\ \A i \in 1 .. Len(last) : last[i] # item.node
    BY <1>3, <1>5, <1>6
  <2> HIDE DEF last, p
  <2>6. Machine!Yields(Len(last))
    BY <1>5, <1>6, <2>2, <2>3, <2>4, <2>5, Yielded DEF last
  <2> QED
    BY <2>5, <2>6
<1> QED
  BY <1>10, <1>11, MachineSteps

(* Operators that have no code take their right operand and throw.         *)
LEMMA RejectMachine ==
  ASSUME CalmHeld, RejectOperator
  PROVE MachineStep /\ NumberedInv'
<1> DEFINE c == contents
           p == PendingLefts(agenda, c)
<1>1. /\ Doing({"right"}) /\ evalStack' = Popped
      /\ UNCHANGED << nodes, agenda, contents, abandoned >>
  BY DEF RejectOperator, historyVars
<1>2. /\ Top \in SafeOperand /\ LiveOn(Popped, abandoned) = {}
      /\ LiveOperands(evalStack, abandoned, c) = << c[Top.reg] >>
      /\ LiveOperands(Popped, abandoned, c) = << >>
  BY <1>1, TopHeld, Kinds
<1>3. c \in [Register -> Nat] /\ Numbered(agenda, nodes) /\ p \in Seq(Nat)
  <2>1. /\ c \in [Register -> Nat] /\ Numbered(agenda, nodes) /\ agenda \in Seq(SafeItem)
    BY <1>1, HeldContents DEF Doing
  <2>2. \A o \in LeftsIn(agenda) : c[o.reg] \in Nat
    BY <2>1, OperandsSafe, << >> \in Seq(SafeOperand) DEF Register
  <2> QED
    BY <2>1, <2>2, LeftsListed
<1> HIDE DEF Top, Popped, p
<1>4. HeldOperands = p \o << c[Top.reg] >>
  BY <1>2 DEF HeldOperands, p
<1>5. HeldOperands' = p
  <2>1. HeldOperands' = PendingLefts(agenda', contents')
                          \o LiveOperands(evalStack', abandoned', contents')
    BY DEF HeldOperands
  <2>2. HeldOperands' = p \o << >>
    BY <1>1, <1>2, <2>1 DEF p
  <2> QED
    BY <1>3, <2>2
<1>6. Machine!Take
  BY <1>2, <1>3, <1>4, <1>5, Taken DEF SafeOperand
<1>7. NumberedInv'
  BY <1>1, <1>2, <1>3 DEF NumberedInv
<1> QED
  BY <1>6, <1>7, MachineSteps

(* What has been misencoded stays so.                                      *)
LEMMA MisencodedStays == [Next]_vars => (misencoded => misencoded')
<1> SUFFICES ASSUME [Next]_vars, misencoded PROVE misencoded'
  OBVIOUS
<1>1. (UNCHANGED misencoded \/ \E wrong : Misencode(wrong)) => misencoded'
  BY DEF Misencode
<1>2. CASE Statement
  BY <1>1, <1>2 DEF Statement, VisitVarDecl, VisitRet, VisitIf, VisitExprStatement, VisitUse,
     VisitAssign, VisitCallStatement, BeginCall, EndVarDecl, EndRet, BeginIf, EndIf,
     EndExprStatement, visitedOnly, historyVars
<1>3. CASE Expression
  BY <1>1, <1>3 DEF Expression, VisitLiteral, VisitString, VisitIdentifier, StoreLiteral,
     VisitBinary, PopLeft, ApplyOperator, VisitCallOperand, BeginCall, VisitArgument, EndCall,
     visitedOnly, historyVars
<1>4. CASE BeginFunction \/ EndFunction \/ WriteToDisk \/ Failure
  BY <1>1, <1>4 DEF BeginFunction, EndFunction, WriteToDisk, Failure, OutOfRegisters,
     RejectOperator, PopEmpty, historyVars
<1>5. CASE Terminated \/ UNCHANGED vars
  BY <1>1, <1>5 DEF Terminated, vars
<1> QED
  BY <1>2, <1>3, <1>4, <1>5 DEF Next

(* Every step of the generator is one of the machine or leaves its         *)
(* operands as they are.                                                   *)
LEMMA NextMachine ==
  ASSUME CalmHeld, BalanceInv', PlainInv', HeldInv', [Next]_vars
  PROVE MachineStep /\ NumberedInv'
<1>1. CASE UNCHANGED << agenda, evalStack, contents, nodes, abandoned >>
  <2>1. HeldOperands' = HeldOperands
    <3>1. HeldOperands' = PendingLefts(agenda', contents')
                            \o LiveOperands(evalStack', abandoned', contents')
      BY DEF HeldOperands
    <3> QED
      BY <1>1, <3>1 DEF HeldOperands
  <2>2. NumberedInv'
    BY <1>1 DEF NumberedInv, CalmHeld
  <2> QED
    BY <2>1, <2>2, MachineSteps
<1>2. CASE WriteToDisk \/ OutOfRegisters \/ PopEmpty \/ Terminated \/ UNCHANGED vars
  BY <1>1, <1>2 DEF WriteToDisk, OutOfRegisters, PopEmpty, Terminated, vars, allocatorVars,
     historyVars
<1>3. CASE (Statement \/ BeginFunction \/ EndFunction \/ StoreLiteral) /\ status' = "running"
  <2>1. status = "running"
    BY <1>3 DEF Statement, VisitVarDecl, VisitRet, VisitIf, VisitExprStatement, VisitUse,
       VisitAssign, VisitCallStatement, EndVarDecl, EndRet, BeginIf, EndIf, EndExprStatement,
       InBody, BeginFunction, EndFunction, StoreLiteral, Expecting, Doing
  <2> QED
    BY <1>3, <2>1, CalmSteps, CalmMachine DEF CalmHeld
<1>4. CASE BeginFunction /\ status' # "running"
  <2>1. UNCHANGED << agenda, evalStack, contents, nodes, abandoned >>
    BY <1>4 DEF BeginFunction, allocatorVars, historyVars
  <2> QED
    BY <1>1, <2>1
<1>5. CASE (Statement \/ EndFunction \/ StoreLiteral) /\ status' # "running"
  BY <1>5 DEF Statement, VisitVarDecl, VisitRet, VisitIf, VisitExprStatement, VisitUse,
     VisitAssign, VisitCallStatement, BeginCall, EndVarDecl, EndRet, BeginIf, EndIf,
     EndExprStatement, InBody, EndFunction, StoreLiteral, Expecting, Doing, visitedOnly
<1>6. CASE VisitLiteral \/ VisitString \/ VisitIdentifier
  <2>1. PICK r \in Register :
          /\ GetAndPush(r, ThisNode) /\ Misencode(r > RDI)
          /\ contents' \in {Moved(r, ThisNode), Addressed(r, ThisNode)}
    BY <1>6 DEF VisitLiteral, VisitString, VisitIdentifier
  <2>2. Doing({"expr"}) /\ Replace(<< >>) /\ NewNode /\ UNCHANGED abandoned
    BY <1>6 DEF VisitLiteral, VisitString, VisitIdentifier, Expecting
  <2> QED
    BY <2>1, <2>2, LeafMoves, LeafMachine DEF CalmHeld, Settings
<1>7. CASE VisitCallOperand
  BY <1>7 DEF VisitCallOperand, Expecting, CalmHeld, NoCalls
<1>8. CASE VisitArgument \/ EndCall
  <2>1. Doing({"call"})
    BY <1>8 DEF VisitArgument, EndCall
  <2>2. PlainItem(Head(agenda)) /\ Head(agenda).what = "call"
    BY <2>1, HandledHead, PlainTail DEF CalmHeld, Settings, PlainInv
  <2> QED
    BY <2>2 DEF PlainItem, CalmHeld
<1> QED
  BY <1>2, <1>3, <1>4, <1>5, <1>6, <1>7, <1>8, BinaryMachine, LeftMachine, OperatorMachine,
     RejectMachine DEF Next, Expression, Failure

(* In every program without calls the registers implement the operand      *)
(* stack: each operand is left in a register when it is loaded, is found   *)
(* there when an operator or a statement takes it, and none is lost,       *)
(* replaced or exchanged with another in between, however deep the         *)
(* expression and whichever registers get_free returns                     *)
(* (generator.cpp:30-56, register_allocator.cpp:35-72), until the first    *)
(* instruction that names another register than meant: R8 and the ones     *)
(* after it, or a byte operation on RBP, RSI or RDI.  It fails with calls, *)
(* whose operands are not an operand stack.                                *)
THEOREM OperandsImplementStack == ASSUME NoCalls PROVE Spec => KeepsOperands
<1> DEFINE Inv == IInv /\ CInv /\ PlainInv /\ HeldInv /\ NumberedInv
           Step == [Machine!Work \/ Machine!Break]_<< HeldOperands, misencoded >>
<1>1. CallsAreStatements /\ DivisionApart
  BY DEF NoCalls, CallsAreStatements, DivisionApart
<1>2. Init => Inv /\ Machine!StackInit
  <2> SUFFICES ASSUME Init PROVE Inv /\ Machine!StackInit
    OBVIOUS
  <2>1. agenda = << >> /\ evalStack = << >> /\ abandoned = 0 /\ misencoded = FALSE
    BY DEF Init
  <2>2. << >> \in Seq(SafeItem) /\ Calm(<< >>) /\ LeftIndices(<< >>) = {} /\ Len(<< >>) = 0
    BY DEF Calm, LeftIndices
  <2>3. LiveOperands(<< >>, 0, contents) = << >> /\ LiveOn(<< >>, 0) = {}
    BY <2>2, NoneLive
  <2>4. NumberedInv
    BY <2>1, <2>2, <2>3, CalmNumbered DEF NumberedInv
  <2>5. HeldOperands = << >>
    <3>1. PendingLefts(<< >>, contents) = << >>
      BY <2>2, NoLefts
    <3>2. << >> \o << >> = << >>
      OBVIOUS
    <3> QED
      BY <2>1, <2>3, <3>1, <3>2 DEF HeldOperands
  <2> QED
    BY <2>1, <2>4, <2>5, InitSafe, InitControl, InitHeld DEF Machine!StackInit
<1>3. Inv /\ [Next]_vars => Inv' /\ Step
  <2> SUFFICES ASSUME Inv, [Next]_vars PROVE Inv' /\ Step
    OBVIOUS
  <2>1. IInv' /\ CInv' /\ PlainInv'
    BY NextSafe, NextControl, NextPlain
  <2>2. BalanceInv /\ BalanceInv'
    BY <1>1, <2>1 DEF CInv, CallsAreStatements
  <2>3. HeldInv'
    BY <1>1, <2>1, <2>2, NextHeld DEF Settings
  <2>4. NumberedInv' /\ MachineStep
    BY <1>1, <2>1, <2>2, <2>3, NextMachine DEF CalmHeld, Settings
  <2>5. Step
    <3>1. CASE misencoded'
      BY <3>1 DEF Machine!Break
    <3>2. CASE ~misencoded'
      <4>1. ~misencoded /\ misencoded \in BOOLEAN /\ misencoded' \in BOOLEAN
        BY <2>1, <3>2, MisencodedStays DEF IInv, ContentsInv
      <4> QED
        BY <2>4, <3>2, <4>1 DEF MachineStep, Machine!Work
    <3> QED
      BY <3>1, <3>2
  <2> QED
    BY <2>1, <2>3, <2>4, <2>5
<1> HIDE DEF Inv
<1> QED
  BY <1>2, <1>3, PTL DEF Spec, KeepsOperands, Machine!StackSpec
=============================================================================
