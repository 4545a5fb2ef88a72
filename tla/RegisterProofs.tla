--------------------------- MODULE RegisterProofs ---------------------------
(***************************************************************************)
(* Proofs about what the registers hold: an operand that is still to be    *)
(* used keeps its register and its value, and in programs without calls    *)
(* every register that is in use is accounted for.                         *)
(***************************************************************************)
EXTENDS GeneratorProofs

-----------------------------------------------------------------------------
(* The operands still to be used: those on the evaluation stack above the  *)
(* abandoned ones, and the left ones that wait in the agenda for their     *)
(* right ones.                                                             *)

LiveIndices(s, gone) == (gone + 1) .. Len(s)
LeftIndices(a) == {i \in 1 .. Len(a) : a[i].what = "right"}

LiveOn(s, gone) == {s[i] : i \in LiveIndices(s, gone)}
LeftsIn(a) == {Operand(a[i].left, a[i].leftNode) : i \in LeftIndices(a)}

OwnRegisters(s, gone) == \A i, j \in LiveIndices(s, gone) : s[i].reg = s[j].reg => i = j
OwnLefts(a) == \A i, j \in LeftIndices(a) : a[i].left = a[j].left => i = j

Differs(operands, r) == \A o \in operands : o.reg # r

LiveCount(s, gone) == Cardinality(LiveIndices(s, gone))
LeftCount(a) == Cardinality(LeftIndices(a))

LEMMA LiveOfAppended ==
  ASSUME NEW s \in Seq(SafeOperand), NEW e \in SafeOperand,
         NEW gone \in Nat, gone <= Len(s)
  PROVE LET t == Append(s, e) IN
        /\ LiveOn(t, gone) = LiveOn(s, gone) \cup {e}
        /\ OwnRegisters(t, gone) <=>
             OwnRegisters(s, gone) /\ Differs(LiveOn(s, gone), e.reg)
        /\ LiveCount(t, gone) = LiveCount(s, gone) + 1
        /\ LiveCount(s, gone) \in Nat
<1> DEFINE t == Append(s, e)
           n == Len(s)
           old == LiveIndices(s, gone)
<1>1. /\ t \in Seq(SafeOperand) /\ Len(t) = n + 1 /\ n \in Nat /\ t[n + 1] = e
      /\ \A i \in 1 .. n : t[i] = s[i]
  OBVIOUS
<1> HIDE DEF t
<1>2. /\ old \subseteq 1 .. n /\ n + 1 \notin old
      /\ LiveIndices(t, gone) = old \cup {n + 1}
      /\ \A i \in old : t[i] = s[i]
  BY <1>1 DEF LiveIndices
<1>3. IsFiniteSet(old) /\ LiveCount(s, gone) \in Nat
  <2>1. IsFiniteSet(1 .. Len(s))
    BY FS_Interval, Len(s) \in Nat
  <2>2. IsFiniteSet(old)
    BY <1>2, <2>1, FS_Subset
  <2> QED
    BY <2>2, FS_CardinalityType DEF LiveCount
<1> HIDE DEF n
<1>4. LiveOn(t, gone) = LiveOn(s, gone) \cup {e}
  BY <1>1, <1>2 DEF LiveOn
<1>5. Differs(LiveOn(s, gone), e.reg) <=> \A i \in old : t[i].reg # t[n + 1].reg
  BY <1>1, <1>2 DEF LiveOn, Differs
<1>6. OwnRegisters(t, gone) <=> OwnRegisters(s, gone) /\ Differs(LiveOn(s, gone), e.reg)
  BY <1>2, <1>5 DEF OwnRegisters
<1>7. LiveCount(t, gone) = LiveCount(s, gone) + 1
  <2>1. Cardinality(old \cup {n + 1}) = Cardinality(old) + 1
    BY <1>2, <1>3, FS_AddElement
  <2> QED
    BY <1>2, <2>1 DEF LiveCount
<1> QED
  BY <1>3, <1>4, <1>6, <1>7 DEF t

(* What the first visit of the agenda adds to the others.                  *)
LEMMA LeftsOfTail ==
  ASSUME NEW a \in Seq(SafeItem), a # << >>
  PROVE LET x == Head(a)
            b == Tail(a)
            waits == x.what = "right" IN
        /\ LeftsIn(a) = LeftsIn(b) \cup (IF waits THEN {Operand(x.left, x.leftNode)} ELSE {})
        /\ OwnLefts(a) <=> OwnLefts(b) /\ (waits => Differs(LeftsIn(b), x.left))
        /\ LeftCount(a) = LeftCount(b) + (IF waits THEN 1 ELSE 0)
        /\ LeftCount(b) \in Nat
<1> DEFINE x == Head(a)
           b == Tail(a)
           old == LeftIndices(b)
           moved == {i + 1 : i \in old}
           f == [i \in old |-> i + 1]
<1>1. /\ b \in Seq(SafeItem) /\ Len(b) = Len(a) - 1
      /\ \A i \in 1 .. Len(b) : b[i] = a[i + 1]
      /\ x = a[1] /\ Len(a) \in Nat \ {0} /\ Len(b) \in Nat
  BY TailItems
<1> HIDE DEF x, b
<1>2. old \subseteq 1 .. Len(b) /\ \A i \in old : a[i + 1] = b[i]
  BY <1>1 DEF LeftIndices
<1>3. LeftIndices(a) = moved \cup (IF x.what = "right" THEN {1} ELSE {})
  <2>1. ASSUME NEW j \in moved PROVE j \in LeftIndices(a)
    <3>1. PICK i \in 1 .. Len(b) : b[i].what = "right" /\ j = i + 1
      BY DEF LeftIndices
    <3>2. j \in 1 .. Len(a) /\ a[j] = b[i]
      BY <1>1, <3>1
    <3> QED
      BY <3>1, <3>2 DEF LeftIndices
  <2>2. ASSUME NEW j \in LeftIndices(a), j # 1 PROVE j \in moved
    <3>1. j - 1 \in 1 .. Len(b) /\ (j - 1) + 1 = j
      BY <1>1, <2>2 DEF LeftIndices
    <3>2. b[j - 1] = a[j]
      BY <1>1, <3>1
    <3>3. j - 1 \in old
      BY <2>2, <3>1, <3>2 DEF LeftIndices
    <3> QED
      BY <3>1, <3>3
  <2>3. 1 \in LeftIndices(a) <=> x.what = "right"
    BY <1>1 DEF LeftIndices
  <2> QED
    BY <2>1, <2>2, <2>3
<1>4. 1 \notin moved
  BY <1>2
<1>5. /\ IsFiniteSet(old) /\ IsFiniteSet(moved) /\ Cardinality(old) \in Nat
      /\ Cardinality(moved) = Cardinality(old)
  <2>1. IsFiniteSet(1 .. Len(b))
    BY <1>1, FS_Interval
  <2>2. IsFiniteSet(old)
    BY <1>2, <2>1, FS_Subset
  <2>3. f \in Bijection(old, moved)
    <3>1. f \in [old -> moved]
      OBVIOUS
    <3>2. \A i, j \in old : f[i] = f[j] => i = j
      BY <1>2
    <3>3. \A j \in moved : \E i \in old : f[i] = j
      OBVIOUS
    <3> QED
      BY <3>1, <3>2, <3>3, Fun_IsBij
  <2>4. ExistsBijection(old, moved)
    BY <2>3 DEF ExistsBijection
  <2> QED
    BY <2>2, <2>4, FS_Bijection, FS_CardinalityType
<1>6. LeftsIn(a) = LeftsIn(b) \cup (IF x.what = "right" THEN {Operand(x.left, x.leftNode)} ELSE {})
  <2>1. LeftsIn(b) = {Operand(a[j].left, a[j].leftNode) : j \in moved}
    <3>1. LeftsIn(b) = {Operand(a[i + 1].left, a[i + 1].leftNode) : i \in old}
      BY <1>2 DEF LeftsIn
    <3> QED
      BY <3>1
  <2> HIDE DEF moved, old
  <2> QED
    BY <1>1, <1>3, <2>1 DEF LeftsIn
<1>7. Differs(LeftsIn(b), x.left) <=> \A j \in moved : a[j].left # x.left
  <2>1. \A l, k : Operand(l, k).reg = l
    BY DEF Operand
  <2>2. Differs(LeftsIn(b), x.left) <=> \A i \in old : b[i].left # x.left
    <3>1. LeftsIn(b) = {Operand(b[i].left, b[i].leftNode) : i \in old}
      BY DEF LeftsIn
    <3> HIDE DEF old
    <3> QED
      BY <2>1, <3>1 DEF Differs
  <2> QED
    BY <1>2, <2>2
<1>8. OwnLefts(b) <=> \A i, j \in moved : a[i].left = a[j].left => i = j
  <2>1. ASSUME OwnLefts(b), NEW i \in moved, NEW j \in moved, a[i].left = a[j].left
        PROVE i = j
    <3>1. PICK k \in old, l \in old : i = k + 1 /\ j = l + 1
      OBVIOUS
    <3>2. k = l
      BY <1>2, <2>1, <3>1 DEF OwnLefts
    <3> QED
      BY <3>1, <3>2
  <2>2. ASSUME \A i, j \in moved : a[i].left = a[j].left => i = j,
               NEW i \in old, NEW j \in old, b[i].left = b[j].left
        PROVE i = j
    <3>1. i + 1 \in moved /\ j + 1 \in moved /\ a[i + 1].left = a[j + 1].left
      BY <1>2, <2>2
    <3>2. i + 1 = j + 1 /\ i \in Nat /\ j \in Nat
      BY <1>2, <2>2, <3>1
    <3> QED
      BY <3>2
  <2> QED
    BY <2>1, <2>2 DEF OwnLefts
<1> HIDE DEF moved, old, f
<1>9. OwnLefts(a) <=> OwnLefts(b) /\ (x.what = "right" => Differs(LeftsIn(b), x.left))
  BY <1>1, <1>3, <1>4, <1>7, <1>8 DEF OwnLefts
<1>10. LeftCount(a) = LeftCount(b) + (IF x.what = "right" THEN 1 ELSE 0) /\ LeftCount(b) \in Nat
  <2>1. x.what = "right" => Cardinality(moved \cup {1}) = Cardinality(moved) + 1
    BY <1>4, <1>5, FS_AddElement
  <2> QED
    BY <1>3, <1>5, <2>1 DEF LeftCount, old
<1> QED
  BY <1>6, <1>9, <1>10 DEF x, b

-----------------------------------------------------------------------------
(* A program without calls never has one in its agenda.                    *)

NoCalls == "call" \notin Statements \cup Operands \cup Arguments

PlainItem(x) == NoCalls => x.what # "call"

Plain(a) == \A i \in 1 .. Len(a) : PlainItem(a[i])

PlainInv == Plain(agenda) /\ (NoCalls => mode = "None")

LEMMA TailRemains ==
  ASSUME NEW a \in Seq(SafeItem), Len(a) > 1
  PROVE Tail(a) # << >> /\ Head(Tail(a)) = a[2]
<1>1. a # << >>
  OBVIOUS
<1>2. Len(Tail(a)) = Len(a) - 1 /\ Tail(a) \in Seq(SafeItem) /\ Len(a) \in Nat
  BY <1>1, TailItems
<1>3. Len(Tail(a)) # 0
  BY <1>2
<1>4. Tail(a) # << >>
  <2> DEFINE b == Tail(a)
  <2>1. Len(b) # 0
    BY <1>3
  <2> HIDE DEF b
  <2>2. b # << >>
    BY <2>1
  <2> QED
    BY <2>2 DEF b
<1>5. Head(Tail(a)) = a[2]
  OBVIOUS
<1> QED
  BY <1>4, <1>5

LEMMA PlainTail ==
  ASSUME NEW a \in Seq(SafeItem), a # << >>, Plain(a)
  PROVE PlainItem(Head(a)) /\ Plain(Tail(a))
<1>1. /\ Len(Tail(a)) = Len(a) - 1 /\ \A i \in 1 .. Len(Tail(a)) : Tail(a)[i] = a[i + 1]
      /\ Head(a) = a[1] /\ Len(a) \in Nat \ {0}
  BY TailItems
<1>2. PlainItem(Head(a))
  BY <1>1 DEF Plain
<1>3. ASSUME NEW i \in 1 .. Len(Tail(a)) PROVE PlainItem(Tail(a)[i])
  <2>1. i + 1 \in 1 .. Len(a) /\ Tail(a)[i] = a[i + 1]
    BY <1>1
  <2> QED
    BY <2>1 DEF Plain
<1> QED
  BY <1>2, <1>3 DEF Plain

LEMMA PlainConcat ==
  ASSUME NEW items \in Seq(SafeItem), NEW a \in Seq(SafeItem), Plain(items), Plain(a)
  PROVE Plain(items \o a)
<1> DEFINE b == items \o a
           k == Len(items)
<1>1. /\ Len(b) = k + Len(a) /\ k \in Nat /\ Len(a) \in Nat
      /\ \A i \in 1 .. k : b[i] = items[i]
      /\ \A i \in (k + 1) .. (k + Len(a)) : b[i] = a[i - k]
  BY ConcatItems
<1> HIDE DEF b
<1> SUFFICES ASSUME NEW i \in 1 .. Len(b) PROVE PlainItem(b[i])
  BY DEF Plain, b
<1>2. CASE i <= k
  BY <1>1, <1>2 DEF Plain
<1>3. CASE i > k
  <2>1. i - k \in 1 .. Len(a) /\ i \in (k + 1) .. (k + Len(a))
    BY <1>1, <1>3
  <2>2. b[i] = a[i - k]
    BY <1>1, <2>1
  <2> QED
    BY <2>1, <2>2 DEF Plain
<1> QED
  BY <1>1, <1>2, <1>3

(* What the handlers put on the agenda.                                    *)
LEMMA PlainItems ==
  /\ \A t : PlainItem(ExprItem(t))
  /\ \A n, t : PlainItem(LetItem(n, t, NextNode))
  /\ \A what \in UseKind : PlainItem(UseItem(what, NextNode))
  /\ \A op, t : PlainItem(LeftItem(op, t, ThisNode, NextNode))
  /\ \A op, t, node, left, of : PlainItem(RightItem(op, t, node, ThisNode, left, of))
  /\ \A f, base, count : ~NoCalls => PlainItem(CallItem(f, base, count))
  /\ \A at : PlainItem(IfItem(at))
  /\ PlainItem(FnItem)
BY DEF PlainItem, ExprItem, LetItem, UseItem, LeftItem, RightItem, CallItem, IfItem,
   FnItem, UseKind

LEMMA PlainOnes ==
  ASSUME NEW x, NEW y, PlainItem(x), PlainItem(y)
  PROVE Plain(<< x >>) /\ Plain(<< x, y >>) /\ Plain(<< >>)
BY DEF Plain

LEMMA PlainReplaced ==
  ASSUME IInv, Plain(agenda), NEW what, Doing(what), NEW items \in Seq(SafeItem),
         Plain(items), Replace(items) \/ Enter(items)
  PROVE Plain(agenda')
<1>1. /\ agenda \in Seq(SafeItem) /\ Tail(agenda) \in Seq(SafeItem) /\ Plain(Tail(agenda))
  BY HandledHead, PlainTail
<1> QED
  BY <1>1, PlainConcat DEF Replace, Enter

LEMMA StatementPlain == IInv /\ PlainInv /\ Statement => Plain(agenda')
<1> SUFFICES ASSUME IInv, Plain(agenda), Statement PROVE Plain(agenda')
  BY DEF PlainInv
<1>1. CASE VisitVarDecl \/ VisitRet \/ VisitIf \/ VisitExprStatement
  <2>1. PICK t \in ValueType, y \in SafeItem :
          PlainItem(y) /\ Enter(<< ExprItem(t), y >>) /\ Doing(BodyKind)
    <3>1. CASE VisitVarDecl
      <4>1. PICK n \in Names, t \in Types :
              Enter(<< ExprItem(t), LetItem(n, t, NextNode) >>)
        BY <3>1 DEF VisitVarDecl
      <4> QED
        BY <3>1, <4>1, HandlersPush, PlainItems, TypesAssumption DEF VisitVarDecl, InBody
    <3>2. CASE VisitRet \/ VisitIf \/ VisitExprStatement
      <4>1. /\ Types \subseteq ValueType /\ {"bool"} \subseteq ValueType
            /\ {"ret", "test", "discard"} \subseteq UseKind
        BY TypesAssumption DEF ValueType, UseKind
      <4>2. Doing(BodyKind) /\ \E what \in UseKind, t \in ValueType :
              Enter(<< ExprItem(t), UseItem(what, NextNode) >>)
        BY <3>2, <4>1 DEF VisitRet, VisitIf, VisitExprStatement, VisitUse, InBody
      <4> QED
        BY <4>2, HandlersPush, PlainItems
    <3> QED
      BY <1>1, <3>1, <3>2
  <2>2. /\ << ExprItem(t), y >> \in Seq(SafeItem) /\ Plain(<< ExprItem(t), y >>)
    BY <2>1, HandlersPush, PlainItems, PlainOnes, TwoItems
  <2> QED
    BY <2>1, <2>2, PlainReplaced
<1>2. CASE VisitAssign
  BY <1>2 DEF VisitAssign
<1>3. CASE VisitCallStatement
  <2>1. PICK f \in FnNames : Enter(<< CallItem(f, Len(evalStack), 0) >>)
    BY <1>3 DEF VisitCallStatement
  <2>2. Doing(BodyKind) /\ ~NoCalls
    BY <1>3 DEF VisitCallStatement, InBody, NoCalls
  <2>3. /\ << CallItem(f, Len(evalStack), 0) >> \in Seq(SafeItem)
        /\ Plain(<< CallItem(f, Len(evalStack), 0) >>)
    BY <2>2, HandlersPush, OneItem, PlainItems, PlainOnes
  <2> QED
    BY <2>1, <2>2, <2>3, PlainReplaced
<1>4. CASE EndVarDecl \/ EndRet \/ EndIf \/ EndExprStatement
  <2>1. PICK what \in {{"let"}, {"ret"}, {"if"}, {"discard"}} : Doing(what) /\ Replace(<< >>)
    BY <1>4 DEF EndVarDecl, EndRet, EndIf, EndExprStatement
  <2>2. << >> \in Seq(SafeItem) /\ Plain(<< >>)
    BY DEF Plain
  <2> QED
    BY <2>1, <2>2, PlainReplaced
<1>5. CASE BeginIf
  <2>1. PICK at : Doing({"test"}) /\ Replace(<< IfItem(at) >>)
    BY <1>5 DEF BeginIf
  <2>2. PlainItem(IfItem(at)) /\ Plain(<< IfItem(at) >>)
    BY PlainItems, PlainOnes
  <2>3. Plain(Tail(agenda)) /\ Tail(agenda) \in Seq(SafeItem)
    BY <2>1, HandledHead, PlainTail
  <2>4. agenda' = << IfItem(at) >> \o Tail(agenda)
    BY <2>1 DEF Replace
  <2>5. \A i \in 1 .. Len(agenda') :
          agenda'[i] = IF i = 1 THEN IfItem(at) ELSE Tail(agenda)[i - 1]
    BY <2>3, <2>4
  <2>6. \A i \in 1 .. Len(agenda') : i # 1 => i - 1 \in 1 .. Len(Tail(agenda))
    BY <2>3, <2>4
  <2> QED
    BY <2>2, <2>3, <2>5, <2>6 DEF Plain
<1> QED
  BY <1>1, <1>2, <1>3, <1>4, <1>5 DEF Statement

LEMMA ExpressionPlain == IInv /\ PlainInv /\ Expression => Plain(agenda')
<1> SUFFICES ASSUME IInv, Plain(agenda), Expression PROVE Plain(agenda')
  BY DEF PlainInv
<1>1. CASE VisitLiteral \/ VisitString \/ VisitIdentifier \/ ApplyOperator \/ EndCall
  <2>1. PICK what \in {{"expr"}, {"right"}, {"call"}} : Doing(what) /\ Replace(<< >>)
    BY <1>1 DEF VisitLiteral, VisitString, VisitIdentifier, ApplyOperator, EndCall, Expecting
  <2>2. << >> \in Seq(SafeItem) /\ Plain(<< >>)
    BY DEF Plain
  <2> QED
    BY <2>1, <2>2, PlainReplaced
<1>2. CASE StoreLiteral
  <2>1. Doing({"expr"}) /\ agenda' = Tail(Tail(agenda)) /\ Len(agenda) > 1
    BY <1>2 DEF StoreLiteral, Expecting, Initialising, DirectlyUnder
  <2>2. agenda \in Seq(SafeItem) /\ agenda # << >>
    BY <2>1, HandledHead
  <2>3. Tail(agenda) \in Seq(SafeItem)
    BY <2>2, TailItems
  <2>4. Tail(agenda) # << >>
    BY <2>1, <2>2, TailRemains
  <2>5. Plain(Tail(agenda))
    BY <2>2, PlainTail
  <2> QED
    BY <2>1, <2>3, <2>4, <2>5, PlainTail
<1>3. CASE VisitBinary
  <2>1. PICK op \in Operators, t \in Types :
          Replace(<< ExprItem(t), LeftItem(op, t, ThisNode, NextNode) >>)
    BY <1>3 DEF VisitBinary
  <2> DEFINE y == LeftItem(op, t, ThisNode, NextNode)
  <2>2. Doing({"expr"}) /\ t \in ValueType
    BY <1>3, TypesAssumption DEF VisitBinary, Expecting
  <2>3. ExprItem(t) \in SafeItem /\ y \in SafeItem /\ PlainItem(ExprItem(t)) /\ PlainItem(y)
    BY <2>2, HandlersPush, PlainItems
  <2> HIDE DEF y
  <2>4. << ExprItem(t), y >> \in Seq(SafeItem) /\ Plain(<< ExprItem(t), y >>)
    BY <2>3, PlainOnes, TwoItems
  <2> QED
    BY <2>1, <2>2, <2>4, PlainReplaced DEF y
<1>4. CASE PopLeft
  <2> DEFINE item == Head(agenda)
             x == ExprItem(item.type)
             y == RightItem(item.op, item.type, item.node, ThisNode, Top.reg, item.of)
  <2>1. Doing({"left"}) /\ Replace(<< x, y >>) /\ evalStack # << >>
    BY <1>4 DEF PopLeft
  <2>2. item \in SafeItem /\ item.what = "left" /\ ThisNode \in Nat
    BY <2>1, HandledHead DEF ThisNode
  <2>3. x \in SafeItem /\ y \in SafeItem
    BY <2>1, <2>2, Popping, ItemFields, ItemsTyped DEF IInv
  <2>4. PlainItem(x) /\ PlainItem(y)
    BY <2>2, PlainItems
  <2> HIDE DEF x, y
  <2>5. << x, y >> \in Seq(SafeItem) /\ Plain(<< x, y >>)
    BY <2>3, <2>4, PlainOnes, TwoItems
  <2> QED
    BY <2>1, <2>5, PlainReplaced
<1>5. CASE VisitCallOperand
  <2>1. PICK f \in FnNames : Replace(<< CallItem(f, Len(evalStack), 0) >>)
    BY <1>5 DEF VisitCallOperand
  <2>2. Doing({"expr"}) /\ ~NoCalls
    BY <1>5 DEF VisitCallOperand, Expecting, NoCalls
  <2>3. /\ << CallItem(f, Len(evalStack), 0) >> \in Seq(SafeItem)
        /\ Plain(<< CallItem(f, Len(evalStack), 0) >>)
    BY <2>2, HandlersPush, OneItem, PlainItems, PlainOnes
  <2> QED
    BY <2>1, <2>2, <2>3, PlainReplaced
<1>6. CASE VisitArgument
  <2> DEFINE item == Head(agenda)
             y == [item EXCEPT !.count = item.count + 1]
  <2>1. PICK t \in Types : Replace(<< ExprItem(t), y >>)
    BY <1>6 DEF VisitArgument
  <2>2. Doing({"call"}) /\ t \in ValueType
    BY <1>6, TypesAssumption DEF VisitArgument
  <2>3. item \in SafeItem /\ item.what = "call" /\ PlainItem(item)
    BY <2>2, HandledHead, PlainTail
  <2>4. y \in SafeItem /\ y.what = "call"
    BY <2>3 DEF SafeItem, Item, UseKind
  <2>5. PlainItem(y) /\ PlainItem(ExprItem(t)) /\ ExprItem(t) \in SafeItem
    BY <2>2, <2>3, <2>4, HandlersPush, PlainItems DEF PlainItem, Awaiting, UseKind
  <2> HIDE DEF y
  <2>6. << ExprItem(t), y >> \in Seq(SafeItem) /\ Plain(<< ExprItem(t), y >>)
    BY <2>4, <2>5, PlainOnes, TwoItems
  <2> QED
    BY <2>1, <2>2, <2>6, PlainReplaced
<1> QED
  BY <1>1, <1>2, <1>3, <1>4, <1>5, <1>6 DEF Expression

LEMMA NextPlain == IInv /\ PlainInv /\ [Next]_vars => PlainInv'
<1> SUFFICES ASSUME IInv, PlainInv, [Next]_vars PROVE PlainInv'
  OBVIOUS
<1>1. Plain(agenda')
  <2>1. CASE BeginFunction
    <3>1. agenda = << >> /\ (UNCHANGED agenda \/ Enter(<< FnItem >>))
      BY <2>1 DEF BeginFunction
    <3>2. PlainItem(FnItem) /\ << FnItem >> \in Seq(SafeItem)
      BY PlainItems, HandlersPush, OneItem
    <3>3. Plain(<< FnItem >>)
      BY <3>2, PlainOnes
    <3>4. << FnItem >> \o << >> = << FnItem >>
      BY <3>2
    <3> QED
      BY <3>1, <3>3, <3>4 DEF Enter, PlainInv
  <2>2. CASE EndFunction
    <3>1. Doing({"fn"}) /\ Replace(<< >>) /\ << >> \in Seq(SafeItem) /\ Plain(<< >>)
      BY <2>2 DEF EndFunction, Plain
    <3> QED
      BY <3>1, PlainReplaced DEF PlainInv
  <2>3. CASE WriteToDisk \/ Failure \/ Terminated \/ UNCHANGED vars
    BY <2>3 DEF WriteToDisk, Failure, OutOfRegisters, RejectOperator, PopEmpty, Terminated,
       vars, PlainInv
  <2> QED
    BY <2>1, <2>2, <2>3, StatementPlain, ExpressionPlain DEF Next
<1>2. NoCalls => mode' = "None"
  <2> SUFFICES ASSUME NoCalls PROVE mode' = "None"
    OBVIOUS
  <2>1. ~VisitCallStatement /\ ~VisitCallOperand
    BY DEF VisitCallStatement, InBody, VisitCallOperand, Expecting, NoCalls
  <2>2. CASE Statement
    BY <2>1, <2>2 DEF Statement, VisitVarDecl, VisitRet, VisitIf, VisitExprStatement, VisitUse,
       VisitAssign, EndVarDecl, EndRet, BeginIf, EndIf, EndExprStatement, visitedOnly,
       allocatorVars, PlainInv
  <2>3. CASE Expression
    BY <2>1, <2>3 DEF Expression, VisitLiteral, VisitString, VisitIdentifier, StoreLiteral,
       VisitBinary, PopLeft, ApplyOperator, VisitArgument, EndCall, GetAndPush, visitedOnly,
       end_call_prepare, allocatorVars, PlainInv
  <2>4. CASE ~Statement /\ ~Expression
    BY <2>4 DEF Next, BeginFunction, EndFunction, WriteToDisk, Failure, OutOfRegisters,
       RejectOperator, PopEmpty, Terminated, vars, allocatorVars, PlainInv
  <2> QED
    BY <2>2, <2>3, <2>4
<1> QED
  BY <1>1, <1>2 DEF PlainInv

-----------------------------------------------------------------------------
(* The invariant: each operand still to be used has an allocated register  *)
(* of its own, and that register contains its value unless an instruction  *)
(* has named another register than meant.  Where programs have no calls,   *)
(* RDX stays reserved for the division.                                    *)

Kept(operands, alloc, cont, lost) ==
  \A o \in operands : o.reg \in alloc /\ (~lost => cont[o.reg] = o.node)

HeldWith(s, gone, a, alloc, cont, lost) ==
  /\ Kept(LiveOn(s, gone) \cup LeftsIn(a), alloc, cont, lost)
  /\ \A o \in LeftsIn(a) : Differs(LiveOn(s, gone), o.reg)
  /\ OwnRegisters(s, gone) /\ OwnLefts(a)

RemainderReserved(s, gone, a, alloc) ==
  NoCalls => RDX \in alloc /\ Differs(LiveOn(s, gone) \cup LeftsIn(a), RDX)

HeldInv ==
  status = "running" =>
    /\ HeldWith(evalStack, abandoned, agenda, allocated, contents, misencoded)
    /\ RemainderReserved(evalStack, abandoned, agenda, allocated)

(* Nothing is still to be used.                                            *)
Quiet(s, gone, a) == LiveIndices(s, gone) = {} /\ LeftIndices(a) = {}

LEMMA QuietHolds ==
  ASSUME NEW s, NEW gone, NEW a, Quiet(s, gone, a), NEW alloc, NEW cont, NEW lost
  PROVE /\ HeldWith(s, gone, a, alloc, cont, lost)
        /\ (NoCalls => RDX \in alloc) => RemainderReserved(s, gone, a, alloc)
<1>1. LiveOn(s, gone) = {} /\ LeftsIn(a) = {}
  BY DEF Quiet, LiveOn, LeftsIn
<1>2. OwnRegisters(s, gone) /\ OwnLefts(a)
  BY DEF Quiet, OwnRegisters, OwnLefts
<1> QED
  BY <1>1, <1>2 DEF HeldWith, Kept, RemainderReserved, Differs

LEMMA QuietBodies ==
  ASSUME NEW a \in Seq(SafeItem), OnlyBodies(a), NEW s, NEW gone \in Nat, Len(s) = gone
  PROVE Quiet(s, gone, a)
<1>1. LiveIndices(s, gone) = {}
  BY DEF LiveIndices
<1>2. LeftIndices(a) = {}
  BY Kinds DEF OnlyBodies, LeftIndices
<1> QED
  BY <1>1, <1>2 DEF Quiet

(* The head goes, and was not a left operand.                              *)
LEMMA HeadGoes ==
  ASSUME NEW a \in Seq(SafeItem), a # << >>, Head(a).what # "right"
  PROVE /\ LeftsIn(Tail(a)) = LeftsIn(a) /\ (OwnLefts(Tail(a)) <=> OwnLefts(a))
        /\ LeftCount(Tail(a)) = LeftCount(a)
<1>1. LeftsIn(Tail(a)) = LeftsIn(a)
  BY LeftsOfTail
<1>2. OwnLefts(Tail(a)) <=> OwnLefts(a)
  BY LeftsOfTail
<1>3. LeftCount(Tail(a)) = LeftCount(a)
  <2> DEFINE m == LeftCount(Tail(a))
             n == LeftCount(a)
  <2>1. n = m + (IF Head(a).what = "right" THEN 1 ELSE 0) /\ m \in Nat
    BY LeftsOfTail, Zenon
  <2> HIDE DEF m, n
  <2>2. n = m
    BY <2>1
  <2> QED
    BY <2>2 DEF m, n
<1> QED
  BY <1>1, <1>2, <1>3

(* Items that are not left operands, put before others.                    *)
LEMMA NoLeftsAdded ==
  ASSUME NEW x \in SafeItem, NEW a \in Seq(SafeItem), x.what # "right"
  PROVE /\ << x >> \o a \in Seq(SafeItem)
        /\ LeftsIn(<< x >> \o a) = LeftsIn(a)
        /\ OwnLefts(<< x >> \o a) <=> OwnLefts(a)
        /\ LeftCount(<< x >> \o a) = LeftCount(a)
        /\ LeftIndices(a) = {} => LeftIndices(<< x >> \o a) = {}
<1> DEFINE b == << x >> \o a
<1>1. b \in Seq(SafeItem) /\ b # << >> /\ Head(b) = x /\ Tail(b) = a
  OBVIOUS
<1> HIDE DEF b
<1>2. /\ LeftsIn(b) = LeftsIn(a) /\ (OwnLefts(b) <=> OwnLefts(a))
      /\ LeftCount(b) = LeftCount(a)
  BY <1>1, HeadGoes
<1>3. ASSUME LeftIndices(a) = {} PROVE LeftIndices(b) = {}
  <2> SUFFICES ASSUME NEW i \in LeftIndices(b) PROVE FALSE
    OBVIOUS
  <2>1. LeftsIn(b) # {} /\ LeftsIn(a) = {}
    BY <1>3 DEF LeftsIn
  <2> QED
    BY <1>2, <2>1
<1> QED
  BY <1>1, <1>2, <1>3 DEF b

LEMMA TwoNoLefts ==
  ASSUME NEW x \in SafeItem, NEW y \in SafeItem, NEW a \in Seq(SafeItem),
         x.what # "right", y.what # "right"
  PROVE /\ LeftsIn(<< x, y >> \o a) = LeftsIn(a)
        /\ OwnLefts(<< x, y >> \o a) <=> OwnLefts(a)
        /\ LeftCount(<< x, y >> \o a) = LeftCount(a)
        /\ LeftIndices(a) = {} => LeftIndices(<< x, y >> \o a) = {}
<1>1. << x, y >> \o a = << x >> \o (<< y >> \o a)
  BY TwoItems
<1> DEFINE b == << y >> \o a
<1>2. /\ b \in Seq(SafeItem) /\ LeftsIn(b) = LeftsIn(a) /\ (OwnLefts(b) <=> OwnLefts(a))
      /\ LeftCount(b) = LeftCount(a) /\ (LeftIndices(a) = {} => LeftIndices(b) = {})
  BY NoLeftsAdded
<1> HIDE DEF b
<1>3. /\ LeftsIn(<< x >> \o b) = LeftsIn(b) /\ (OwnLefts(<< x >> \o b) <=> OwnLefts(b))
      /\ LeftCount(<< x >> \o b) = LeftCount(b)
      /\ (LeftIndices(b) = {} => LeftIndices(<< x >> \o b) = {})
  BY <1>2, NoLeftsAdded
<1> QED
  BY <1>1, <1>2, <1>3 DEF b

LEMMA SplitStack ==
  ASSUME IInv, evalStack # << >>
  PROVE /\ Popped \in Seq(SafeOperand) /\ Top \in SafeOperand
        /\ Len(Popped) = Len(evalStack) - 1
        /\ evalStack = Append(Popped, Top)
<1>1. /\ Popped \in Seq(SafeOperand) /\ Len(evalStack) \in Nat \ {0}
      /\ Len(Popped) = Len(evalStack) - 1
      /\ \A j \in 1 .. Len(Popped) : Popped[j] = evalStack[j]
  BY PoppedShape
<1>2. Top \in SafeOperand /\ Top = evalStack[Len(evalStack)] /\ evalStack \in Seq(SafeOperand)
  BY Popping DEF IInv, AllocatorInv, Top
<1> DEFINE k == Len(evalStack) - 1
           q == Append(Popped, Top)
<1> HIDE DEF Popped, Top
<1>3. /\ q \in Seq(SafeOperand) /\ Len(q) = Len(evalStack)
      /\ \A i \in 1 .. k : q[i] = evalStack[i]
      /\ q[Len(evalStack)] = Top
  BY <1>1, <1>2
<1>4. \A i \in 1 .. Len(evalStack) : i \in 1 .. k \/ i = Len(evalStack)
  BY <1>1
<1> HIDE DEF q
<1>5. evalStack = q
  BY <1>2, <1>3, <1>4, SeqEqual
<1> QED
  BY <1>1, <1>2, <1>5 DEF q

(* While an expression is visited the abandoned entries are below it.      *)
LEMMA GoneBelow ==
  ASSUME NEW a \in Seq(SafeItem), NEW gone \in Nat, NEW k \in Nat,
         Held(CallsOn(a), gone, k, 1)
  PROVE gone <= k
<1>1. CASE CallsOn(a) = {}
  BY <1>1 DEF Held
<1>2. CASE CallsOn(a) # {}
  <2>1. PICK c \in CallsOn(a) : TRUE
    BY <1>2
  <2>2. c \in SafeItem /\ c.what = "call"
    BY <2>1 DEF CallsOn
  <2>3. c.count \in Nat
    BY <2>2 DEF SafeItem, Item, UseKind
  <2>4. k + 1 = gone + c.count /\ c.count # 0
    BY <2>1 DEF Held
  <2> QED
    BY <2>3, <2>4
<1> QED
  BY <1>1, <1>2

(* A visit that pops finds the value it waits for.                         *)
LEMMA TopIsLive ==
  ASSUME IInv, BalanceInv, HeldInv, NEW what, Doing(what), what \subseteq Awaiting,
         evalStack # << >>
  PROVE /\ Top.node = Head(agenda).of
        /\ abandoned \in Nat /\ abandoned <= Len(Popped)
        /\ LiveOn(evalStack, abandoned) = LiveOn(Popped, abandoned) \cup {Top}
        /\ OwnRegisters(Popped, abandoned) /\ Differs(LiveOn(Popped, abandoned), Top.reg)
        /\ Top.reg \in allocated /\ (~misencoded => contents[Top.reg] = Top.node)
        /\ NoCalls => Top.reg # RDX
        /\ LiveCount(evalStack, abandoned) = LiveCount(Popped, abandoned) + 1
        /\ LiveCount(Popped, abandoned) \in Nat
<1>1. /\ agenda \in Seq(SafeItem) /\ agenda # << >> /\ status = "running"
      /\ Head(agenda).what \in Awaiting /\ Waits(agenda) /\ Visiting(agenda) = 1
      /\ abandoned \in Nat
  BY HandledHead, Kinds DEF Waits, Visiting, IInv, CountersInv
<1>2. Top.node = Head(agenda).of /\ Held(CallsOn(agenda), abandoned, Len(evalStack) - 1, 1)
  BY <1>1 DEF BalanceInv, Poised, Top
<1>3. /\ Popped \in Seq(SafeOperand) /\ Top \in SafeOperand /\ evalStack = Append(Popped, Top)
      /\ Len(Popped) = Len(evalStack) - 1
  BY SplitStack
<1>4. HeldWith(evalStack, abandoned, agenda, allocated, contents, misencoded)
      /\ RemainderReserved(evalStack, abandoned, agenda, allocated)
  BY <1>1 DEF HeldInv
<1> HIDE DEF Popped, Top
<1>5. abandoned <= Len(Popped)
  <2>1. Len(Popped) \in Nat /\ Held(CallsOn(agenda), abandoned, Len(Popped), 1)
    BY <1>2, <1>3
  <2> QED
    BY <1>1, <2>1, GoneBelow
<1>6. /\ LiveOn(evalStack, abandoned) = LiveOn(Popped, abandoned) \cup {Top}
      /\ OwnRegisters(evalStack, abandoned)
           <=> OwnRegisters(Popped, abandoned) /\ Differs(LiveOn(Popped, abandoned), Top.reg)
      /\ LiveCount(evalStack, abandoned) = LiveCount(Popped, abandoned) + 1
      /\ LiveCount(Popped, abandoned) \in Nat
  BY <1>1, <1>3, <1>5, LiveOfAppended
<1> QED
  BY <1>1, <1>2, <1>4, <1>5, <1>6 DEF HeldWith, Kept, RemainderReserved, Differs

-----------------------------------------------------------------------------
(* The steps that start and end statements leave nothing to be used.       *)

(* RDX is reserved, or there are calls and no division.                    *)
DivisionApart == NoCalls \/ Operators \cap Division = {}

(* What the other invariants give, for programs whose calls are statements.*)
Settings ==
  /\ IInv /\ BalanceInv /\ PlainInv /\ HeldInv
  /\ CallsAreStatements /\ DivisionApart

LEMMA QuietKeeps ==
  ASSUME Quiet(evalStack', abandoned', agenda'), NoCalls => RDX \in allocated'
  PROVE HeldInv'
BY QuietHolds DEF HeldInv

LEMMA RemainderTaken ==
  ASSUME Settings, NEW what, Doing(what), NoCalls
  PROVE RDX \in allocated
BY DEF Settings, HeldInv, RemainderReserved, Doing

LEMMA BodiesRemain ==
  ASSUME IInv', BalanceInv', OnlyBodies(agenda'), NoCalls => RDX \in allocated'
  PROVE HeldInv'
<1>1. CASE status' = "running"
  <2>1. agenda' \in Seq(SafeItem)
    BY DEF IInv, ControlInv
  <2>2. Len(evalStack') = abandoned' /\ abandoned' \in Nat
    BY <1>1, <2>1, Settled DEF BalanceInv, IInv, CountersInv
  <2>3. Quiet(evalStack', abandoned', agenda')
    BY <2>1, <2>2, QuietBodies
  <2> QED
    BY <2>3, QuietKeeps
<1>2. CASE status' # "running"
  BY <1>2 DEF HeldInv
<1> QED
  BY <1>1, <1>2

LEMMA ClosingBodies ==
  ASSUME IInv, BalanceInv, NEW what, Doing(what), what \subseteq ControlKind,
         Replace(<< >>)
  PROVE OnlyBodies(agenda')
<1>1. /\ agenda \in Seq(SafeItem) /\ agenda # << >> /\ status = "running"
      /\ Head(agenda).what \in ControlKind /\ Tail(agenda) \in Seq(SafeItem)
  BY HandledHead
<1>2. OnlyBodies(Tail(agenda))
  BY <1>1, TailNested DEF BalanceInv
<1> QED
  BY <1>1, <1>2, NoItems DEF Replace

LEMMA StatementStartsHeld ==
  ASSUME Settings, Doing(BodyKind), NEW t \in ValueType, NEW y \in SafeItem,
         y.what # "right", Enter(<< ExprItem(t), y >>),
         UNCHANGED << allocated, evalStack, abandoned >>
  PROVE HeldInv'
<1>1. agenda \in Seq(SafeItem) /\ ExprItem(t) \in SafeItem /\ ExprItem(t).what # "right"
  BY HandledHead, HandlersPush, ItemFieldsByName DEF Settings
<1>2. OnlyBodies(agenda) /\ Len(evalStack) = abandoned /\ abandoned \in Nat
  BY AtBody DEF Settings, IInv, CountersInv
<1>3. Quiet(evalStack, abandoned, agenda)
  BY <1>1, <1>2, QuietBodies
<1>4. Quiet(evalStack', abandoned', agenda')
  BY <1>1, <1>3, TwoNoLefts DEF Quiet, Enter
<1> QED
  BY <1>4, QuietKeeps, RemainderTaken

LEMMA StatementsHeld ==
  ASSUME Settings, IInv', BalanceInv', Statement
  PROVE HeldInv'
<1>1. CASE VisitVarDecl \/ VisitRet \/ VisitIf \/ VisitExprStatement
  <2>1. Doing(BodyKind) /\ UNCHANGED << allocated, evalStack, abandoned >>
    BY <1>1 DEF VisitVarDecl, VisitRet, VisitIf, VisitExprStatement, VisitUse, InBody,
       visitedOnly, allocatorVars, historyVars
  <2>2. CASE VisitVarDecl
    <3>1. PICK n \in Names, t \in Types :
            Enter(<< ExprItem(t), LetItem(n, t, NextNode) >>)
      BY <2>2 DEF VisitVarDecl
    <3>2. LetItem(n, t, NextNode).what # "right" /\ LetItem(n, t, NextNode) \in SafeItem
      BY ItemFieldsByName, HandlersPush DEF Settings
    <3> QED
      BY <2>1, <3>1, <3>2, StatementStartsHeld, TypesAssumption
  <2>3. CASE VisitRet \/ VisitIf \/ VisitExprStatement
    <3>1. /\ Types \subseteq ValueType /\ {"bool"} \subseteq ValueType
          /\ {"ret", "test", "discard"} \subseteq UseKind
      BY TypesAssumption DEF ValueType, UseKind
    <3>2. \E what \in UseKind, t \in ValueType :
            Enter(<< ExprItem(t), UseItem(what, NextNode) >>)
      BY <2>3, <3>1 DEF VisitRet, VisitIf, VisitExprStatement, VisitUse
    <3>3. PICK what \in UseKind, t \in ValueType :
            Enter(<< ExprItem(t), UseItem(what, NextNode) >>)
      BY <3>2
    <3>4. UseItem(what, NextNode) \in SafeItem /\ UseItem(what, NextNode).what = what
      BY HandlersPush DEF UseItem, Settings
    <3> QED
      BY <2>1, <3>3, <3>4, Kinds, StatementStartsHeld
  <2> QED
    BY <1>1, <2>2, <2>3
<1>2. CASE VisitAssign
  <2>1. Doing(BodyKind) /\ UNCHANGED << allocated, evalStack, agenda >>
    BY <1>2 DEF VisitAssign, InBody, visitedOnly, allocatorVars
  <2>2. OnlyBodies(agenda')
    BY <2>1, AtBody DEF Settings
  <2> QED
    BY <2>1, <2>2, BodiesRemain, RemainderTaken
<1>3. CASE VisitCallStatement
  <2>1. PICK f \in FnNames : BeginCall(f) /\ Enter(<< CallItem(f, Len(evalStack), 0) >>)
    BY <1>3 DEF VisitCallStatement
  <2>2. Doing(BodyKind) /\ UNCHANGED << evalStack, abandoned >> /\ ~NoCalls
    BY <1>3, <2>1 DEF VisitCallStatement, InBody, BeginCall, NoCalls, historyVars
  <2>3. /\ agenda \in Seq(SafeItem) /\ CallItem(f, Len(evalStack), 0) \in SafeItem
        /\ CallItem(f, Len(evalStack), 0).what # "right"
    BY <2>2, HandledHead, HandlersPush, ItemFieldsByName DEF Settings
  <2>4. Quiet(evalStack, abandoned, agenda)
    BY <2>2, <2>3, AtBody, QuietBodies DEF Settings, IInv, CountersInv
  <2>5. Quiet(evalStack', abandoned', agenda')
    BY <2>1, <2>2, <2>3, <2>4, NoLeftsAdded DEF Quiet, Enter
  <2> QED
    BY <2>2, <2>5, QuietKeeps
<1>4. CASE EndVarDecl
  <2>1. /\ Doing({"let"}) /\ evalStack # << >> /\ Replace(<< >>)
        /\ allocated' = Freed(allocated, Top.reg)
    BY <1>4 DEF EndVarDecl
  <2>2. OnlyBodies(agenda')
    BY <2>1, ClosingBodies, Kinds DEF Settings
  <2>3. NoCalls => Top.reg # RDX
    BY <2>1, TopIsLive, Kinds DEF Settings
  <2>4. NoCalls => RDX \in allocated'
    BY <2>1, <2>3, RemainderTaken DEF Freed
  <2> QED
    BY <2>2, <2>4, BodiesRemain
<1>5. CASE EndRet \/ EndExprStatement \/ EndIf
  <2>1. PICK what \in {{"ret"}, {"discard"}, {"if"}} :
          Doing(what) /\ Replace(<< >>) /\ UNCHANGED allocated
    BY <1>5 DEF EndRet, EndExprStatement, EndIf, allocatorVars
  <2>2. OnlyBodies(agenda')
    BY <2>1, ClosingBodies, Kinds DEF Settings
  <2> QED
    BY <2>1, <2>2, BodiesRemain, RemainderTaken
<1>6. CASE BeginIf
  <2>1. PICK at : Doing({"test"}) /\ Replace(<< IfItem(at) >>) /\ UNCHANGED allocated
    BY <1>6 DEF BeginIf
  <2>2. OnlyBodies(Tail(agenda)) /\ Tail(agenda) \in Seq(SafeItem)
    BY <2>1, HandledHead, AtStatementEnd DEF Settings, UseKind
  <2>3. agenda' = << IfItem(at) >> \o Tail(agenda) /\ IfItem(at).what \in BodyKind
    BY <2>1, ItemFieldsByName, Kinds DEF Replace
  <2>4. OnlyBodies(agenda')
    <3>1. \A i \in 1 .. Len(agenda') :
            agenda'[i] = IF i = 1 THEN IfItem(at) ELSE Tail(agenda)[i - 1]
      BY <2>2, <2>3
    <3>2. \A i \in 1 .. Len(agenda') : i # 1 => i - 1 \in 1 .. Len(Tail(agenda))
      BY <2>2, <2>3
    <3> QED
      BY <2>2, <2>3, <3>1, <3>2 DEF OnlyBodies
  <2> QED
    BY <2>1, <2>4, BodiesRemain, RemainderTaken
<1> QED
  BY <1>1, <1>2, <1>3, <1>4, <1>5, <1>6 DEF Statement

LEMMA OthersHeld ==
  ASSUME Settings, IInv', BalanceInv', BeginFunction \/ EndFunction \/ WriteToDisk \/ Failure
  PROVE HeldInv'
<1>1. CASE BeginFunction
  <2>1. /\ agenda = << >> /\ status = "running" /\ UNCHANGED << allocated, evalStack >>
        /\ status' = "threw" \/ Enter(<< FnItem >>)
    BY <1>1 DEF BeginFunction, allocatorVars
  <2>2. CASE Enter(<< FnItem >>)
    <3>1. << FnItem >> \in Seq(SafeItem) /\ << FnItem >>[1].what = "fn"
      BY HandlersPush, OneItem, ItemFieldsByName DEF Settings
    <3>2. agenda' = << FnItem >> /\ Len(agenda') = 1
      BY <2>1, <2>2, <3>1 DEF Enter
    <3>3. OnlyBodies(agenda')
      BY <3>1, <3>2, Kinds DEF OnlyBodies
    <3>4. NoCalls => RDX \in allocated'
      BY <2>1 DEF Settings, HeldInv, RemainderReserved
    <3> QED
      BY <3>3, <3>4, BodiesRemain
  <2> QED
    BY <2>1, <2>2 DEF HeldInv
<1>2. CASE EndFunction
  <2>1. Doing({"fn"}) /\ Replace(<< >>) /\ UNCHANGED allocated
    BY <1>2 DEF EndFunction, allocatorVars
  <2>2. OnlyBodies(agenda')
    BY <2>1, ClosingBodies, Kinds DEF Settings
  <2> QED
    BY <2>1, <2>2, BodiesRemain, RemainderTaken
<1>3. CASE WriteToDisk \/ Failure
  BY <1>3 DEF WriteToDisk, Failure, OutOfRegisters, RejectOperator, PopEmpty, HeldInv
<1> QED
  BY <1>1, <1>2, <1>3

-----------------------------------------------------------------------------
(* The visits of expressions.                                              *)

LEMMA OperandsSafe ==
  ASSUME NEW s \in Seq(SafeOperand), NEW gone \in Nat, NEW a \in Seq(SafeItem)
  PROVE \A o \in LiveOn(s, gone) \cup LeftsIn(a) : o.reg \in Register \ {RAX, RSP}
<1>1. ASSUME NEW i \in LiveIndices(s, gone) PROVE s[i].reg \in Register \ {RAX, RSP}
  <2>1. s[i] \in SafeOperand
    BY DEF LiveIndices
  <2> QED
    BY <2>1 DEF SafeOperand
<1>2. ASSUME NEW i \in LeftIndices(a)
      PROVE Operand(a[i].left, a[i].leftNode).reg \in Register \ {RAX, RSP}
  <2>1. a[i] \in SafeItem /\ a[i].what = "right"
    BY DEF LeftIndices
  <2> QED
    BY <2>1, ItemFields DEF Operand
<1> QED
  BY <1>1, <1>2 DEF LiveOn, LeftsIn

(* What the code of a leaf does to the registers.                          *)
LEMMA LeafMoves ==
  ASSUME IInv, NEW r \in Register, NEW node,
         contents' \in {Moved(r, node), Addressed(r, node)}, Misencode(r > RDI), ~misencoded'
  PROVE ~misencoded /\ contents' = [contents EXCEPT ![r] = node]
<1>1. (r > RDI) \in BOOLEAN /\ contents \in [Register -> Nat] /\ misencoded \in BOOLEAN
  BY DEF IInv, ContentsInv
<1>2. ~misencoded /\ ~(r > RDI)
  BY <1>1 DEF Misencode
<1>3. Moved(r, node) = [contents EXCEPT ![r] = node]
  BY <1>2 DEF Moved, Encoded
<1>4. Addressed(r, node) = [contents EXCEPT ![r] = node]
  BY <1>1, <1>2 DEF Addressed
<1> QED
  BY <1>2, <1>3, <1>4

LEMMA LeafHeld ==
  ASSUME Settings, Doing({"expr"}), NEW r \in Register, GetAndPush(r, ThisNode),
         Replace(<< >>), UNCHANGED abandoned,
         ~misencoded' => ~misencoded /\ contents' = [contents EXCEPT ![r] = ThisNode]
  PROVE HeldInv'
<1> DEFINE e == Operand(r, ThisNode)
           old == LiveOn(evalStack, abandoned)
           new == LiveOn(evalStack', abandoned')
<1>1. /\ agenda \in Seq(SafeItem) /\ agenda # << >> /\ Head(agenda).what = "expr"
      /\ status = "running" /\ evalStack \in Seq(SafeOperand) /\ agenda' = Tail(agenda)
      /\ IInv /\ nodes \in Nat /\ abandoned \in Nat
  BY HandledHead, NoItems DEF Replace, Settings, IInv, CountersInv
<1>2. LeftsIn(agenda') = LeftsIn(agenda) /\ (OwnLefts(agenda') <=> OwnLefts(agenda))
  BY <1>1, HeadGoes
<1>3. /\ r \notin allocated /\ allocated' = allocated \cup {r} /\ RDX \in Register
      /\ evalStack' = Append(evalStack, e)
      /\ allocated \subseteq Register /\ contents \in [Register -> Nat]
  BY <1>1, Reserved DEF GetAndPush, Grants, Candidates, IInv, AllocatorInv, ContentsInv
<1>4. e \in SafeOperand /\ e.reg = r /\ e.node = ThisNode
  <2>1. r \in Register \ {RAX, RSP} /\ ThisNode \in Nat
    BY <1>1, GrantsSafeRegister DEF GetAndPush, IInv, ThisNode
  <2> QED
    BY <2>1 DEF Operand, SafeOperand
<1>5. /\ HeldWith(evalStack, abandoned, agenda, allocated, contents, misencoded)
      /\ RemainderReserved(evalStack, abandoned, agenda, allocated)
  BY <1>1 DEF Settings, HeldInv
<1>6. abandoned <= Len(evalStack)
  <2>1. Held(CallsOn(agenda), abandoned, Len(evalStack), 1)
    BY <1>1, Kinds DEF Settings, BalanceInv, Poised, Waits, Visiting
  <2> QED
    BY <1>1, <2>1, GoneBelow
<1> HIDE DEF e
<1>7. /\ new = old \cup {e}
      /\ OwnRegisters(evalStack', abandoned') <=>
           OwnRegisters(evalStack, abandoned) /\ Differs(old, r)
  BY <1>1, <1>3, <1>4, <1>6, LiveOfAppended
<1> HIDE DEF old, new
<1>8. \A o \in old \cup LeftsIn(agenda) :
        o.reg \in allocated /\ o.reg # r /\ (~misencoded => contents[o.reg] = o.node)
  BY <1>3, <1>5 DEF HeldWith, Kept, old
<1>9. HeldWith(evalStack', abandoned', agenda', allocated', contents', misencoded')
  <2>1. Kept(new \cup LeftsIn(agenda'), allocated', contents', misencoded')
    <3> SUFFICES ASSUME NEW o \in new \cup LeftsIn(agenda')
                 PROVE o.reg \in allocated' /\ (~misencoded' => contents'[o.reg] = o.node)
      BY DEF Kept
    <3>1. CASE o = e
      BY <1>3, <1>4, <3>1
    <3>2. CASE o \in old \cup LeftsIn(agenda)
      BY <1>3, <1>8, <3>2
    <3> QED
      BY <1>2, <1>7, <3>1, <3>2
  <2>2. \A o \in LeftsIn(agenda') : Differs(new, o.reg)
    BY <1>2, <1>4, <1>5, <1>7, <1>8 DEF HeldWith, Differs, old
  <2>3. OwnRegisters(evalStack', abandoned') /\ OwnLefts(agenda')
    BY <1>2, <1>5, <1>7, <1>8 DEF HeldWith, Differs
  <2> QED
    BY <2>1, <2>2, <2>3 DEF HeldWith, new
<1>10. RemainderReserved(evalStack', abandoned', agenda', allocated')
  BY <1>2, <1>3, <1>4, <1>5, <1>7 DEF RemainderReserved, Differs, old, new
<1> QED
  BY <1>9, <1>10 DEF HeldInv

LEMMA StoreLiteralHeld ==
  ASSUME Settings, IInv', BalanceInv', StoreLiteral
  PROVE HeldInv'
<1> DEFINE b == Tail(agenda)
<1>1. Doing({"expr"}) /\ agenda' = Tail(b) /\ UNCHANGED allocated
  BY DEF StoreLiteral, Expecting, allocatorVars
<1>2. agenda \in Seq(SafeItem) /\ b \in Seq(SafeItem)
  BY <1>1, HandledHead DEF Settings
<1>3. b # << >> /\ Head(b).what = "let"
  BY <1>2, TailRemains DEF StoreLiteral, Initialising, DirectlyUnder
<1>4. Nested(b, 0)
  BY <1>1, AtExpression DEF Settings
<1>5. OnlyBodies(agenda')
  BY <1>1, <1>2, <1>3, <1>4, TailNested, Kinds
<1> QED
  BY <1>1, <1>5, BodiesRemain, RemainderTaken

(* The visits that only put others on the agenda.                          *)
LEMMA TwoVisitsHeld ==
  ASSUME Settings, NEW what, Doing(what), "right" \notin what,
         NEW x \in SafeItem, NEW y \in SafeItem, x.what # "right", y.what # "right",
         Replace(<< x, y >>),
         UNCHANGED << allocated, evalStack, contents, abandoned, misencoded >>
  PROVE HeldInv'
<1>1. /\ agenda \in Seq(SafeItem) /\ agenda # << >> /\ Head(agenda).what # "right"
      /\ status = "running" /\ Tail(agenda) \in Seq(SafeItem)
  BY HandledHead DEF Settings
<1>2. /\ LeftsIn(agenda') = LeftsIn(agenda)
      /\ OwnLefts(agenda') <=> OwnLefts(agenda)
  BY <1>1, HeadGoes, TwoNoLefts DEF Replace
<1>3. /\ HeldWith(evalStack, abandoned, agenda, allocated, contents, misencoded)
      /\ RemainderReserved(evalStack, abandoned, agenda, allocated)
  BY <1>1 DEF Settings, HeldInv
<1>4. HeldWith(evalStack', abandoned', agenda', allocated', contents', misencoded')
  BY <1>2, <1>3 DEF HeldWith
<1>5. RemainderReserved(evalStack', abandoned', agenda', allocated')
  BY <1>2, <1>3 DEF RemainderReserved
<1> QED
  BY <1>4, <1>5 DEF HeldInv

LEMMA PopLeftHeld ==
  ASSUME Settings, PopLeft
  PROVE HeldInv'
<1> DEFINE item == Head(agenda)
           a == Tail(agenda)
           x == ExprItem(item.type)
           y == RightItem(item.op, item.type, item.node, ThisNode, Top.reg, item.of)
           b == << y >> \o a
           moved == Operand(Top.reg, item.of)
<1>1. /\ Doing({"left"}) /\ evalStack # << >> /\ evalStack' = Popped
      /\ Replace(<< x, y >>)
      /\ UNCHANGED << allocated, contents, abandoned, misencoded >>
  BY DEF PopLeft, historyVars
<1>2. /\ agenda \in Seq(SafeItem) /\ agenda # << >> /\ item \in SafeItem
      /\ item.what = "left" /\ a \in Seq(SafeItem) /\ nodes \in Nat
      /\ status = "running"
  BY <1>1, HandledHead DEF Settings
<1>3. x \in SafeItem /\ y \in SafeItem
  <2>1. Top.reg \in Register \ {RAX, RSP} /\ ThisNode \in Nat
    BY <1>1, <1>2, Popping DEF Settings, IInv, ThisNode
  <2> QED
    BY <1>2, <2>1, ItemFields, ItemsTyped
<1>4. /\ x.what = "expr" /\ y.what = "right" /\ y.left = Top.reg /\ y.leftNode = item.of
      /\ moved.reg = Top.reg /\ moved.node = item.of
  BY DEF ExprItem, RightItem, Operand
<1>5. /\ Top.node = item.of
      /\ LiveOn(evalStack, abandoned) = LiveOn(Popped, abandoned) \cup {Top}
      /\ OwnRegisters(Popped, abandoned) /\ Differs(LiveOn(Popped, abandoned), Top.reg)
      /\ Top.reg \in allocated /\ (~misencoded => contents[Top.reg] = Top.node)
      /\ NoCalls => Top.reg # RDX
  BY <1>1, TopIsLive, Kinds DEF Settings
<1>6. /\ HeldWith(evalStack, abandoned, agenda, allocated, contents, misencoded)
      /\ RemainderReserved(evalStack, abandoned, agenda, allocated)
  BY <1>2 DEF Settings, HeldInv
<1>7. LeftsIn(agenda) = LeftsIn(a) /\ (OwnLefts(agenda) <=> OwnLefts(a))
  BY <1>2, HeadGoes
<1> HIDE DEF a, x, y, item, Top, Popped
<1>8. agenda' = << x >> \o b
  BY <1>1, <1>2, <1>3, TwoItems DEF Replace, a
<1>9. b \in Seq(SafeItem) /\ b # << >> /\ Head(b) = y /\ Tail(b) = a
  BY <1>2, <1>3
<1> HIDE DEF b, moved
<1>10. LeftsIn(b) = LeftsIn(a) \cup {moved}
  BY <1>4, <1>9, LeftsOfTail DEF moved
<1>11. OwnLefts(b) <=> OwnLefts(a) /\ Differs(LeftsIn(a), Top.reg)
  BY <1>4, <1>9, LeftsOfTail
<1>12. LeftsIn(agenda') = LeftsIn(b) /\ (OwnLefts(agenda') <=> OwnLefts(b))
  BY <1>3, <1>4, <1>8, <1>9, NoLeftsAdded
<1>13. Differs(LeftsIn(a), Top.reg)
  BY <1>5, <1>6, <1>7 DEF HeldWith, Differs
<1>14. HeldWith(evalStack', abandoned', agenda', allocated', contents', misencoded')
  <2> DEFINE rest == LiveOn(Popped, abandoned)
  <2>1. Kept(rest \cup LeftsIn(a) \cup {moved}, allocated, contents, misencoded)
    BY <1>4, <1>5, <1>6, <1>7 DEF HeldWith, Kept
  <2>2. \A o \in LeftsIn(a) \cup {moved} : Differs(rest, o.reg)
    BY <1>4, <1>5, <1>6, <1>7 DEF HeldWith, Differs
  <2>3. OwnRegisters(Popped, abandoned) /\ OwnLefts(b)
    BY <1>5, <1>6, <1>7, <1>11, <1>13 DEF HeldWith
  <2>4. rest \cup LeftsIn(a) \cup {moved} = rest \cup LeftsIn(b)
    BY <1>10
  <2> QED
    BY <1>1, <1>10, <1>12, <2>1, <2>2, <2>3, <2>4 DEF HeldWith
<1>15. RemainderReserved(evalStack', abandoned', agenda', allocated')
  BY <1>1, <1>4, <1>5, <1>6, <1>7, <1>10, <1>12 DEF RemainderReserved, Differs
<1> QED
  BY <1>14, <1>15 DEF HeldInv

(* An operator whose instructions name the registers that are meant.       *)
LEMMA NamedEffect ==
  ASSUME NEW op, NEW ty, NEW left \in Register, NEW right \in Register, NEW result,
         ~Misnames(op, ty, left, right),
         contents' = ContentsAfter(op, ty, left, right, result)
  PROVE contents' = [r \in Register |->
                       IF r = right THEN result
                       ELSE IF op \in Division /\ r \in {RAX, RDX} THEN 0
                       ELSE IF op = "Minus" /\ r = left THEN result
                       ELSE contents[r]]
<1>1. ~(left > RDI) /\ ~(right > RDI)
  BY DEF Misnames
<1>2. (IF MovesByte(op, ty) THEN ByteTarget(right) ELSE right) = right
  BY DEF Misnames, ByteTarget
<1> QED
  BY <1>1, <1>2 DEF ContentsAfter, Effect

(* The operator finds both operands in their registers, and its code       *)
(* leaves those of all others alone.                                       *)
LEMMA ApplyOperatorHeld ==
  ASSUME Settings, ApplyOperator
  PROVE HeldInv'
<1> DEFINE item == Head(agenda)
           a == Tail(agenda)
           left == item.left
           right == Top.reg
           result == ResultOf(item.op, left, right, item.leftNode, item.of, item.node)
           e == Operand(right, item.node)
           rest == LiveOn(Popped, abandoned)
           others == rest \cup LeftsIn(a)
           wrong == Misnames(item.op, item.type, left, right)
<1>1. /\ Doing({"right"}) /\ evalStack # << >> /\ evalStack' = Append(Popped, e)
      /\ Replace(<< >>) /\ allocated' = Freed(allocated, left) /\ UNCHANGED abandoned
      /\ contents' = ContentsAfter(item.op, item.type, left, right, result)
      /\ Misencode(wrong)
  BY DEF ApplyOperator
<1>2. /\ agenda \in Seq(SafeItem) /\ agenda # << >> /\ item \in SafeItem
      /\ item.what = "right" /\ a \in Seq(SafeItem) /\ status = "running"
      /\ evalStack \in Seq(SafeOperand) /\ IInv /\ misencoded \in BOOLEAN
  BY <1>1, HandledHead DEF Settings, IInv, ContentsInv
<1>3. item.op \in Operators /\ left \in Register \ {RAX, RSP} /\ item.node \in Nat
  BY <1>2, ItemFields
<1>4. agenda' = a
  BY <1>1, <1>2, NoItems DEF Replace
<1>5. /\ Top.node = item.of /\ abandoned \in Nat /\ abandoned <= Len(Popped)
      /\ LiveOn(evalStack, abandoned) = rest \cup {Top}
      /\ OwnRegisters(Popped, abandoned) /\ Differs(rest, right)
      /\ right \in allocated /\ (~misencoded => contents[right] = Top.node)
      /\ NoCalls => right # RDX
  BY <1>1, TopIsLive, Kinds DEF Settings
<1>6. /\ Popped \in Seq(SafeOperand) /\ right \in Register \ {RAX, RSP}
  BY <1>1, <1>2, Popping DEF IInv
<1>7. e \in SafeOperand /\ e.reg = right /\ e.node = item.node
  BY <1>3, <1>6 DEF Operand, SafeOperand
<1>8. /\ HeldWith(evalStack, abandoned, agenda, allocated, contents, misencoded)
      /\ RemainderReserved(evalStack, abandoned, agenda, allocated)
      /\ DivisionApart
  BY <1>2 DEF Settings, HeldInv
<1>9. LeftsIn(agenda) = LeftsIn(a) \cup {Operand(left, item.leftNode)}
  BY <1>2, LeftsOfTail
<1>10. OwnLefts(agenda) <=> OwnLefts(a) /\ Differs(LeftsIn(a), left)
  BY <1>2, LeftsOfTail
<1>11. \A o \in others : o.reg \in Register \ {RAX, RSP}
  BY <1>2, <1>5, <1>6, OperandsSafe
<1>12. Operand(left, item.leftNode).reg = left /\ Operand(left, item.leftNode).node = item.leftNode
  BY DEF Operand
<1>13. ~misencoded' => ~misencoded /\ ~wrong
  <2>1. wrong \in BOOLEAN
    BY DEF Misnames
  <2> HIDE DEF wrong
  <2> QED
    BY <1>1, <1>2, <2>1 DEF Misencode
<1> HIDE DEF item, a, left, right, result, e, Popped, Top, wrong
<1>14. left # right /\ left \in allocated /\ (~misencoded => contents[left] = item.leftNode)
  BY <1>5, <1>8, <1>9, <1>12 DEF HeldWith, Kept, Differs, right
<1>15. item.op \in Division => RDX \notin {left, right} \cup {o.reg : o \in others}
  <2> SUFFICES ASSUME item.op \in Division
               PROVE RDX \notin {left, right} \cup {o.reg : o \in others}
    OBVIOUS
  <2>1. NoCalls
    BY <1>3, <1>8 DEF DivisionApart
  <2>2. Differs(LiveOn(evalStack, abandoned) \cup LeftsIn(agenda), RDX)
    BY <1>8, <2>1 DEF RemainderReserved
  <2> QED
    BY <1>5, <1>9, <1>12, <2>1, <2>2 DEF Differs
<1>16. ~misencoded => result = item.node
  <2>1. item.op \in Division => right \notin {RAX, RDX}
    BY <1>6, <1>15
  <2> QED
    BY <1>5, <1>14, <2>1 DEF ResultOf, result
<1>17. \A o \in others : /\ o.reg \notin {left, right} /\ o.reg \in allocated
                         /\ ~misencoded => contents[o.reg] = o.node
  <2>1. Differs(others, right)
    BY <1>5, <1>8, <1>9 DEF HeldWith, Differs, right
  <2>2. Differs(others, left)
    BY <1>2, <1>5, <1>8, <1>9, <1>10, <1>12 DEF HeldWith, Differs
  <2> QED
    BY <1>5, <1>8, <1>9, <2>1, <2>2 DEF HeldWith, Kept, Differs
<1>18. ASSUME ~misencoded'
       PROVE contents' = [r \in Register |->
                            IF r = right THEN item.node
                            ELSE IF item.op \in Division /\ r \in {RAX, RDX} THEN 0
                            ELSE IF item.op = "Minus" /\ r = left THEN item.node
                            ELSE contents[r]]
  <2>1. result = item.node /\ ~wrong
    BY <1>13, <1>16, <1>18
  <2> QED
    BY <1>1, <1>3, <1>6, <2>1, NamedEffect DEF wrong
<1>19. ~misencoded' => contents'[right] = item.node
  BY <1>6, <1>18
<1>20. \A o \in others : /\ o.reg \in allocated'
                         /\ ~misencoded' => contents'[o.reg] = o.node
  <2> TAKE o \in others
  <2>1. o.reg \in Register \ {RAX, RSP} /\ o.reg \notin {left, right}
        /\ (item.op \in Division => o.reg # RDX)
    BY <1>11, <1>15, <1>17
  <2>2. ~misencoded' => contents'[o.reg] = contents[o.reg]
    BY <1>18, <2>1
  <2> QED
    BY <1>1, <1>13, <1>17, <2>2 DEF Freed
<1>21. right \in allocated'
  BY <1>1, <1>5, <1>14 DEF Freed
<1>22. /\ LiveOn(evalStack', abandoned') = rest \cup {e}
       /\ OwnRegisters(evalStack', abandoned')
  BY <1>1, <1>5, <1>6, <1>7, LiveOfAppended
<1>23. HeldWith(evalStack', abandoned', agenda', allocated', contents', misencoded')
  <2>1. Kept(rest \cup {e} \cup LeftsIn(a), allocated', contents', misencoded')
    BY <1>7, <1>19, <1>20, <1>21 DEF Kept
  <2>2. \A o \in LeftsIn(a) : Differs(rest \cup {e}, o.reg)
    <3>1. \A o \in LeftsIn(a) : Differs(rest, o.reg)
      BY <1>5, <1>8, <1>9 DEF HeldWith, Differs
    <3> QED
      BY <1>7, <1>17, <3>1 DEF Differs
  <2>3. OwnLefts(a)
    BY <1>8, <1>10 DEF HeldWith
  <2> QED
    BY <1>4, <1>22, <2>1, <2>2, <2>3 DEF HeldWith
<1>24. RemainderReserved(evalStack', abandoned', agenda', allocated')
  <2> SUFFICES ASSUME NoCalls
               PROVE /\ RDX \in allocated'
                     /\ Differs(LiveOn(evalStack', abandoned') \cup LeftsIn(agenda'), RDX)
    BY DEF RemainderReserved
  <2>1. RDX \in allocated /\ Differs(LiveOn(evalStack, abandoned) \cup LeftsIn(agenda), RDX)
    BY <1>8 DEF RemainderReserved
  <2>2. left # RDX
    BY <1>9, <1>12, <2>1 DEF Differs
  <2> QED
    BY <1>1, <1>4, <1>5, <1>7, <1>9, <1>22, <2>1, <2>2 DEF Differs, Freed
<1> QED
  BY <1>23, <1>24 DEF HeldInv

LEMMA ExpressionsHeld ==
  ASSUME Settings, IInv', BalanceInv', Expression
  PROVE HeldInv'
<1>1. CASE VisitLiteral \/ VisitString \/ VisitIdentifier
  <2>1. PICK r \in Register :
          /\ GetAndPush(r, ThisNode) /\ Misencode(r > RDI)
          /\ contents' \in {Moved(r, ThisNode), Addressed(r, ThisNode)}
    BY <1>1 DEF VisitLiteral, VisitString, VisitIdentifier
  <2>2. Doing({"expr"}) /\ Replace(<< >>) /\ UNCHANGED abandoned
    BY <1>1 DEF VisitLiteral, VisitString, VisitIdentifier, Expecting
  <2>3. ~misencoded' => ~misencoded /\ contents' = [contents EXCEPT ![r] = ThisNode]
    BY <2>1, LeafMoves DEF Settings
  <2> QED
    BY <2>1, <2>2, <2>3, LeafHeld
<1>2. CASE VisitBinary
  <2>1. PICK op \in Operators, t \in Types :
          Replace(<< ExprItem(t), LeftItem(op, t, ThisNode, NextNode) >>)
    BY <1>2 DEF VisitBinary
  <2> DEFINE y == LeftItem(op, t, ThisNode, NextNode)
  <2>2. /\ Doing({"expr"})
        /\ UNCHANGED << allocated, evalStack, contents, abandoned, misencoded >>
    BY <1>2 DEF VisitBinary, Expecting, visitedOnly, allocatorVars, historyVars
  <2>3. /\ ExprItem(t) \in SafeItem /\ y \in SafeItem
        /\ ExprItem(t).what # "right" /\ y.what # "right"
    BY HandlersPush, ItemFieldsByName, TypesAssumption DEF Settings
  <2> HIDE DEF y
  <2> QED
    BY <2>1, <2>2, <2>3, TwoVisitsHeld DEF y
<1>3. CASE VisitArgument
  <2> DEFINE item == Head(agenda)
             y == [item EXCEPT !.count = item.count + 1]
  <2>1. PICK t \in Types : Replace(<< ExprItem(t), y >>)
    BY <1>3 DEF VisitArgument
  <2>2. /\ Doing({"call"})
        /\ UNCHANGED << allocated, evalStack, contents, abandoned, misencoded >>
    BY <1>3 DEF VisitArgument, visitedOnly, allocatorVars, historyVars
  <2>3. item \in SafeItem /\ item.what = "call"
    BY <2>2, HandledHead DEF Settings
  <2>4. y \in SafeItem /\ y.what = "call"
    BY <2>3 DEF SafeItem, Item, UseKind
  <2>5. ExprItem(t) \in SafeItem /\ ExprItem(t).what # "right"
    BY HandlersPush, ItemFieldsByName, TypesAssumption DEF Settings
  <2> HIDE DEF y
  <2> QED
    BY <2>1, <2>2, <2>4, <2>5, TwoVisitsHeld
<1>4. CASE VisitCallOperand
  BY <1>4 DEF VisitCallOperand, Expecting, Settings, CallsAreStatements
<1>5. CASE EndCall
  <2>1. Doing({"call"}) /\ Replace(<< >>) /\ UNCHANGED allocated
    BY <1>5 DEF EndCall
  <2>2. OnlyBodies(agenda')
    BY <2>1, ClosingBodies, Kinds DEF Settings
  <2> QED
    BY <2>1, <2>2, BodiesRemain, RemainderTaken
<1> QED
  BY <1>1, <1>2, <1>3, <1>4, <1>5, StoreLiteralHeld, PopLeftHeld, ApplyOperatorHeld
  DEF Expression

-----------------------------------------------------------------------------
(* Values are held.                                                        *)

LEMMA NextHeld ==
  ASSUME Settings, IInv', BalanceInv', [Next]_vars
  PROVE HeldInv'
<1>1. CASE Terminated \/ UNCHANGED vars
  BY <1>1 DEF Terminated, vars, Settings, HeldInv, HeldWith, RemainderReserved
<1> QED
  BY <1>1, StatementsHeld, OthersHeld, ExpressionsHeld DEF Next

LEMMA InitHeld == Init => PlainInv /\ HeldInv
<1> SUFFICES ASSUME Init PROVE PlainInv /\ HeldInv
  OBVIOUS
<1>1. Quiet(evalStack, abandoned, agenda) /\ Plain(agenda) /\ mode = "None"
  BY DEF Init, Quiet, Plain, LiveIndices, LeftIndices
<1>2. RDX \in allocated
  BY DEF Init, InitiallyAllocated
<1> QED
  BY <1>1, <1>2, QuietHolds DEF PlainInv, HeldInv

LEMMA HeldInvariant ==
  ASSUME CallsAreStatements, DivisionApart
  PROVE Spec => [](IInv /\ CInv /\ PlainInv /\ HeldInv)
<1> DEFINE Inv == IInv /\ CInv /\ PlainInv /\ HeldInv
<1>1. Init => Inv
  BY InitSafe, InitControl, InitHeld
<1>2. Inv /\ [Next]_vars => Inv'
  <2> SUFFICES ASSUME Inv, [Next]_vars PROVE Inv'
    OBVIOUS
  <2>1. IInv' /\ CInv' /\ PlainInv'
    BY NextSafe, NextControl, NextPlain
  <2>2. BalanceInv /\ BalanceInv'
    BY <2>1 DEF CInv, CallsAreStatements
  <2> QED
    BY <2>1, <2>2, NextHeld DEF Settings
<1> HIDE DEF Inv
<1>3. Spec => []Inv
  BY <1>1, <1>2, PTL DEF Spec
<1> QED
  BY <1>3 DEF Inv

(* In every program whose calls are statements, and that does not divide   *)
(* if it calls, an operand keeps its register and, as long as every        *)
(* instruction has named the register that was meant, its value until it   *)
(* is used, however deep the expression: get_free takes only registers     *)
(* that nothing waits in, free only gives back the left operand that has   *)
(* just been used, and the code of an operator writes only to its own two  *)
(* registers and those of the division (register_allocator.cpp:35-72,      *)
(* generator.cpp:30-56, 393-547).                                          *)
THEOREM OperandsKept ==
  ASSUME CallsAreStatements, DivisionApart PROVE Spec => []ValuesHeld
<1>1. IInv /\ HeldInv => ValuesHeld
  <2> SUFFICES ASSUME IInv, HeldInv, status = "running", ~misencoded
               PROVE /\ \A i \in Live : contents[evalStack[i].reg] = evalStack[i].node
                     /\ \A i \in RightItems : contents[agenda[i].left] = agenda[i].leftNode
    BY DEF ValuesHeld
  <2>1. Kept(LiveOn(evalStack, abandoned) \cup LeftsIn(agenda), allocated, contents, misencoded)
    BY DEF HeldInv, HeldWith
  <2>2. \A i \in Live : evalStack[i] \in LiveOn(evalStack, abandoned)
    BY DEF Live, LiveOn, LiveIndices
  <2>3. \A i \in RightItems : Operand(agenda[i].left, agenda[i].leftNode) \in LeftsIn(agenda)
    BY DEF RightItems, LeftsIn, LeftIndices
  <2>4. \A l, n : Operand(l, n).reg = l /\ Operand(l, n).node = n
    BY DEF Operand
  <2>5. \A i \in RightItems : contents[agenda[i].left] = agenda[i].leftNode
    BY <2>1, <2>3, <2>4 DEF Kept
  <2> QED
    BY <2>1, <2>2, <2>5 DEF Kept
<1> QED
  BY <1>1, HeldInvariant, PTL

-----------------------------------------------------------------------------
(* The account of the registers, in programs without calls.                *)

Accounted(alloc, lost, s, gone, a) ==
  Cardinality(alloc) =
    Cardinality(InitiallyAllocated) + lost + LiveCount(s, gone) + LeftCount(a)

AtLeaf == agenda # << >> /\ Head(agenda).what = "expr"

AccountInv ==
  /\ status = "running" \/ AtLeaf => Accounted(allocated, leaks, evalStack, abandoned, agenda)
  /\ status = "threw" /\ AtLeaf => allocated = Register

Ledger == Settings /\ NoCalls /\ AccountInv

LEMMA Counts ==
  ASSUME NEW s \in Seq(SafeOperand), NEW gone \in Nat, NEW a \in Seq(SafeItem)
  PROVE LiveCount(s, gone) \in Nat /\ LeftCount(a) \in Nat
<1>1. IsFiniteSet(1 .. Len(s)) /\ IsFiniteSet(1 .. Len(a))
  BY FS_Interval, Len(s) \in Nat, Len(a) \in Nat
<1>2. LiveIndices(s, gone) \in SUBSET (1 .. Len(s)) /\ LeftIndices(a) \in SUBSET (1 .. Len(a))
  BY Len(s) \in Nat DEF LiveIndices, LeftIndices
<1>3. IsFiniteSet(LiveIndices(s, gone)) /\ IsFiniteSet(LeftIndices(a))
  BY <1>1, <1>2, FS_Subset
<1> QED
  BY <1>3, FS_CardinalityType DEF LiveCount, LeftCount

LEMMA LeftNumber == ASSUME NEW a \in Seq(SafeItem) PROVE LeftCount(a) \in Nat
BY Counts, << >> \in Seq(SafeOperand), 0 \in Nat

(* get_free and free change the number of registers in use by one.         *)
LEMMA TakenAndFreed ==
  ASSUME NEW alloc \in SUBSET Register
  PROVE /\ Cardinality(alloc) \in Nat
        /\ \A r \in Register \ alloc : Cardinality(alloc \cup {r}) = Cardinality(alloc) + 1
        /\ \A r \in alloc : Cardinality(Freed(alloc, r)) = Cardinality(alloc) - 1
<1>1. IsFiniteSet(Register)
  BY FS_Interval, 0 \in Int, 15 \in Int DEF Register
<1>2. IsFiniteSet(alloc)
  BY <1>1, FS_Subset
<1>3. \A r \in Register \ alloc : Cardinality(alloc \cup {r}) = Cardinality(alloc) + 1
  BY <1>2, FS_AddElement
<1>4. \A r \in alloc : Cardinality(alloc \ {r}) = Cardinality(alloc) - 1
  BY <1>2, FS_RemoveElement
<1> QED
  BY <1>2, <1>3, <1>4, FS_CardinalityType DEF Freed

LEMMA ThreeReserved == Cardinality(InitiallyAllocated) = 3 /\ Cardinality(Register) = 16
<1>1. IsFiniteSet({RAX}) /\ Cardinality({RAX}) = 1
  BY FS_Singleton
<1>2. IsFiniteSet({RAX} \cup {RDX}) /\ Cardinality({RAX} \cup {RDX}) = 2
  BY <1>1, FS_AddElement DEF RAX, RDX
<1>3. Cardinality(({RAX} \cup {RDX}) \cup {RSP}) = 3
  BY <1>2, FS_AddElement DEF RAX, RDX, RSP
<1>4. ({RAX} \cup {RDX}) \cup {RSP} = InitiallyAllocated
  BY DEF InitiallyAllocated
<1>5. Cardinality(0 .. 15) = 16
  <2>1. Cardinality(0 .. 15) = IF 0 > 15 THEN 0 ELSE 15 - 0 + 1
    BY FS_Interval, 0 \in Int, 15 \in Int, Zenon
  <2> QED
    BY <2>1
<1> QED
  BY <1>3, <1>4, <1>5 DEF Register

LEMMA SameAccount ==
  ASSUME Ledger, status = "running", UNCHANGED << allocated, leaks >>,
         LiveCount(evalStack', abandoned') = LiveCount(evalStack, abandoned), LeftCount(agenda') = LeftCount(agenda)
  PROVE Accounted(allocated', leaks', evalStack', abandoned', agenda')
BY DEF Ledger, AccountInv, Accounted

(* A handler takes the value on top: its register is freed, or lost.       *)
LEMMA TopAccounted ==
  ASSUME Ledger, NEW what, Doing(what), what \subseteq UseKind \cup {"let"},
         evalStack # << >>, LiveCount(evalStack', abandoned') = LiveCount(Popped, abandoned),
         LeftCount(agenda') = LeftCount(agenda),
         \/ allocated' = Freed(allocated, Top.reg) /\ UNCHANGED leaks
         \/ UNCHANGED allocated /\ leaks' = leaks + 1
  PROVE Accounted(allocated', leaks', evalStack', abandoned', agenda')
<1>1. /\ agenda \in Seq(SafeItem) /\ evalStack \in Seq(SafeOperand) /\ status = "running"
      /\ allocated \in SUBSET Register /\ leaks \in Nat /\ abandoned \in Nat
  BY HandledHead DEF Ledger, Settings, IInv, AllocatorInv, CountersInv
<1>2. /\ Top.reg \in allocated /\ LiveCount(evalStack, abandoned) = LiveCount(Popped, abandoned) + 1
      /\ LiveCount(Popped, abandoned) \in Nat
  BY TopIsLive, Kinds DEF Ledger, Settings
<1>3. Accounted(allocated, leaks, evalStack, abandoned, agenda) /\ LeftCount(agenda) \in Nat
  BY <1>1, Counts DEF Ledger, AccountInv
<1>4. /\ Cardinality(allocated) \in Nat
      /\ Cardinality(Freed(allocated, Top.reg)) = Cardinality(allocated) - 1
  BY <1>1, <1>2, TakenAndFreed
<1> DEFINE c == Cardinality(allocated)
           f == Cardinality(Freed(allocated, Top.reg))
           live == LiveCount(Popped, abandoned)
           lefts == LeftCount(agenda)
<1>5. c = 3 + leaks + (live + 1) + lefts
  BY <1>2, <1>3, ThreeReserved DEF Accounted
<1>6. /\ c \in Nat /\ f = c - 1 /\ live \in Nat /\ lefts \in Nat /\ leaks \in Nat
      /\ \/ Cardinality(allocated') = f /\ leaks' = leaks
         \/ Cardinality(allocated') = c /\ leaks' = leaks + 1
  BY <1>1, <1>2, <1>3, <1>4
<1> HIDE DEF c, f, live, lefts
<1>7. Cardinality(allocated') = 3 + leaks' + live + lefts
  BY <1>5, <1>6
<1> QED
  BY <1>7, ThreeReserved DEF Accounted, live, lefts

LEMMA HeadAccounted ==
  ASSUME IInv, NEW what, Doing(what), "right" \notin what, Replace(<< >>)
  PROVE LeftCount(agenda') = LeftCount(agenda)
<1>1. /\ agenda \in Seq(SafeItem) /\ agenda # << >> /\ Head(agenda).what # "right"
      /\ agenda' = Tail(agenda)
  BY HandledHead, NoItems DEF Replace
<1> QED
  BY <1>1, HeadGoes

LEMMA StatementsAccounted ==
  ASSUME Ledger, Statement
  PROVE Accounted(allocated', leaks', evalStack', abandoned', agenda')
<1>1. CASE VisitVarDecl \/ VisitRet \/ VisitIf \/ VisitExprStatement
  <2>1. PICK t \in ValueType, y \in SafeItem :
          y.what # "right" /\ Enter(<< ExprItem(t), y >>)
    <3>1. CASE VisitVarDecl
      <4>1. PICK n \in Names, t \in Types :
              Enter(<< ExprItem(t), LetItem(n, t, NextNode) >>)
        BY <3>1 DEF VisitVarDecl
      <4> QED
        BY <4>1, HandlersPush, ItemFieldsByName, TypesAssumption DEF Ledger, Settings
    <3>2. CASE VisitRet \/ VisitIf \/ VisitExprStatement
      <4>1. /\ Types \subseteq ValueType /\ {"bool"} \subseteq ValueType
            /\ {"ret", "test", "discard"} \subseteq UseKind
        BY TypesAssumption DEF ValueType, UseKind
      <4>2. \E what \in UseKind, t \in ValueType :
              Enter(<< ExprItem(t), UseItem(what, NextNode) >>)
        BY <3>2, <4>1 DEF VisitRet, VisitIf, VisitExprStatement, VisitUse
      <4>3. \A what \in UseKind : UseItem(what, NextNode).what # "right"
        BY DEF UseItem, UseKind
      <4> QED
        BY <4>2, <4>3, HandlersPush DEF Ledger, Settings
    <3> QED
      BY <1>1, <3>1, <3>2
  <2>2. Doing(BodyKind) /\ UNCHANGED << allocated, evalStack, leaks, abandoned >>
    BY <1>1 DEF VisitVarDecl, VisitRet, VisitIf, VisitExprStatement, VisitUse, InBody,
       visitedOnly, allocatorVars, historyVars
  <2>3. /\ agenda \in Seq(SafeItem) /\ status = "running" /\ ExprItem(t) \in SafeItem
        /\ ExprItem(t).what # "right"
    BY <2>2, HandledHead, HandlersPush, ItemFieldsByName DEF Ledger, Settings
  <2>4. LeftCount(agenda') = LeftCount(agenda)
    BY <2>1, <2>3, TwoNoLefts DEF Enter
  <2> QED
    BY <2>2, <2>3, <2>4, SameAccount
<1>2. CASE VisitAssign
  <2>1. status = "running" /\ UNCHANGED << allocated, evalStack, leaks, abandoned, agenda >>
    BY <1>2 DEF VisitAssign, InBody, Doing, visitedOnly, allocatorVars, historyVars
  <2> QED
    BY <2>1, SameAccount
<1>3. CASE VisitCallStatement
  BY <1>3 DEF VisitCallStatement, InBody, Ledger, NoCalls
<1>4. CASE EndVarDecl
  <2>1. /\ Doing({"let"}) /\ evalStack # << >> /\ Replace(<< >>) /\ evalStack' = Popped
        /\ allocated' = Freed(allocated, Top.reg) /\ UNCHANGED << leaks, abandoned >>
    BY <1>4 DEF EndVarDecl, Declare
  <2>2. LeftCount(agenda') = LeftCount(agenda)
    BY <2>1, HeadAccounted DEF Ledger, Settings
  <2> QED
    BY <2>1, <2>2, TopAccounted
<1>5. CASE EndRet
  <2>1. /\ Doing({"ret"}) /\ evalStack # << >> /\ Replace(<< >>) /\ evalStack' = Popped
        /\ UNCHANGED << allocated, abandoned >> /\ leaks' = leaks + 1
    BY <1>5 DEF EndRet
  <2>2. LeftCount(agenda') = LeftCount(agenda)
    BY <2>1, HeadAccounted DEF Ledger, Settings
  <2> QED
    BY <2>1, <2>2, TopAccounted DEF UseKind
<1>6. CASE BeginIf
  <2>1. PICK at : /\ Doing({"test"}) /\ evalStack # << >> /\ Replace(<< IfItem(at) >>)
                  /\ evalStack' = Popped /\ UNCHANGED << allocated, abandoned >>
                  /\ leaks' = leaks + 1
                  /\ at = codeLength + Len(emit_test8(Top.reg, 1) \o emit_je_rel8(0)) - 1
    BY <1>6 DEF BeginIf
  <2>2. /\ agenda \in Seq(SafeItem) /\ agenda # << >> /\ Head(agenda).what # "right"
        /\ Tail(agenda) \in Seq(SafeItem) /\ IInv
    BY <2>1, HandledHead DEF Ledger, Settings
  <2>3. at \in Int
    <3>1. emit_test8(Top.reg, 1) \o emit_je_rel8(0) \in Code
      BY <2>1, <2>2, Popping, SmallBytes, RegisterCalls, JumpCalls, CodeConcat DEF IInv
    <3> HIDE DEF Top
    <3>2. Len(emit_test8(Top.reg, 1) \o emit_je_rel8(0)) \in Nat /\ codeLength \in Nat
      BY <2>2, <3>1, CodeLength DEF IInv, CodeInv
    <3> QED
      BY <2>1, <3>2
  <2>4. IfItem(at) \in SafeItem /\ IfItem(at).what # "right"
    BY <2>3, ItemsTyped, ItemFieldsByName
  <2>5. LeftCount(agenda') = LeftCount(agenda)
    BY <2>1, <2>2, <2>4, HeadGoes, NoLeftsAdded DEF Replace
  <2> QED
    BY <2>1, <2>5, TopAccounted DEF UseKind
<1>7. CASE EndIf
  <2>1. /\ Doing({"if"}) /\ Replace(<< >>) /\ status = "running"
        /\ UNCHANGED << allocated, evalStack, leaks, abandoned >>
    BY <1>7 DEF EndIf, allocatorVars, Doing
  <2>2. LeftCount(agenda') = LeftCount(agenda)
    BY <2>1, HeadAccounted DEF Ledger, Settings
  <2> QED
    BY <2>1, <2>2, SameAccount
<1>8. CASE EndExprStatement
  <2>1. /\ Doing({"discard"}) /\ evalStack # << >> /\ Replace(<< >>)
        /\ UNCHANGED << evalStack, allocated >>
        /\ leaks' = leaks + 1 /\ abandoned' = abandoned + 1
    BY <1>8 DEF EndExprStatement, allocatorVars
  <2>2. LeftCount(agenda') = LeftCount(agenda)
    BY <2>1, HeadAccounted DEF Ledger, Settings
  <2>3. Len(evalStack) - 1 = abandoned /\ Len(Popped) = Len(evalStack) - 1
        /\ Len(evalStack) \in Nat /\ abandoned \in Nat
    BY <2>1, AtStatementEnd, SplitStack, HandledHead
    DEF Ledger, Settings, UseKind, IInv, CountersInv
  <2> HIDE DEF Popped
  <2>4. LiveIndices(evalStack', abandoned') = {} /\ LiveIndices(Popped, abandoned) = {}
    BY <2>1, <2>3 DEF LiveIndices
  <2>5. LiveCount(evalStack', abandoned') = LiveCount(Popped, abandoned)
    BY <2>4 DEF LiveCount
  <2> QED
    BY <2>1, <2>2, <2>5, TopAccounted DEF UseKind
<1> QED
  BY <1>1, <1>2, <1>3, <1>4, <1>5, <1>6, <1>7, <1>8 DEF Statement

LEMMA LeafAccounted ==
  ASSUME Ledger, Doing({"expr"}), NEW r \in Register, GetAndPush(r, ThisNode),
         Replace(<< >>), UNCHANGED << leaks, abandoned >>
  PROVE Accounted(allocated', leaks', evalStack', abandoned', agenda')
<1> DEFINE e == Operand(r, ThisNode)
<1>1. /\ agenda \in Seq(SafeItem) /\ evalStack \in Seq(SafeOperand) /\ status = "running"
      /\ allocated \in SUBSET Register /\ leaks \in Nat /\ nodes \in Nat /\ IInv
      /\ abandoned \in Nat /\ agenda # << >> /\ Head(agenda).what = "expr"
  BY HandledHead DEF Ledger, Settings, IInv, AllocatorInv, CountersInv
<1>2. /\ r \in Register \ allocated /\ allocated' = allocated \cup {r}
      /\ evalStack' = Append(evalStack, e)
  BY DEF GetAndPush, Grants, Candidates
<1>3. e \in SafeOperand
  <2>1. r \in Register \ {RAX, RSP} /\ ThisNode \in Nat
    BY <1>1, GrantsSafeRegister DEF GetAndPush, IInv, ThisNode
  <2> QED
    BY <2>1 DEF Operand, SafeOperand
<1> HIDE DEF e
<1>4. LiveCount(Append(evalStack, e), abandoned) = LiveCount(evalStack, abandoned) + 1
  <2>1. Held(CallsOn(agenda), abandoned, Len(evalStack), 1)
    BY <1>1, Kinds DEF Ledger, Settings, BalanceInv, Poised, Waits, Visiting
  <2>2. abandoned <= Len(evalStack)
    BY <1>1, <2>1, GoneBelow
  <2> QED
    BY <1>1, <1>3, <2>2, LiveOfAppended
<1>5. LeftCount(agenda') = LeftCount(agenda)
  BY <1>1, HeadAccounted
<1>6. Cardinality(allocated \cup {r}) = Cardinality(allocated) + 1
  BY <1>1, <1>2, TakenAndFreed
<1>7. /\ LiveCount(evalStack, abandoned) \in Nat /\ LeftCount(agenda) \in Nat
      /\ Cardinality(allocated) \in Nat
      /\ Accounted(allocated, leaks, evalStack, abandoned, agenda)
  BY <1>1, Counts, TakenAndFreed DEF Ledger, AccountInv
<1> QED
  BY <1>1, <1>2, <1>4, <1>5, <1>6, <1>7, ThreeReserved DEF Accounted

LEMMA StoreLiteralAccounted ==
  ASSUME Ledger, StoreLiteral
  PROVE Accounted(allocated', leaks', evalStack', abandoned', agenda')
<1> DEFINE b == Tail(agenda)
<1>1. /\ Doing({"expr"}) /\ agenda' = Tail(b)
      /\ UNCHANGED << allocated, evalStack, leaks, abandoned >>
  BY DEF StoreLiteral, Expecting, allocatorVars
<1>2. /\ agenda \in Seq(SafeItem) /\ agenda # << >> /\ Head(agenda).what = "expr"
      /\ b \in Seq(SafeItem) /\ status = "running"
  BY <1>1, HandledHead DEF Ledger, Settings
<1>3. b # << >> /\ Head(b).what = "let"
  BY <1>2, TailRemains DEF StoreLiteral, Initialising, DirectlyUnder
<1>4. LeftCount(b) = LeftCount(agenda)
  BY <1>2, HeadGoes
<1> HIDE DEF b
<1>5. LeftCount(Tail(b)) = LeftCount(b)
  BY <1>2, <1>3, HeadGoes
<1> QED
  BY <1>1, <1>2, <1>4, <1>5, SameAccount

LEMMA PopLeftAccounted ==
  ASSUME Ledger, PopLeft
  PROVE Accounted(allocated', leaks', evalStack', abandoned', agenda')
<1> DEFINE item == Head(agenda)
           a == Tail(agenda)
           x == ExprItem(item.type)
           y == RightItem(item.op, item.type, item.node, ThisNode, Top.reg, item.of)
           b == << y >> \o a
<1>1. /\ Doing({"left"}) /\ evalStack # << >> /\ evalStack' = Popped
      /\ Replace(<< x, y >>) /\ UNCHANGED << allocated, leaks, abandoned >>
  BY DEF PopLeft, historyVars
<1>2. /\ agenda \in Seq(SafeItem) /\ agenda # << >> /\ item \in SafeItem
      /\ item.what = "left" /\ a \in Seq(SafeItem) /\ nodes \in Nat
      /\ status = "running" /\ leaks \in Nat
  BY <1>1, HandledHead DEF Ledger, Settings, IInv, CountersInv
<1>3. x \in SafeItem /\ y \in SafeItem
  <2>1. Top.reg \in Register \ {RAX, RSP} /\ ThisNode \in Nat
    BY <1>1, <1>2, Popping DEF Ledger, Settings, IInv, ThisNode
  <2> QED
    BY <1>2, <2>1, ItemFields, ItemsTyped
<1>4. x.what = "expr" /\ y.what = "right"
  BY ItemFieldsByName
<1>5. /\ LiveCount(evalStack, abandoned) = LiveCount(Popped, abandoned) + 1
      /\ LiveCount(Popped, abandoned) \in Nat
  BY <1>1, TopIsLive, Kinds DEF Ledger, Settings
<1>6. LeftCount(agenda) = LeftCount(a) /\ LeftCount(a) \in Nat
  BY <1>2, HeadGoes, LeftNumber
<1> HIDE DEF a, x, y, item, Top, Popped
<1>7. agenda' = << x >> \o b
  BY <1>1, <1>2, <1>3, TwoItems DEF Replace, a
<1>8. b \in Seq(SafeItem) /\ b # << >> /\ Head(b) = y /\ Tail(b) = a
  BY <1>2, <1>3
<1> HIDE DEF b
<1>9. LeftCount(b) = LeftCount(a) + 1
  <2>1. LeftCount(b) = LeftCount(Tail(b)) + (IF Head(b).what = "right" THEN 1 ELSE 0)
    BY <1>8, LeftsOfTail
  <2> QED
    BY <1>4, <1>8, <2>1
<1>10. LeftCount(agenda') = LeftCount(b)
  BY <1>3, <1>4, <1>7, <1>8, NoLeftsAdded
<1>11. Accounted(allocated, leaks, evalStack, abandoned, agenda)
  BY <1>2 DEF Ledger, AccountInv
<1> QED
  BY <1>1, <1>2, <1>5, <1>6, <1>9, <1>10, <1>11, ThreeReserved DEF Accounted

LEMMA ApplyOperatorAccounted ==
  ASSUME Ledger, ApplyOperator
  PROVE Accounted(allocated', leaks', evalStack', abandoned', agenda')
<1> DEFINE item == Head(agenda)
           a == Tail(agenda)
           left == item.left
           e == Operand(Top.reg, item.node)
<1>1. /\ Doing({"right"}) /\ evalStack # << >> /\ evalStack' = Append(Popped, e)
      /\ Replace(<< >>) /\ allocated' = Freed(allocated, left)
      /\ UNCHANGED << leaks, abandoned >>
  BY DEF ApplyOperator
<1>2. /\ agenda \in Seq(SafeItem) /\ agenda # << >> /\ item \in SafeItem
      /\ item.what = "right" /\ a \in Seq(SafeItem) /\ status = "running"
      /\ allocated \in SUBSET Register /\ leaks \in Nat
  BY <1>1, HandledHead DEF Ledger, Settings, IInv, AllocatorInv, CountersInv
<1>3. item.node \in Nat
  BY <1>2, ItemFields
<1>4. agenda' = a
  BY <1>1, <1>2, NoItems DEF Replace
<1>5. /\ LiveCount(evalStack, abandoned) = LiveCount(Popped, abandoned) + 1
      /\ LiveCount(Popped, abandoned) \in Nat
      /\ abandoned \in Nat /\ abandoned <= Len(Popped)
  BY <1>1, TopIsLive, Kinds DEF Ledger, Settings
<1>6. /\ Popped \in Seq(SafeOperand) /\ e \in SafeOperand
  <2>1. Popped \in Seq(SafeOperand) /\ Top.reg \in Register \ {RAX, RSP}
    BY <1>1, Popping DEF Ledger, Settings, IInv
  <2> QED
    BY <1>3, <2>1 DEF Operand, SafeOperand
<1>7. left \in allocated
  <2>1. LeftsIn(agenda) = LeftsIn(a) \cup {Operand(left, item.leftNode)}
    BY <1>2, LeftsOfTail
  <2>2. Operand(left, item.leftNode).reg = left
    BY DEF Operand
  <2>3. Kept(LiveOn(evalStack, abandoned) \cup LeftsIn(agenda), allocated, contents,
             misencoded)
    BY <1>2 DEF Ledger, Settings, HeldInv, HeldWith
  <2> HIDE DEF item, a, left
  <2> QED
    BY <2>1, <2>2, <2>3 DEF Kept
<1> HIDE DEF left, e, Popped
<1>8. LeftCount(agenda) = LeftCount(a) + 1
  <2>1. LeftCount(agenda) = LeftCount(a) + (IF item.what = "right" THEN 1 ELSE 0)
    BY <1>2, LeftsOfTail
  <2> HIDE DEF a, item
  <2> QED
    BY <1>2, <2>1
<1>9. LeftCount(a) \in Nat
  BY <1>2, LeftNumber
<1>10. LiveCount(evalStack', abandoned') = LiveCount(Popped, abandoned) + 1
  <2>1. LiveCount(Append(Popped, e), abandoned) = LiveCount(Popped, abandoned) + 1
    BY <1>5, <1>6, LiveOfAppended
  <2> QED
    BY <1>1, <2>1
<1>11. /\ Cardinality(Freed(allocated, left)) = Cardinality(allocated) - 1
       /\ Cardinality(allocated) \in Nat
  BY <1>2, <1>7, TakenAndFreed
<1>12. Accounted(allocated, leaks, evalStack, abandoned, agenda)
  BY <1>2 DEF Ledger, AccountInv
<1> HIDE DEF a, item
<1> DEFINE c == Cardinality(allocated)
           f == Cardinality(Freed(allocated, left))
           live == LiveCount(Popped, abandoned)
           lefts == LeftCount(a)
<1>13. c = 3 + leaks + (live + 1) + (lefts + 1)
  BY <1>5, <1>8, <1>12, ThreeReserved DEF Accounted
<1>14. c \in Nat /\ f = c - 1 /\ live \in Nat /\ lefts \in Nat /\ leaks \in Nat
  BY <1>2, <1>5, <1>9, <1>11
<1> HIDE DEF c, f, live, lefts
<1>15. f = 3 + leaks + (live + 1) + lefts
  BY <1>13, <1>14
<1> QED
  BY <1>1, <1>4, <1>10, <1>15, ThreeReserved DEF Accounted, f, live, lefts

LEMMA ExpressionsAccounted ==
  ASSUME Ledger, Expression
  PROVE Accounted(allocated', leaks', evalStack', abandoned', agenda')
<1>1. CASE VisitLiteral \/ VisitString \/ VisitIdentifier
  <2>1. PICK r \in Register : GetAndPush(r, ThisNode)
    BY <1>1 DEF VisitLiteral, VisitString, VisitIdentifier
  <2>2. Doing({"expr"}) /\ Replace(<< >>) /\ UNCHANGED << leaks, abandoned >>
    BY <1>1 DEF VisitLiteral, VisitString, VisitIdentifier, Expecting
  <2> QED
    BY <2>1, <2>2, LeafAccounted
<1>2. CASE VisitBinary
  <2>1. PICK op \in Operators, t \in Types :
          Replace(<< ExprItem(t), LeftItem(op, t, ThisNode, NextNode) >>)
    BY <1>2 DEF VisitBinary
  <2> DEFINE y == LeftItem(op, t, ThisNode, NextNode)
  <2>2. Doing({"expr"}) /\ UNCHANGED << allocated, evalStack, leaks, abandoned >>
    BY <1>2 DEF VisitBinary, Expecting, visitedOnly, allocatorVars, historyVars
  <2>3. /\ ExprItem(t) \in SafeItem /\ y \in SafeItem
        /\ ExprItem(t).what # "right" /\ y.what # "right"
    BY HandlersPush, ItemFieldsByName, TypesAssumption DEF Ledger, Settings
  <2>4. /\ agenda \in Seq(SafeItem) /\ agenda # << >> /\ Head(agenda).what # "right"
        /\ status = "running" /\ Tail(agenda) \in Seq(SafeItem)
    BY <2>2, HandledHead DEF Ledger, Settings
  <2> HIDE DEF y
  <2>5. LeftCount(agenda') = LeftCount(agenda)
    BY <2>1, <2>3, <2>4, HeadGoes, TwoNoLefts DEF Replace, y
  <2> QED
    BY <2>2, <2>4, <2>5, SameAccount
<1>3. CASE VisitCallOperand \/ VisitArgument \/ EndCall
  <2>1. NoCalls /\ ~VisitCallOperand /\ Plain(agenda) /\ IInv
    BY DEF Ledger, Settings, PlainInv, VisitCallOperand, Expecting, NoCalls
  <2>2. Doing({"call"})
    BY <1>3, <2>1 DEF VisitArgument, EndCall
  <2>3. Head(agenda).what = "call" /\ PlainItem(Head(agenda))
    BY <2>1, <2>2, HandledHead, PlainTail
  <2> QED
    BY <2>1, <2>3 DEF PlainItem
<1> QED
  BY <1>1, <1>2, <1>3, StoreLiteralAccounted, PopLeftAccounted, ApplyOperatorAccounted
  DEF Expression

LEMMA NextAccounted ==
  ASSUME Ledger, IInv', [Next]_vars
  PROVE AccountInv'
<1>1. CASE Statement \/ Expression
  <2>1. Accounted(allocated', leaks', evalStack', abandoned', agenda')
    BY <1>1, StatementsAccounted, ExpressionsAccounted
  <2>2. UNCHANGED status /\ status = "running"
    BY <1>1 DEF Statement, VisitVarDecl, VisitRet, VisitIf, VisitExprStatement, VisitUse,
       VisitAssign, VisitCallStatement, BeginCall, EndVarDecl, EndRet, BeginIf, EndIf,
       EndExprStatement, Expression, VisitLiteral, VisitString, VisitIdentifier,
       StoreLiteral, VisitBinary, PopLeft, ApplyOperator, VisitCallOperand, VisitArgument,
       EndCall, visitedOnly, InBody, Expecting, Doing
  <2> QED
    BY <2>1, <2>2 DEF AccountInv
<1>2. CASE BeginFunction
  <2>1. /\ agenda = << >> /\ status = "running"
        /\ UNCHANGED << allocated, evalStack, leaks, abandoned >>
        /\ \/ status' = "threw" /\ UNCHANGED agenda
           \/ status' = "running" /\ agenda' = << FnItem >> \o agenda
    BY <1>2 DEF BeginFunction, allocatorVars, historyVars, Enter
  <2>2. /\ agenda \in Seq(SafeItem) /\ FnItem \in SafeItem /\ FnItem.what # "right"
    BY HandlersPush, ItemFieldsByName DEF Ledger, Settings, IInv, ControlInv
  <2>3. CASE status' = "threw"
    BY <2>1, <2>3 DEF AccountInv, AtLeaf
  <2>4. CASE status' = "running" /\ agenda' = << FnItem >> \o agenda
    <3>1. LeftCount(agenda') = LeftCount(agenda)
      BY <2>2, <2>4, NoLeftsAdded
    <3>2. Accounted(allocated', leaks', evalStack', abandoned', agenda')
      BY <2>1, <3>1, SameAccount
    <3> QED
      BY <2>4, <3>2 DEF AccountInv
  <2> QED
    BY <2>1, <2>3, <2>4
<1>3. CASE EndFunction
  <2>1. /\ Doing({"fn"}) /\ Replace(<< >>) /\ status = "running"
        /\ UNCHANGED << allocated, evalStack, leaks, abandoned, status >>
    BY <1>3 DEF EndFunction, allocatorVars, historyVars, Doing
  <2>2. LeftCount(agenda') = LeftCount(agenda)
    BY <2>1, HeadAccounted DEF Ledger, Settings
  <2> QED
    BY <2>1, <2>2, SameAccount DEF AccountInv
<1>4. CASE OutOfRegisters
  <2>1. /\ ~CanGrant(allocated, mode) /\ status' = "threw" /\ status = "running"
        /\ UNCHANGED << allocated, evalStack, leaks, abandoned, agenda >>
    BY <1>4 DEF OutOfRegisters, NeedsRegister, Expecting, Doing, allocatorVars, historyVars
  <2>2. mode = "None" /\ allocated \subseteq Register
    BY DEF Ledger, Settings, PlainInv, IInv, AllocatorInv
  <2>3. allocated = Register
    BY <2>1, <2>2 DEF CanGrant, Candidates
  <2> QED
    BY <2>1, <2>3 DEF Ledger, AccountInv, Accounted, AtLeaf
<1>5. CASE WriteToDisk \/ RejectOperator \/ PopEmpty
  <2>1. status' # "running" /\ UNCHANGED agenda /\ (agenda = << >> \/ Head(agenda).what # "expr")
    BY <1>5, Kinds DEF WriteToDisk, RejectOperator, PopEmpty, Doing, Awaiting, UseKind
  <2> QED
    BY <2>1 DEF AccountInv, AtLeaf
<1>6. CASE Terminated \/ UNCHANGED vars
  BY <1>6 DEF Terminated, vars, Ledger, AccountInv, Accounted, AtLeaf
<1> QED
  BY <1>1, <1>2, <1>3, <1>4, <1>5, <1>6 DEF Next, Failure

LEMMA InitAccounted == Init => AccountInv
<1> SUFFICES ASSUME Init PROVE AccountInv
  OBVIOUS
<1>1. /\ allocated = InitiallyAllocated /\ leaks = 0 /\ evalStack = << >> /\ agenda = << >>
      /\ status = "running" /\ abandoned = 0
  BY DEF Init
<1>2. LiveIndices(evalStack, abandoned) = {} /\ LeftIndices(agenda) = {}
  BY <1>1 DEF LiveIndices, LeftIndices
<1>3. LiveCount(evalStack, abandoned) = 0 /\ LeftCount(agenda) = 0
  BY <1>2, FS_EmptySet DEF LiveCount, LeftCount
<1> QED
  BY <1>1, <1>3, ThreeReserved DEF AccountInv, Accounted, AtLeaf

LEMMA AccountInvariant == ASSUME NoCalls PROVE Spec => [](IInv /\ AccountInv)
<1> DEFINE Inv == IInv /\ CInv /\ PlainInv /\ HeldInv
<1>1. CallsAreStatements /\ DivisionApart
  BY DEF NoCalls, CallsAreStatements, DivisionApart
<1>2. Spec => []Inv
  BY <1>1, HeldInvariant
<1>3. Inv /\ Inv' /\ AccountInv /\ [Next]_vars => AccountInv'
  BY <1>1, NextAccounted DEF Ledger, Settings, CInv
<1>4. Inv => IInv
  OBVIOUS
<1> HIDE DEF Inv
<1> QED
  BY <1>2, <1>3, <1>4, InitAccounted, PTL DEF Spec

(* In every program without calls a register is lost exactly when a ret,   *)
(* an if or an unused value pops it without freeing it; all others are     *)
(* reserved or hold an operand (register_allocator.cpp:17-21,              *)
(* generator.cpp:170, 218).                                                *)
THEOREM EveryRegisterAccounted == ASSUME NoCalls PROVE Spec => []RegistersAccounted
<1>1. AccountInv => RegistersAccounted
  BY DEF AccountInv, Accounted, RegistersAccounted, LiveCount, LeftCount, LiveIndices,
     LeftIndices, Live, RightItems
<1> QED
  BY <1>1, AccountInvariant, PTL

(* In every program without calls get_free throws only when all thirteen   *)
(* registers that it can hand out are lost or hold an operand              *)
(* (register_allocator.cpp:56-66).                                         *)
THEOREM FullWhenThrown == ASSUME NoCalls PROVE Spec => []ThrowsOnlyWhenFull
<1>1. IInv /\ AccountInv => ThrowsOnlyWhenFull
  <2> SUFFICES ASSUME IInv, AccountInv, status = "threw", agenda # << >>,
                      Head(agenda).what = "expr"
               PROVE leaks + Cardinality(Live) + Cardinality(RightItems) = 13
    BY DEF ThrowsOnlyWhenFull
  <2>1. allocated = Register /\ Accounted(allocated, leaks, evalStack, abandoned, agenda)
    BY DEF AccountInv, AtLeaf
  <2>2. LiveCount(evalStack, abandoned) \in Nat /\ LeftCount(agenda) \in Nat /\ leaks \in Nat
    BY Counts DEF IInv, AllocatorInv, ControlInv, CountersInv
  <2>3. leaks + LiveCount(evalStack, abandoned) + LeftCount(agenda) = 13
    BY <2>1, <2>2, ThreeReserved DEF Accounted
  <2> QED
    BY <2>3 DEF LiveCount, LeftCount, LiveIndices, LeftIndices, Live, RightItems
<1> QED
  BY <1>1, AccountInvariant, PTL
=============================================================================
