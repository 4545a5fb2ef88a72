---------------------------- MODULE LayoutProofs ----------------------------
(***************************************************************************)
(* Proofs about where things lie.  In every program, whatever the nesting  *)
(* of its blocks and the types of its variables, each variable lies in the *)
(* frame and no two that are alive at the same time share a byte; in what  *)
(* the generator gives to the object file the places that are patched      *)
(* later do not overlap, short jumps land where they should, and string    *)
(* literals have bytes of their own.                                       *)
(***************************************************************************)
EXTENDS GeneratorProofs

-----------------------------------------------------------------------------
(* A stack of scopes whose locals lie below the offset top.                *)

VisibleIn(sc) == {v \in (1 .. Len(sc)) \X Names : sc[v[1]][v[2]] # NoSlot}
SlotIn(sc, v) == sc[v[1]][v[2]]

InFrame(slot, top) ==
  \/ FirstLocal <= slot.addr /\ slot.addr + Size(slot.type) <= top
  \/ \E i \in 1 .. MaxRegisterArgs :
       slot.addr = ArgHome(i) /\ slot.addr + Size(slot.type) <= FirstLocal

Apart(slot, other) == Bytes(slot) \cap Bytes(other) = {}

Framed(sc, top) ==
  /\ \A v \in VisibleIn(sc) : InFrame(SlotIn(sc, v), top)
  /\ \A v, w \in VisibleIn(sc) : v # w => Apart(SlotIn(sc, v), SlotIn(sc, w))

Grounded(sc) == Len(sc) > 0 /\ sc[Len(sc)] = EmptyScope(Names)

FInv == spOffset >= FirstLocal /\ Grounded(scopes) /\ Framed(scopes, spOffset)

LEMMA FramedIsProperties ==
  Framed(scopes, spOffset) <=> SlotsInFrame /\ SlotsDisjoint
BY DEF Framed, VisibleIn, SlotIn, InFrame, Apart, SlotsInFrame, SlotsDisjoint, Visible,
       SlotOf, Declares

LEMMA VisibleSlots ==
  ASSUME NEW sc \in Seq(Scope), NEW v \in VisibleIn(sc)
  PROVE /\ v[1] \in 1 .. Len(sc) /\ v[2] \in Names /\ v = << v[1], v[2] >>
        /\ SlotIn(sc, v) \in [addr : Nat, type : ValueType]
        /\ Size(SlotIn(sc, v).type) \in {1, 2, 4, 8} /\ SlotIn(sc, v).addr \in Nat
<1>1. v[1] \in 1 .. Len(sc) /\ v[2] \in Names /\ v = << v[1], v[2] >>
  BY DEF VisibleIn
<1>2. sc[v[1]] \in Scope
  BY <1>1
<1>3. SlotIn(sc, v) \in [addr : Nat, type : ValueType]
  BY <1>1, <1>2 DEF Scope, SlotIn, VisibleIn
<1> QED
  BY <1>1, <1>3, SizeValues

(* The slots of b are slots of a, at other positions.                      *)
LEMMA Reindexed ==
  ASSUME NEW a, NEW b, NEW top, Framed(a, top),
         NEW f \in [VisibleIn(b) -> VisibleIn(a)],
         \A v, w \in VisibleIn(b) : f[v] = f[w] => v = w,
         \A v \in VisibleIn(b) : SlotIn(b, v) = SlotIn(a, f[v])
  PROVE Framed(b, top)
<1>1. ASSUME NEW v \in VisibleIn(b) PROVE InFrame(SlotIn(b, v), top)
  <2>1. f[v] \in VisibleIn(a)
    OBVIOUS
  <2> QED
    BY <2>1 DEF Framed
<1>2. ASSUME NEW v \in VisibleIn(b), NEW w \in VisibleIn(b), v # w
      PROVE Apart(SlotIn(b, v), SlotIn(b, w))
  <2>1. f[v] \in VisibleIn(a) /\ f[w] \in VisibleIn(a) /\ f[v] # f[w]
    BY <1>2
  <2> QED
    BY <2>1 DEF Framed
<1> QED
  BY <1>1, <1>2 DEF Framed

LEMMA PoppedFramed ==
  ASSUME NEW a \in Seq(Scope), Len(a) > 1, NEW top, Framed(a, top), Grounded(a)
  PROVE Framed(Tail(a), top) /\ Grounded(Tail(a))
<1> DEFINE b == Tail(a)
<1>1. b \in Seq(Scope) /\ Len(b) = Len(a) - 1 /\ \A i \in 1 .. Len(b) : b[i] = a[i + 1]
  OBVIOUS
<1> HIDE DEF b
<1>2. Grounded(b)
  <2>1. Len(b) \in 1 .. Len(b) /\ Len(b) + 1 = Len(a)
    BY <1>1
  <2> QED
    BY <1>1, <2>1 DEF Grounded
<1> DEFINE f == [v \in VisibleIn(b) |-> << v[1] + 1, v[2] >>]
<1>3. ASSUME NEW v \in VisibleIn(b)
      PROVE << v[1] + 1, v[2] >> \in VisibleIn(a)
            /\ SlotIn(b, v) = SlotIn(a, << v[1] + 1, v[2] >>)
  <2>1. v[1] \in 1 .. Len(b) /\ v[2] \in Names /\ b[v[1]][v[2]] # NoSlot
    BY DEF VisibleIn
  <2>2. v[1] + 1 \in 1 .. Len(a) /\ b[v[1]] = a[v[1] + 1]
    BY <1>1, <2>1
  <2> QED
    BY <2>1, <2>2 DEF VisibleIn, SlotIn
<1>4. ASSUME NEW v \in VisibleIn(b), NEW w \in VisibleIn(b), f[v] = f[w] PROVE v = w
  <2>1. /\ v[1] \in 1 .. Len(b) /\ w[1] \in 1 .. Len(b)
        /\ v = << v[1], v[2] >> /\ w = << w[1], w[2] >>
    BY <1>1, VisibleSlots
  <2>2. v[1] + 1 = w[1] + 1 /\ v[2] = w[2]
    BY <1>4
  <2>3. v[1] = w[1]
    BY <2>1, <2>2
  <2> QED
    BY <2>1, <2>2, <2>3, Zenon
<1>5. /\ f \in [VisibleIn(b) -> VisibleIn(a)]
      /\ \A v \in VisibleIn(b) : SlotIn(b, v) = SlotIn(a, f[v])
  BY <1>3
<1> HIDE DEF f
<1> QED
  BY <1>2, <1>4, <1>5, Reindexed DEF b

LEMMA EmptyFramed ==
  ASSUME NEW a \in Seq(Scope), NEW top, Framed(a, top), Grounded(a)
  PROVE LET b == << EmptyScope(Names) >> \o a IN Framed(b, top) /\ Grounded(b)
<1> DEFINE b == << EmptyScope(Names) >> \o a
<1>1. /\ b \in Seq(Scope) /\ Len(b) = Len(a) + 1 /\ b[1] = EmptyScope(Names)
      /\ \A i \in 2 .. Len(b) : b[i] = a[i - 1] /\ i - 1 \in 1 .. Len(a)
      /\ Len(a) \in Nat
  BY EmptyScopeIsScope
<1> HIDE DEF b
<1>2. Grounded(b)
  <2>1. Len(a) > 0 /\ Len(b) - 1 = Len(a) /\ Len(b) \in 2 .. Len(b)
    BY <1>1 DEF Grounded
  <2> QED
    BY <1>1, <2>1 DEF Grounded
<1> DEFINE f == [v \in VisibleIn(b) |-> << v[1] - 1, v[2] >>]
<1>3. ASSUME NEW v \in VisibleIn(b)
      PROVE << v[1] - 1, v[2] >> \in VisibleIn(a)
            /\ SlotIn(b, v) = SlotIn(a, << v[1] - 1, v[2] >>)
  <2>1. v[1] \in 1 .. Len(b) /\ v[2] \in Names /\ b[v[1]][v[2]] # NoSlot
    BY DEF VisibleIn
  <2>2. v[1] # 1
    BY <1>1, <2>1 DEF EmptyScope
  <2>3. v[1] - 1 \in 1 .. Len(a) /\ b[v[1]] = a[v[1] - 1]
    BY <1>1, <2>1, <2>2
  <2> QED
    BY <2>1, <2>3 DEF VisibleIn, SlotIn
<1>4. ASSUME NEW v \in VisibleIn(b), NEW w \in VisibleIn(b), f[v] = f[w] PROVE v = w
  <2>1. /\ v[1] \in 1 .. Len(b) /\ w[1] \in 1 .. Len(b)
        /\ v = << v[1], v[2] >> /\ w = << w[1], w[2] >>
    BY <1>1, VisibleSlots
  <2>2. v[1] - 1 = w[1] - 1 /\ v[2] = w[2]
    BY <1>4
  <2>3. v[1] = w[1]
    BY <2>1, <2>2
  <2> QED
    BY <2>1, <2>2, <2>3, Zenon
<1>5. /\ f \in [VisibleIn(b) -> VisibleIn(a)]
      /\ \A v \in VisibleIn(b) : SlotIn(b, v) = SlotIn(a, f[v])
  BY <1>3
<1> HIDE DEF f
<1> QED
  BY <1>2, <1>4, <1>5, Reindexed DEF b

(* A variable gets the bytes from the offset of the allocator on.          *)
LEMMA DeclaredFramed ==
  ASSUME NEW a \in Seq(Scope), Len(a) > 1, NEW top \in Nat, top >= FirstLocal,
         Framed(a, top), Grounded(a), NEW n \in Names, NEW t \in ValueType
  PROVE LET b == WithEntry(a, n, Slot(top, t))
        IN Framed(b, top + Size(t)) /\ Grounded(b)
<1> DEFINE slot == Slot(top, t)
           b == WithEntry(a, n, slot)
<1>1. slot.addr = top /\ slot.type = t /\ Size(t) \in {1, 2, 4, 8}
  BY SizeValues DEF Slot
<1>2. slot \in [addr : Nat, type : ValueType]
  BY DEF Slot
<1> HIDE DEF slot
<1> DEFINE changed == IF a[1][n] = NoSlot THEN [a[1] EXCEPT ![n] = slot] ELSE a[1]
<1>3. a[1] \in Scope /\ 1 \in 1 .. Len(a)
  OBVIOUS
<1>4. /\ changed \in Scope
      /\ \A m \in Names : changed[m] = IF m = n /\ a[1][n] = NoSlot THEN slot ELSE a[1][m]
  BY <1>2, <1>3 DEF Scope
<1>5. b = [a EXCEPT ![1] = changed]
  BY DEF WithEntry
<1> HIDE DEF changed, b
<1>6. /\ b \in Seq(Scope) /\ Len(b) = Len(a) /\ b[1] = changed
      /\ \A i \in 1 .. Len(a) : i # 1 => b[i] = a[i]
  BY <1>3, <1>4, <1>5, ExceptSeq
<1>7. Grounded(b)
  BY <1>6 DEF Grounded
<1>8. ASSUME NEW v \in VisibleIn(b)
      PROVE \/ v \in VisibleIn(a) /\ SlotIn(b, v) = SlotIn(a, v)
            \/ v = << 1, n >> /\ SlotIn(b, v) = slot
  <2>1. /\ v[1] \in 1 .. Len(b) /\ v[2] \in Names /\ b[v[1]][v[2]] # NoSlot
        /\ v = << v[1], v[2] >> /\ v \in (1 .. Len(a)) \X Names
    BY <1>6 DEF VisibleIn
  <2>2. CASE v[1] # 1
    BY <1>6, <2>1, <2>2 DEF VisibleIn, SlotIn
  <2>3. CASE v[1] = 1
    BY <1>4, <1>6, <2>1, <2>3 DEF VisibleIn, SlotIn
  <2> QED
    BY <2>2, <2>3
<1>9. ASSUME NEW v \in VisibleIn(a)
      PROVE InFrame(SlotIn(a, v), top + Size(t)) /\ Apart(SlotIn(a, v), slot)
            /\ Apart(slot, SlotIn(a, v))
  <2>1. /\ SlotIn(a, v).addr \in Nat /\ Size(SlotIn(a, v).type) \in Nat
        /\ InFrame(SlotIn(a, v), top)
    BY VisibleSlots DEF Framed
  <2>2. SlotIn(a, v).addr + Size(SlotIn(a, v).type) <= top
    BY <2>1 DEF InFrame, FirstLocal
  <2>3. InFrame(SlotIn(a, v), top + Size(t))
    BY <1>1, <2>1, <2>2 DEF InFrame, FirstLocal
  <2>4. Apart(SlotIn(a, v), slot) /\ Apart(slot, SlotIn(a, v))
    BY <1>1, <2>1, <2>2 DEF Apart, Bytes
  <2> QED
    BY <2>3, <2>4
<1>10. InFrame(slot, top + Size(t))
  BY <1>1 DEF InFrame
<1>11. Framed(b, top + Size(t))
  <2>1. ASSUME NEW v \in VisibleIn(b) PROVE InFrame(SlotIn(b, v), top + Size(t))
    BY <1>8, <1>9, <1>10
  <2>2. ASSUME NEW v \in VisibleIn(b), NEW w \in VisibleIn(b), v # w
        PROVE Apart(SlotIn(b, v), SlotIn(b, w))
    <3>1. CASE v \in VisibleIn(a) /\ SlotIn(b, v) = SlotIn(a, v)
               /\ w \in VisibleIn(a) /\ SlotIn(b, w) = SlotIn(a, w)
      BY <2>2, <3>1 DEF Framed
    <3>2. CASE v = << 1, n >> /\ SlotIn(b, v) = slot
      <4>1. w \in VisibleIn(a) /\ SlotIn(b, w) = SlotIn(a, w)
        BY <1>8, <2>2, <3>2
      <4> QED
        BY <1>9, <3>2, <4>1
    <3>3. CASE w = << 1, n >> /\ SlotIn(b, w) = slot
      <4>1. v \in VisibleIn(a) /\ SlotIn(b, v) = SlotIn(a, v)
        BY <1>8, <2>2, <3>3
      <4> QED
        BY <1>9, <3>3, <4>1
    <3> QED
      BY <1>8, <3>1, <3>2, <3>3
  <2> QED
    BY <2>1, <2>2 DEF Framed
<1> QED
  BY <1>7, <1>11 DEF b, slot

(* The homes of the parameters lie below the first local, eight bytes      *)
(* each, and no two parameters have the same.                              *)
LEMMA ParametersFramed ==
  ASSUME NEW p \in Parameters, Len(p) <= MaxRegisterArgs,
         NEW a, a = << EmptyScope(Names) >>
  PROVE LET b == << ParameterScope(p) >> \o a IN Framed(b, FirstLocal) /\ Grounded(b)
<1> DEFINE scope == ParameterScope(p)
           b == << scope >> \o a
           Of(n) == CHOOSE k \in 1 .. Len(p) : p[k][1] = n
<1>1. PICK k \in 0 .. MaxArgs : p \in [1 .. k -> Names \X Types]
  BY DEF Parameters
<1>2. k \in Nat /\ Len(p) = k /\ k <= 4
  BY <1>1, BoundsAssumption DEF MaxRegisterArgs
<1>3. /\ b \in Seq(Scope) /\ Len(b) = 2 /\ b[1] = scope /\ b[2] = EmptyScope(Names)
  BY EmptyScopeIsScope, ParameterScopeIsScope
<1>4. Grounded(b)
  BY <1>3 DEF Grounded
<1>5. ASSUME NEW n \in Names, scope[n] # NoSlot
      PROVE /\ Of(n) \in 1 .. k /\ p[Of(n)][1] = n
            /\ scope[n] = Slot(ArgHome(Of(n)), p[Of(n)][2])
            /\ p[Of(n)][2] \in ValueType
  <2>1. \E i \in 1 .. Len(p) : p[i][1] = n
    BY <1>5 DEF ParameterScope
  <2>2. Of(n) \in 1 .. Len(p) /\ p[Of(n)][1] = n
    BY <2>1
  <2>3. scope[n] = Slot(ArgHome(Of(n)), p[Of(n)][2])
    BY <2>1 DEF ParameterScope
  <2>4. p[Of(n)][2] \in ValueType
    BY <1>1, <1>2, <2>2, TypesAssumption
  <2> QED
    BY <1>2, <2>2, <2>3, <2>4
<1> HIDE DEF b, scope, Of
<1>6. ASSUME NEW v \in VisibleIn(b)
      PROVE /\ v[1] = 1 /\ v[2] \in Names /\ v = << 1, v[2] >>
            /\ Of(v[2]) \in 1 .. 4 /\ p[Of(v[2])][1] = v[2]
            /\ SlotIn(b, v).addr = 8 * Of(v[2])
            /\ Size(SlotIn(b, v).type) \in {1, 2, 4, 8}
  <2>1. v[1] \in {1, 2} /\ v[2] \in Names /\ v = << v[1], v[2] >> /\ SlotIn(b, v) # NoSlot
    BY <1>3 DEF VisibleIn, SlotIn
  <2>2. v[1] = 1 /\ SlotIn(b, v) = scope[v[2]]
    BY <1>3, <2>1 DEF SlotIn, EmptyScope
  <2>3. /\ Of(v[2]) \in 1 .. k /\ p[Of(v[2])][1] = v[2]
        /\ scope[v[2]] = Slot(ArgHome(Of(v[2])), p[Of(v[2])][2])
        /\ p[Of(v[2])][2] \in ValueType
    BY <1>5, <2>1, <2>2
  <2>4. /\ SlotIn(b, v).addr = ArgHome(Of(v[2]))
        /\ SlotIn(b, v).type = p[Of(v[2])][2]
    BY <2>2, <2>3 DEF Slot
  <2>5. Of(v[2]) \in 1 .. 4
    BY <1>2, <2>3
  <2> QED
    BY <2>1, <2>2, <2>3, <2>4, <2>5, SizeValues DEF ArgHome
<1>7. ASSUME NEW v \in VisibleIn(b) PROVE InFrame(SlotIn(b, v), FirstLocal)
  <2>1. /\ Of(v[2]) \in 1 .. MaxRegisterArgs /\ SlotIn(b, v).addr = ArgHome(Of(v[2]))
        /\ SlotIn(b, v).addr + Size(SlotIn(b, v).type) <= FirstLocal
    BY <1>6 DEF MaxRegisterArgs, ArgHome, FirstLocal
  <2> QED
    BY <2>1 DEF InFrame
<1>8. ASSUME NEW v \in VisibleIn(b), NEW w \in VisibleIn(b), v # w
      PROVE Apart(SlotIn(b, v), SlotIn(b, w))
  <2>1. v[2] # w[2]
    BY <1>6, <1>8
  <2>2. Of(v[2]) # Of(w[2])
    BY <1>6, <2>1
  <2>3. /\ Of(v[2]) \in 1 .. 4 /\ Of(w[2]) \in 1 .. 4
        /\ SlotIn(b, v).addr = 8 * Of(v[2]) /\ SlotIn(b, w).addr = 8 * Of(w[2])
        /\ Size(SlotIn(b, v).type) \in {1, 2, 4, 8}
        /\ Size(SlotIn(b, w).type) \in {1, 2, 4, 8}
    BY <1>6
  <2> QED
    BY <2>2, <2>3 DEF Apart, Bytes
<1> QED
  BY <1>4, <1>7, <1>8 DEF Framed, b, scope

-----------------------------------------------------------------------------
(* The handlers.  A variable is declared only inside a function, so the    *)
(* scope at the bottom stays empty, and the parameters of the next         *)
(* function, for which the offset starts again, meet no variable.          *)

LEMMA RootedHasBody ==
  ASSUME NEW a \in Seq(SafeItem), a # << >>, Rooted(a)
  PROVE BodyCount(a) \in Nat \ {0}
<1>1. Len(a) \in BodiesIn(a)
  BY DEF Rooted, BodiesIn, BodyKind
<1>2. IsFiniteSet(BodiesIn(a)) /\ BodyCount(a) \in Nat
  BY BodiesFinite
<1> QED
  BY <1>1, <1>2, FS_EmptySet DEF BodyCount

LEMMA InsideFunction ==
  ASSUME IInv, CInv, NEW what, Doing(what)
  PROVE Len(scopes) > 1 /\ scopes \in Seq(Scope) /\ spOffset \in Nat
<1>1. BodyCount(agenda) \in Nat \ {0} /\ Len(scopes) = 1 + BodyCount(agenda)
  BY HandledHead, Handling, RootedHasBody DEF CInv
<1> QED
  BY <1>1 DEF IInv, FrameInv

LEMMA DeclaringFrame ==
  ASSUME IInv, CInv, FInv, NEW what, Doing(what), NEW item \in SafeItem,
         item.what = "let", Declare(item)
  PROVE FInv'
<1>1. item.name \in Names /\ item.type \in ValueType
  BY ItemFields
<1>2. Size(item.type) \in {1, 2, 4, 8}
  BY <1>1, SizeValues
<1>3. Len(scopes) > 1 /\ scopes \in Seq(Scope) /\ spOffset \in Nat
  BY InsideFunction
<1>4. /\ Framed(WithEntry(scopes, item.name, Slot(spOffset, item.type)),
               spOffset + Size(item.type))
      /\ Grounded(WithEntry(scopes, item.name, Slot(spOffset, item.type)))
  BY <1>1, <1>3, DeclaredFramed DEF FInv
<1>5. spOffset + Size(item.type) >= FirstLocal
  BY <1>2, <1>3 DEF FInv, FirstLocal
<1> QED
  BY <1>4, <1>5 DEF FInv, Declare

LEMMA ClosingFrame ==
  ASSUME IInv, CInv, FInv, NEW what, Doing(what), pop_addr_table, UNCHANGED spOffset
  PROVE FInv'
BY InsideFunction, PoppedFramed DEF FInv, pop_addr_table

LEMMA BeginFunctionFrame == IInv /\ FInv /\ BeginFunction => FInv'
<1> SUFFICES ASSUME IInv, FInv, BeginFunction PROVE FInv'
  OBVIOUS
<1>1. PICK p \in Parameters :
        /\ spOffset' = FirstLocal
        /\ scopes' = IF Len(p) > MaxRegisterArgs THEN << EmptyScope(Names) >> \o scopes
                                                 ELSE << ParameterScope(p) >> \o scopes
  BY DEF BeginFunction
<1>2. scopes = << EmptyScope(Names) >>
  <2>1. agenda = << >> /\ status = "running" /\ scopes \in Seq(Scope)
    BY DEF BeginFunction, IInv, FrameInv
  <2>2. BodiesIn(<< >>) = {}
    BY DEF BodiesIn
  <2>3. BodyCount(agenda) = 0
    BY <2>1, <2>2, FS_EmptySet DEF BodyCount
  <2>4. Len(scopes) = 1
    BY <2>1, <2>3 DEF IInv, ControlInv
  <2> QED
    BY <2>1, <2>4 DEF FInv, Grounded
<1>3. CASE Len(p) > MaxRegisterArgs
  <2>1. Framed(scopes, FirstLocal)
    BY <1>2 DEF Framed, VisibleIn, EmptyScope
  <2>2. scopes \in Seq(Scope)
    BY DEF IInv, FrameInv
  <2>3. Framed(scopes', FirstLocal) /\ Grounded(scopes')
    BY <1>1, <1>3, <2>1, <2>2, EmptyFramed DEF FInv
  <2> QED
    BY <1>1, <2>3 DEF FInv, FirstLocal
<1>4. CASE ~(Len(p) > MaxRegisterArgs)
  <2>1. Len(p) <= MaxRegisterArgs
    <3>1. PICK k \in 0 .. MaxArgs : p \in [1 .. k -> Names \X Types]
      BY DEF Parameters
    <3>2. Len(p) \in Nat
      BY <3>1, BoundsAssumption
    <3> QED
      BY <1>4, <3>2 DEF MaxRegisterArgs
  <2>2. Framed(scopes', FirstLocal) /\ Grounded(scopes')
    BY <1>1, <1>2, <1>4, <2>1, ParametersFramed
  <2> QED
    BY <1>1, <2>2 DEF FInv, FirstLocal
<1> QED
  BY <1>3, <1>4

LEMMA SameFrame ==
  ASSUME FInv, UNCHANGED frameVars
  PROVE FInv'
BY DEF FInv, frameVars

LEMMA NextFrame == IInv /\ CInv /\ FInv /\ [Next]_vars => FInv'
<1> SUFFICES ASSUME IInv, CInv, FInv, [Next]_vars PROVE FInv'
  OBVIOUS
<1>1. CASE BeginFunction
  BY <1>1, BeginFunctionFrame
<1>2. CASE EndFunction \/ EndIf
  BY <1>2, ClosingFrame DEF EndFunction, EndIf
<1>3. CASE EndVarDecl
  <2>1. Doing({"let"}) /\ Declare(Head(agenda))
    BY <1>3 DEF EndVarDecl
  <2>2. Head(agenda) \in SafeItem /\ Head(agenda).what = "let"
    BY <2>1, HandledHead
  <2> QED
    BY <2>1, <2>2, DeclaringFrame
<1>4. CASE StoreLiteral
  <2>1. /\ Doing({"expr"}) /\ Declare(agenda[2])
        /\ Len(agenda) > 1 /\ agenda[2].what = "let"
    BY <1>4 DEF StoreLiteral, Expecting, Initialising, DirectlyUnder
  <2>2. agenda[2] \in SafeItem
    <3>1. agenda \in Seq(SafeItem)
      BY <2>1, HandledHead
    <3>2. 2 \in 1 .. Len(agenda)
      BY <2>1, <3>1
    <3> QED
      BY <3>1, <3>2
  <2> QED
    BY <2>1, <2>2, DeclaringFrame
<1>5. CASE BeginIf
  <2>1. scopes' = << EmptyScope(Names) >> \o scopes /\ UNCHANGED spOffset
    BY <1>5 DEF BeginIf
  <2>2. scopes \in Seq(Scope)
    BY DEF IInv, FrameInv
  <2> QED
    BY <2>1, <2>2, EmptyFramed DEF FInv
<1>6. CASE UNCHANGED frameVars
  BY <1>6, SameFrame
<1>7. CASE VisitVarDecl \/ VisitRet \/ VisitIf \/ VisitExprStatement \/ VisitAssign
           \/ VisitCallStatement \/ EndRet \/ EndExprStatement
  <2>1. UNCHANGED frameVars
    BY <1>7 DEF VisitVarDecl, VisitRet, VisitIf, VisitExprStatement, VisitUse, VisitAssign,
       visitedOnly, VisitCallStatement, BeginCall, EndRet, EndExprStatement
  <2> QED
    BY <2>1, SameFrame
<1>8. CASE VisitLiteral \/ VisitString \/ VisitIdentifier \/ VisitBinary \/ PopLeft
           \/ ApplyOperator \/ VisitCallOperand \/ VisitArgument \/ EndCall
  <2>1. UNCHANGED frameVars
    BY <1>8 DEF VisitLiteral, VisitString, VisitIdentifier, VisitBinary, PopLeft,
       ApplyOperator, VisitCallOperand, VisitArgument, EndCall, BeginCall, visitedOnly
  <2> QED
    BY <2>1, SameFrame
<1>9. CASE WriteToDisk \/ Failure \/ Terminated \/ UNCHANGED vars
  <2>1. UNCHANGED frameVars
    BY <1>9 DEF WriteToDisk, Failure, OutOfRegisters, RejectOperator, PopEmpty, Terminated,
       vars, frameVars
  <2> QED
    BY <2>1, SameFrame
<1> QED
  BY <1>1, <1>2, <1>3, <1>4, <1>5, <1>7, <1>8, <1>9 DEF Next, Statement, Expression

LEMMA InitFrame == Init => FInv
<1> SUFFICES ASSUME Init PROVE FInv
  OBVIOUS
<1>1. scopes = << EmptyScope(Names) >> /\ spOffset = FirstLocal
  BY DEF Init
<1>2. Framed(scopes, spOffset)
  BY <1>1 DEF Framed, VisibleIn, EmptyScope
<1> QED
  BY <1>1, <1>2 DEF FInv, Grounded, FirstLocal

LEMMA FrameInvariant == Spec => []FInv
<1>1. (IInv /\ CInv) /\ FInv /\ [Next]_vars => FInv'
  BY NextFrame
<1> QED
  BY <1>1, InitFrame, ControlInvariant, PTL DEF Spec

(* In every program a variable lies between the first local and the offset *)
(* of the allocator, or is a parameter in its home below them              *)
(* (stack_allocator.cpp:9-37, generator.cpp:240-277).                     *)
THEOREM VariablesInFrame == Spec => []SlotsInFrame
<1>1. FInv => SlotsInFrame
  BY FramedIsProperties DEF FInv
<1> QED
  BY <1>1, FrameInvariant, PTL

(* In every program, whatever its types and the nesting of its blocks, two *)
(* variables that are alive at the same time share no byte of the frame.   *)
THEOREM VariablesApart == Spec => []SlotsDisjoint
<1>1. FInv => SlotsDisjoint
  BY FramedIsProperties DEF FInv
<1> QED
  BY <1>1, FrameInvariant, PTL

-----------------------------------------------------------------------------
(* String literals.                                                        *)

StringsIn(syms, size) ==
  \A i \in 1 .. Len(syms) :
    syms[i].section = 1 =>
      /\ syms[i].value < size
      /\ \A k \in 1 .. (i - 1) : syms[k].section = 1 => syms[k].value < syms[i].value

SymbolRecord == [name : FnNames \cup {"$d"}, section : 0 .. 2, value : Nat]

LEMMA AddedString ==
  ASSUME NEW syms \in Seq(SymbolRecord), NEW size \in Nat, NEW more \in Nat,
         StringsIn(syms, size), NEW x \in SymbolRecord,
         x.section = 1 => x.value = size /\ more > 0
  PROVE StringsIn(Append(syms, x), size + more)
<1> DEFINE new == Append(syms, x)
<1>1. /\ Len(new) = Len(syms) + 1 /\ new[Len(syms) + 1] = x
      /\ \A i \in 1 .. Len(syms) : new[i] = syms[i]
      /\ Len(syms) \in Nat
  OBVIOUS
<1> HIDE DEF new
<1> SUFFICES ASSUME NEW i \in 1 .. Len(new), new[i].section = 1
             PROVE /\ new[i].value < size + more
                   /\ \A k \in 1 .. (i - 1) :
                        new[k].section = 1 => new[k].value < new[i].value
  BY DEF StringsIn, new
<1>2. CASE i \in 1 .. Len(syms)
  <2>1. syms[i] \in SymbolRecord /\ new[i] = syms[i]
    BY <1>1, <1>2
  <2>6. syms[i].value \in Nat /\ syms[i].section = 1
    BY <2>1 DEF SymbolRecord
  <2>2. /\ syms[i].value < size
        /\ \A k \in 1 .. (i - 1) : syms[k].section = 1 => syms[k].value < syms[i].value
    BY <1>2, <2>6 DEF StringsIn
  <2>3. \A k \in 1 .. (i - 1) : new[k] = syms[k]
    BY <1>1, <1>2
  <2>4. syms[i].value < size + more
    BY <2>2, <2>6
  <2> QED
    BY <2>1, <2>2, <2>3, <2>4
<1>3. CASE i = Len(syms) + 1
  <2>1. new[i] = x /\ x.value = size /\ more > 0
    BY <1>1, <1>3
  <2>2. ASSUME NEW k \in 1 .. (i - 1), new[k].section = 1 PROVE new[k].value < size
    BY <1>1, <1>3, <2>2 DEF StringsIn
  <2> QED
    BY <2>1, <2>2
<1> QED
  BY <1>1, <1>2, <1>3

LEMMA NextStrings == IInv /\ StringsIn(symbols, dataLength) /\ [Next]_vars
                       => StringsIn(symbols, dataLength)'
<1> SUFFICES ASSUME IInv, StringsIn(symbols, dataLength), [Next]_vars
             PROVE StringsIn(symbols', dataLength')
  BY DEF StringsIn
<1>1. symbols \in Seq(SymbolRecord) /\ dataLength \in Nat
  BY DEF IInv, ObjectInv, SymbolRecord
<1>2. CASE BeginFunction
  <2>1. PICK f \in FnNames : symbols' = Append(symbols, Symbol(f, 2, codeLength))
    BY <1>2 DEF BeginFunction
  <2>2. dataLength' = dataLength + 0
    BY <1>1, <1>2 DEF BeginFunction
  <2>3. Symbol(f, 2, codeLength) \in SymbolRecord /\ Symbol(f, 2, codeLength).section # 1
    BY DEF Symbol, SymbolRecord, IInv, CodeInv
  <2> QED
    BY <1>1, <2>1, <2>2, <2>3, AddedString, 0 \in Nat
<1>3. CASE VisitString
  <2>1. PICK size \in StringSizes :
          /\ symbols' = Append(symbols, Symbol("$d", 1, dataLength))
          /\ dataLength' = dataLength + (size + 1)
    BY <1>3 DEF VisitString, StringBytes
  <2>2. size + 1 \in Nat /\ size + 1 > 0
    BY BoundsAssumption
  <2>3. /\ Symbol("$d", 1, dataLength) \in SymbolRecord
        /\ Symbol("$d", 1, dataLength).value = dataLength
    BY <1>1 DEF Symbol, SymbolRecord
  <2> QED
    BY <1>1, <2>1, <2>2, <2>3, AddedString
<1>4. CASE EndCall
  <2>1. Head(agenda).name \in FnNames
    BY <1>4, Handling, ItemFields DEF EndCall
  <2>2. /\ symbols' = Append(symbols, Symbol(Head(agenda).name, 0, 0))
        /\ dataLength' = dataLength + 0
    BY <1>1, <1>4 DEF EndCall
  <2>3. /\ Symbol(Head(agenda).name, 0, 0) \in SymbolRecord
        /\ Symbol(Head(agenda).name, 0, 0).section # 1
    BY <2>1 DEF Symbol, SymbolRecord
  <2> QED
    BY <1>1, <2>2, <2>3, AddedString, 0 \in Nat
<1>5. CASE UNCHANGED << symbols, dataLength >>
  BY <1>5
<1>6. CASE EndFunction \/ WriteToDisk \/ Failure \/ Terminated \/ UNCHANGED vars
  BY <1>5, <1>6 DEF EndFunction, WriteToDisk, Failure, OutOfRegisters, RejectOperator,
     PopEmpty, Terminated, vars, objectVars
<1>7. CASE Statement
  BY <1>5, <1>7 DEF Statement, VisitVarDecl, VisitRet, VisitIf, VisitExprStatement, VisitUse,
     VisitAssign, visitedOnly, VisitCallStatement, BeginCall, EndVarDecl, EndRet, BeginIf,
     EndIf, EndExprStatement, objectVars
<1>8. CASE Expression /\ ~VisitString /\ ~EndCall
  BY <1>5, <1>8 DEF Expression, VisitLiteral, VisitIdentifier, StoreLiteral, VisitBinary,
     PopLeft, ApplyOperator, VisitCallOperand, VisitArgument, BeginCall, visitedOnly,
     objectVars
<1> QED
  BY <1>2, <1>3, <1>4, <1>6, <1>7, <1>8 DEF Next, Expression

(* In every program each string literal has bytes of its own in .data, at  *)
(* least its terminator, and its symbol is where they start                *)
(* (generator.cpp:58-81, 567-572).                                         *)
THEOREM StringsApart == Spec => []StringsDistinct
<1>1. Init => StringsIn(symbols, dataLength)
  BY DEF Init, StringsIn
<1>2. StringsIn(symbols, dataLength) => StringsDistinct
  BY DEF StringsIn, StringsDistinct
<1> QED
  BY <1>1, <1>2, NextStrings, InductiveInvariant, PTL DEF Spec

-----------------------------------------------------------------------------
(* Patch sites.  A site is free when it lies in the code and outside all   *)
(* relocated bytes; the sites of the jumps that have been patched and of   *)
(* the ifs that wait for the end of their bodies are free and differ.      *)

RelocationRecord == [vaddr : Nat, symndx : Nat]

RelocationsIn(rels, count, len) ==
  \A i \in 1 .. Len(rels) :
    /\ rels[i].vaddr + 4 <= len
    /\ rels[i].symndx < count
    /\ \A k \in 1 .. (i - 1) : rels[k].vaddr + 4 <= rels[i].vaddr

Free(at, rels, len) ==
  at < len /\ \A i \in 1 .. Len(rels) : at \notin RelocationBytes(rels[i])

JumpsAt(js, rels, len) ==
  /\ \A j \in js : Free(j.at, rels, len)
  /\ \A j, k \in js : j.at = k.at => j = k

IfsAt(a, js, rels, len) ==
  /\ \A i \in 1 .. Len(a) : a[i].what = "if" =>
       Free(a[i].at, rels, len) /\ \A j \in js : j.at # a[i].at
  /\ \A i, k \in 1 .. Len(a) :
       a[i].what = "if" /\ a[k].what = "if" /\ a[i].at = a[k].at => i = k

Lands(js) == \A j \in js : Reach(j) <= 127 => Landing(j) = j.target

SitesInv ==
  /\ RelocationsIn(relocations, Len(symbols), codeLength)
  /\ JumpsAt(jumps, relocations, codeLength)
  /\ IfsAt(agenda, jumps, relocations, codeLength)
  /\ Lands(jumps)

LEMMA RelocationsGrow ==
  ASSUME NEW rels \in Seq(RelocationRecord), NEW count \in Nat, NEW more \in Nat,
         count <= more, NEW len \in Nat, NEW new \in Nat, len <= new,
         RelocationsIn(rels, count, len)
  PROVE /\ RelocationsIn(rels, more, new)
        /\ \A at \in Int : Free(at, rels, len) => Free(at, rels, new)
<1>1. ASSUME NEW i \in 1 .. Len(rels)
      PROVE rels[i].vaddr + 4 <= new /\ rels[i].symndx < more
  <2>1. rels[i] \in RelocationRecord
    OBVIOUS
  <2>2. rels[i].vaddr \in Nat /\ rels[i].symndx \in Nat
    BY <2>1 DEF RelocationRecord
  <2> QED
    BY <2>2 DEF RelocationsIn
<1>2. RelocationsIn(rels, more, new)
  BY <1>1 DEF RelocationsIn
<1>3. \A at \in Int : Free(at, rels, len) => Free(at, rels, new)
  BY DEF Free
<1> QED
  BY <1>2, <1>3

(* A relocation of the last four bytes of the code that is added.          *)
LEMMA RelocationAdded ==
  ASSUME NEW rels \in Seq(RelocationRecord), NEW count \in Nat, NEW len \in Nat,
         NEW size \in Nat, size >= 4, RelocationsIn(rels, count, len)
  PROVE LET more == Append(rels, [vaddr |-> len + size - 4, symndx |-> count])
        IN /\ RelocationsIn(more, count + 1, len + size)
           /\ \A at \in Int : Free(at, rels, len) => Free(at, more, len + size)
<1> DEFINE r == [vaddr |-> len + size - 4, symndx |-> count]
           more == Append(rels, r)
<1>1. r.vaddr = len + size - 4 /\ r.symndx = count /\ r \in RelocationRecord
  BY DEF RelocationRecord
<1> HIDE DEF r
<1>2. /\ Len(more) = Len(rels) + 1 /\ more[Len(rels) + 1] = r /\ Len(rels) \in Nat
      /\ \A i \in 1 .. Len(rels) : more[i] = rels[i]
  BY <1>1
<1> HIDE DEF more
<1>3. ASSUME NEW i \in 1 .. Len(rels)
      PROVE rels[i].vaddr \in Nat /\ rels[i].symndx \in Nat
  <2>1. rels[i] \in RelocationRecord
    OBVIOUS
  <2> QED
    BY <2>1 DEF RelocationRecord
<1>4. ASSUME NEW i \in 1 .. Len(more)
      PROVE /\ more[i].vaddr + 4 <= len + size /\ more[i].symndx < count + 1
            /\ \A k \in 1 .. (i - 1) : more[k].vaddr + 4 <= more[i].vaddr
  <2>1. CASE i \in 1 .. Len(rels)
    <3>1. more[i] = rels[i] /\ \A k \in 1 .. (i - 1) : more[k] = rels[k]
      BY <1>2, <2>1
    <3>2. /\ rels[i].vaddr + 4 <= len /\ rels[i].symndx < count
          /\ \A k \in 1 .. (i - 1) : rels[k].vaddr + 4 <= rels[i].vaddr
      BY <2>1 DEF RelocationsIn
    <3>3. rels[i].vaddr \in Nat /\ rels[i].symndx \in Nat
      BY <1>3, <2>1
    <3>4. rels[i].vaddr + 4 <= len + size /\ rels[i].symndx < count + 1
      BY <3>2, <3>3
    <3> QED
      BY <3>1, <3>2, <3>4
  <2>2. CASE i = Len(rels) + 1
    <3>1. more[i] = r
      BY <1>2, <2>2
    <3>2. ASSUME NEW k \in 1 .. (i - 1) PROVE more[k].vaddr + 4 <= r.vaddr
      <4>1. k \in 1 .. Len(rels) /\ more[k] = rels[k]
        BY <1>2, <2>2
      <4>2. rels[k].vaddr \in Nat /\ rels[k].vaddr + 4 <= len
        BY <1>3, <4>1 DEF RelocationsIn
      <4> QED
        BY <1>1, <4>1, <4>2
    <3> QED
      BY <1>1, <3>1, <3>2
  <2> QED
    BY <1>2, <2>1, <2>2
<1>5. ASSUME NEW at \in Int, Free(at, rels, len) PROVE Free(at, more, len + size)
  <2>1. at < len /\ at < len + size
    BY <1>5 DEF Free
  <2>2. ASSUME NEW i \in 1 .. Len(more) PROVE at \notin RelocationBytes(more[i])
    <3>1. CASE i \in 1 .. Len(rels)
      BY <1>2, <1>5, <3>1 DEF Free
    <3>2. CASE i = Len(rels) + 1
      <4>1. more[i] = r
        BY <1>2, <3>2
      <4> QED
        BY <1>1, <2>1, <4>1 DEF RelocationBytes
    <3> QED
      BY <1>2, <3>1, <3>2
  <2> QED
    BY <2>1, <2>2 DEF Free
<1> QED
  BY <1>4, <1>5 DEF RelocationsIn, more, r

(* The ifs that wait are among those of another agenda.                    *)
LEMMA FewerIfs ==
  ASSUME NEW a \in Seq(SafeItem), a # << >>, NEW js, NEW rels, NEW len,
         IfsAt(a, js, rels, len)
  PROVE IfsAt(Tail(a), js, rels, len)
        /\ (Head(a).what = "if" =>
              \A i \in 1 .. Len(Tail(a)) :
                Tail(a)[i].what = "if" => Tail(a)[i].at # Head(a).at)
<1> DEFINE b == Tail(a)
<1>1. /\ b \in Seq(SafeItem) /\ Len(b) = Len(a) - 1
      /\ \A i \in 1 .. Len(b) : b[i] = a[i + 1] /\ i + 1 \in 1 .. Len(a) /\ i + 1 # 1
      /\ Head(a) = a[1] /\ Len(a) \in Nat \ {0} /\ 1 \in 1 .. Len(a)
  BY TailItems
<1> HIDE DEF b
<1>2. ASSUME NEW i \in 1 .. Len(b), NEW k \in 1 .. Len(b),
             b[i].what = "if", b[k].what = "if", b[i].at = b[k].at
      PROVE i = k
  <2>1. i + 1 = k + 1
    BY <1>1, <1>2 DEF IfsAt
  <2> QED
    BY <2>1
<1>3. ASSUME NEW i \in 1 .. Len(b), b[i].what = "if"
      PROVE Free(b[i].at, rels, len) /\ \A j \in js : j.at # b[i].at
  BY <1>1, <1>3 DEF IfsAt
<1>4. ASSUME a[1].what = "if", NEW i \in 1 .. Len(b), b[i].what = "if"
      PROVE b[i].at # a[1].at
  BY <1>1, <1>4 DEF IfsAt
<1> QED
  BY <1>1, <1>2, <1>3, <1>4 DEF IfsAt, b

NoIfs(items) == \A i \in 1 .. Len(items) : items[i].what # "if"

LEMMA SameIfs ==
  ASSUME NEW items \in Seq(SafeItem), NEW a \in Seq(SafeItem), NoIfs(items),
         NEW js, NEW rels, NEW len, IfsAt(a, js, rels, len)
  PROVE IfsAt(items \o a, js, rels, len)
<1> DEFINE b == items \o a
           k == Len(items)
<1>1. /\ b \in Seq(SafeItem) /\ Len(b) = k + Len(a) /\ k \in Nat /\ Len(a) \in Nat
      /\ \A i \in 1 .. k : b[i] = items[i]
      /\ \A i \in (k + 1) .. (k + Len(a)) : b[i] = a[i - k]
  BY ConcatItems
<1> HIDE DEF b
<1>2. ASSUME NEW i \in 1 .. Len(b), b[i].what = "if"
      PROVE i - k \in 1 .. Len(a) /\ b[i] = a[i - k]
  <2>1. i \notin 1 .. k
    BY <1>1, <1>2 DEF NoIfs
  <2> HIDE DEF k
  <2>2. i \in (k + 1) .. (k + Len(a)) /\ i - k \in 1 .. Len(a)
    BY <1>1, <2>1
  <2> QED
    BY <1>1, <2>2
<1>3. ASSUME NEW i \in 1 .. Len(b), b[i].what = "if"
      PROVE Free(b[i].at, rels, len) /\ \A j \in js : j.at # b[i].at
  BY <1>2, <1>3 DEF IfsAt
<1>4. ASSUME NEW i \in 1 .. Len(b), NEW m \in 1 .. Len(b),
             b[i].what = "if", b[m].what = "if", b[i].at = b[m].at
      PROVE i = m
  <2>1. i - k = m - k
    BY <1>2, <1>4 DEF IfsAt
  <2> QED
    BY <1>1, <2>1
<1> QED
  BY <1>3, <1>4 DEF IfsAt, b

LEMMA OneMoreIf ==
  ASSUME NEW x \in SafeItem, x.what = "if", NEW a \in Seq(SafeItem),
         NEW js, NEW rels, NEW len, IfsAt(a, js, rels, len), Free(x.at, rels, len),
         \A j \in js : j.at # x.at,
         \A i \in 1 .. Len(a) : a[i].what = "if" => a[i].at # x.at
  PROVE IfsAt(<< x >> \o a, js, rels, len)
<1> DEFINE b == << x >> \o a
<1>1. /\ Len(b) = Len(a) + 1 /\ b[1] = x /\ Len(a) \in Nat
      /\ \A i \in 2 .. Len(b) : b[i] = a[i - 1] /\ i - 1 \in 1 .. Len(a)
  OBVIOUS
<1> HIDE DEF b
<1>2. ASSUME NEW i \in 1 .. Len(b), b[i].what = "if"
      PROVE Free(b[i].at, rels, len) /\ \A j \in js : j.at # b[i].at
  <2>1. i = 1 \/ i \in 2 .. Len(b)
    OBVIOUS
  <2> QED
    BY <1>1, <1>2, <2>1 DEF IfsAt
<1>3. ASSUME NEW i \in 2 .. Len(b), NEW m \in 2 .. Len(b),
             b[i].what = "if", b[m].what = "if", b[i].at = b[m].at
      PROVE i = m
  <2>1. i - 1 = m - 1
    BY <1>1, <1>3 DEF IfsAt
  <2> QED
    BY <2>1
<1>4. ASSUME NEW i \in 1 .. Len(b), NEW m \in 1 .. Len(b),
             b[i].what = "if", b[m].what = "if", b[i].at = b[m].at
      PROVE i = m
  <2>1. (i = 1 \/ i \in 2 .. Len(b)) /\ (m = 1 \/ m \in 2 .. Len(b))
    OBVIOUS
  <2> QED
    BY <1>1, <1>3, <1>4, <2>1
<1> QED
  BY <1>2, <1>4 DEF IfsAt, b

(* What holds of sites in the code still holds when the code grows.        *)
LEMMA Carried ==
  ASSUME NEW a \in Seq(SafeItem), NEW js \in SUBSET JumpRecord,
         NEW rels, NEW len, NEW more, NEW new,
         \A at \in Int : Free(at, rels, len) => Free(at, more, new)
  PROVE /\ JumpsAt(js, rels, len) => JumpsAt(js, more, new)
        /\ IfsAt(a, js, rels, len) => IfsAt(a, js, more, new)
<1>1. \A j \in js : j.at \in Int
  BY DEF JumpRecord
<1>2. ASSUME NEW i \in 1 .. Len(a), a[i].what = "if" PROVE a[i].at \in Int
  <2>1. a[i] \in SafeItem
    OBVIOUS
  <2> QED
    BY <1>2, <2>1, ItemFields
<1> QED
  BY <1>1, <1>2 DEF JumpsAt, IfsAt

-----------------------------------------------------------------------------
(* The distances in the code of the operators.                             *)

LEMMA CodeIndex ==
  ASSUME NEW s \in Code, NEW t \in Code
  PROVE /\ \A i \in 1 .. Len(s) : (s \o t)[i] = s[i]
        /\ \A i \in 1 .. Len(t) : (s \o t)[Len(s) + i] = t[i]
BY DEF Code

LEMMA BranchBytes ==
  ASSUME NEW test \in Code, NEW v \in Byte
  PROVE /\ (test \o emit_je_rel8(v))[Len(test) + 2] = v
        /\ (test \o emit_jne_rel8(v))[Len(test) + 2] = v
<1>1. /\ emit_je_rel8(v) \in Code /\ Len(emit_je_rel8(v)) = 2
      /\ emit_jne_rel8(v) \in Code /\ Len(emit_jne_rel8(v)) = 2
  BY JumpCalls, Lengths, Reserved
<1>2. emit_je_rel8(v)[2] = v /\ emit_jne_rel8(v)[2] = v
  BY DEF emit_je_rel8, emit_jne_rel8
<1> DEFINE je == emit_je_rel8(v)
           jne == emit_jne_rel8(v)
<1> HIDE DEF je, jne
<1>3. 2 \in 1 .. Len(je) /\ 2 \in 1 .. Len(jne)
  BY <1>1 DEF je, jne
<1>4. /\ \A i \in 1 .. Len(je) : (test \o je)[Len(test) + i] = je[i]
      /\ \A i \in 1 .. Len(jne) : (test \o jne)[Len(test) + i] = jne[i]
  BY <1>1, CodeIndex DEF je, jne
<1>5. (test \o je)[Len(test) + 2] = je[2] /\ (test \o jne)[Len(test) + 2] = jne[2]
  BY <1>3, <1>4
<1> QED
  BY <1>2, <1>5 DEF je, jne

LEMMA SelectBytes ==
  ASSUME NEW test \in Code, NEW right \in Register, NEW v \in {0, 1}
  PROVE /\ Select(test, right, v)[Len(test) + 5] = 3
        /\ \A i \in 1 .. Len(test) : Select(test, right, v)[i] = test[i]
<1> DEFINE first == emit_mov8_imm(right, v)
           jump == emit_jmp_rel8(3)
           second == emit_mov8_imm(right, 1 - v)
           a == test \o first
           b == a \o jump
<1>1. v \in Byte /\ 1 - v \in Byte
  BY SmallBytes
<1>2. first \in Code /\ jump \in Code /\ second \in Code
  BY <1>1, SmallBytes, RegisterCalls, JumpCalls
<1>3. Len(first) = 3 /\ Len(jump) = 2 /\ jump[2] = 3
  BY <1>1, SmallBytes, Lengths DEF emit_jmp_rel8
<1>4. Select(test, right, v) = b \o second
  BY DEF Select
<1> HIDE DEF first, jump, second
<1>5. a \in Code /\ Len(a) = Len(test) + 3 /\ Len(test) \in Nat
  BY <1>2, <1>3, CodeConcat, CodeLength
<1>6. \A i \in 1 .. Len(test) : a[i] = test[i]
  BY <1>2, CodeIndex
<1> HIDE DEF a
<1>7. b \in Code /\ Len(b) = Len(a) + 2
  <2>1. b \in Code /\ Len(b) = Len(a) + Len(jump)
    BY <1>2, <1>5, CodeConcat
  <2> QED
    BY <1>3, <2>1
<1>8. /\ \A i \in 1 .. Len(a) : b[i] = a[i]
      /\ b[Len(a) + 2] = jump[2]
  BY <1>2, <1>3, <1>5, CodeIndex, 2 \in 1 .. 2
<1> HIDE DEF b
<1>9. \A i \in 1 .. Len(b) : (b \o second)[i] = b[i]
  BY <1>2, <1>7, CodeIndex
<1> DEFINE n == Len(test)
           na == Len(a)
           nb == Len(b)
           code == b \o second
<1> HIDE DEF n, na, nb, code
<1>10. n \in Nat /\ na = n + 3 /\ nb = n + 5
  BY <1>5, <1>7 DEF n, na, nb
<1>11. code[n + 5] = 3
  <2>1. n + 5 \in 1 .. nb /\ na + 2 = n + 5
    BY <1>10
  <2>2. code[n + 5] = b[n + 5]
    BY <1>9, <2>1 DEF nb, code
  <2>3. b[n + 5] = jump[2]
    BY <1>8, <2>1 DEF na
  <2> QED
    BY <1>3, <2>2, <2>3
<1>12. ASSUME NEW i \in 1 .. n PROVE code[i] = test[i]
  <2>1. i \in 1 .. na /\ i \in 1 .. nb
    BY <1>10
  <2>2. code[i] = b[i] /\ b[i] = a[i] /\ a[i] = test[i]
    BY <1>6, <1>8, <1>9, <2>1 DEF n, na, nb, code
  <2> QED
    BY <2>2
<1> QED
  BY <1>4, <1>11, <1>12 DEF n, code

LEMMA CompareBytes ==
  ASSUME NEW op, NEW t, NEW left \in Register, NEW right \in Register
  PROVE LET code == CompareCode(op, t, left, right)
            n == Len(code)
        IN code[n - 3] = 3 /\ code[n - 8] = 5
<1> DEFINE cmp == IF Size(t) = 8 THEN emit_cmp64(left, right) ELSE emit_cmp32_rr(left, right)
           jne == cmp \o emit_jne_rel8(5)
           je == cmp \o emit_je_rel8(5)
           m == Len(cmp) + 2
<1>1. cmp \in Code /\ Len(cmp) \in Nat
  BY TwoRegisterCalls, CodeLength
<1>2. /\ jne \in Code /\ Len(jne) = m /\ jne[m] = 5
      /\ je \in Code /\ Len(je) = m /\ je[m] = 5
  BY <1>1, BranchIsCode, BranchBytes, SmallBytes
<1>3. m \in Nat /\ m \in 1 .. m
  BY <1>1
<1>4. PICK test \in {jne, je} : CompareCode(op, t, left, right) = Select(test, right, 1)
  BY DEF CompareCode
<1> HIDE DEF cmp, jne, je, m
<1>5. test \in Code /\ Len(test) = m /\ test[m] = 5
  BY <1>2, <1>4
<1>6. /\ Len(Select(test, right, 1)) = m + 8
      /\ Select(test, right, 1)[m + 5] = 3
      /\ Select(test, right, 1)[m] = 5
  BY <1>3, <1>5, SelectIsCode, SelectBytes
<1> DEFINE code == CompareCode(op, t, left, right)
           n == Len(code)
<1>7. n = m + 8 /\ code[m + 5] = 3 /\ code[m] = 5
  BY <1>4, <1>6
<1> HIDE DEF code
<1>8. n - 3 = m + 5 /\ n - 8 = m
  BY <1>3, <1>7
<1> HIDE DEF n
<1>9. code[n - 3] = 3 /\ code[n - 8] = 5
  BY <1>7, <1>8
<1> QED
  BY <1>9 DEF code, n

LEMMA TestAndBranch ==
  ASSUME NEW test \in Code, Len(test) = 3, NEW v \in Byte
  PROVE LET je == test \o emit_je_rel8(v)
            jne == test \o emit_jne_rel8(v)
        IN /\ je \in Code /\ Len(je) = 5 /\ je[5] = v
           /\ jne \in Code /\ Len(jne) = 5 /\ jne[5] = v
<1> DEFINE je == test \o emit_je_rel8(v)
           jne == test \o emit_jne_rel8(v)
           n == Len(test)
<1>1. /\ je \in Code /\ Len(je) = n + 2 /\ je[n + 2] = v
      /\ jne \in Code /\ Len(jne) = n + 2 /\ jne[n + 2] = v
  BY BranchIsCode, BranchBytes
<1> HIDE DEF je, jne, n
<1>2. n + 2 = 5
  BY DEF n
<1> QED
  BY <1>1, <1>2 DEF je, jne

LEMMA LogicalBytes ==
  ASSUME NEW op, NEW left \in Register, NEW right \in Register
  PROVE LET code == LogicalCode(op, left, right)
        IN code[15] = 3 /\ code[10] = 5 /\ code[5] = 10
<1> DEFINE leftTest == emit_test8(left, 1)
           rightTest == emit_test8(right, 1)
           leftJne == leftTest \o emit_jne_rel8(10)
           leftJe == leftTest \o emit_je_rel8(10)
           jne == rightTest \o emit_jne_rel8(5)
           je == rightTest \o emit_je_rel8(5)
<1>1. leftTest \in Code /\ Len(leftTest) = 3 /\ rightTest \in Code /\ Len(rightTest) = 3
  BY RegisterCalls, Lengths, SmallBytes
<1>2. /\ leftJne \in Code /\ Len(leftJne) = 5 /\ leftJne[5] = 10
      /\ leftJe \in Code /\ Len(leftJe) = 5 /\ leftJe[5] = 10
  BY <1>1, TestAndBranch, SmallBytes
<1>3. /\ jne \in Code /\ Len(jne) = 5 /\ jne[5] = 5
      /\ je \in Code /\ Len(je) = 5 /\ je[5] = 5
  BY <1>1, TestAndBranch, SmallBytes
<1>4. PICK first \in {leftJne, leftJe}, test \in {jne, je}, v \in {0, 1} :
        LogicalCode(op, left, right) = first \o Select(test, right, v)
  BY DEF LogicalCode
<1> HIDE DEF leftTest, rightTest, leftJne, leftJe, jne, je
<1> DEFINE second == Select(test, right, v)
<1>5. /\ first \in Code /\ Len(first) = 5 /\ first[5] = 10
      /\ test \in Code /\ Len(test) = 5 /\ test[5] = 5
  BY <1>2, <1>3, <1>4
<1>6. /\ second \in Code /\ Len(second) = 13
      /\ second[10] = 3 /\ second[5] = 5
  <2>1. /\ second \in Code /\ Len(second) = Len(test) + 8
        /\ second[Len(test) + 5] = 3
        /\ \A i \in 1 .. Len(test) : second[i] = test[i]
    BY <1>5, SelectIsCode, SelectBytes
  <2> QED
    BY <1>5, <2>1
<1> HIDE DEF second
<1>7. /\ \A i \in 1 .. Len(first) : (first \o second)[i] = first[i]
      /\ \A i \in 1 .. Len(second) : (first \o second)[Len(first) + i] = second[i]
  BY <1>5, <1>6, CodeIndex
<1>8. (first \o second)[5] = 10 /\ (first \o second)[10] = 5 /\ (first \o second)[15] = 3
  <2>1. 5 \in 1 .. Len(first) /\ 5 \in 1 .. Len(second) /\ 10 \in 1 .. Len(second)
        /\ Len(first) + 5 = 10 /\ Len(first) + 10 = 15
    BY <1>5, <1>6
  <2>2. /\ (first \o second)[5] = first[5]
        /\ (first \o second)[Len(first) + 5] = second[5]
        /\ (first \o second)[Len(first) + 10] = second[10]
    BY <1>7, <2>1
  <2> QED
    BY <1>5, <1>6, <2>1, <2>2
<1> QED
  BY <1>4, <1>8 DEF second

(* The jumps inside the code of an operator lie in that code, at places    *)
(* that differ, and land where they should.                                *)
LEMMA BinaryJumpsLand ==
  ASSUME NEW op, NEW t \in ValueType, Handled(op, t),
         NEW left \in Register, NEW right \in Register, NEW base \in Nat
  PROVE LET code == BinaryCode(op, t, left, right)
            js == BinaryJumps(op, right, base, code)
        IN /\ \A j \in js :
                base <= j.at /\ j.at < base + Len(code) /\ Landing(j) = j.target
           /\ \A j, k \in js : j.at = k.at => j = k
<1> DEFINE code == BinaryCode(op, t, left, right)
           n == Len(code)
           end == base + n
           lastMove == end - 3
           branch == lastMove - 2 - 3
           first == branch - 2 - 3
           From(next, target) == Jump(next - 1, code[next - base], target)
           js == BinaryJumps(op, right, base, code)
<1>1. /\ code \in Code /\ n \in Nat
      /\ op \notin Arithmetic => n >= 10
      /\ op \in Logical => n = 18
  BY BinaryCodeIsCode, CodeLength
<1>2. js = IF op \in Arithmetic THEN {}
           ELSE {From(lastMove, end), From(branch, lastMove)}
                \cup (IF op \in Logical THEN {From(first, lastMove)} ELSE {})
  BY Lengths, SmallBytes DEF BinaryJumps
<1>3. op \notin Arithmetic => code[n - 3] = 3 /\ code[n - 8] = 5
  <2>1. CASE op \in Equality
    <3>1. code = CompareCode(op, t, left, right)
      BY <2>1 DEF BinaryCode, Arithmetic, Equality, Logical
    <3> QED
      BY <3>1, CompareBytes
  <2>2. CASE op \in Logical
    <3>1. code = LogicalCode(op, left, right) /\ n = 18
      BY <1>1, <2>2 DEF BinaryCode, Arithmetic, Equality, Logical
    <3>2. n - 3 = 15 /\ n - 8 = 10
      BY <3>1
    <3> QED
      BY <3>1, <3>2, LogicalBytes
  <2> QED
    BY <2>1, <2>2 DEF Handled
<1>4. op \in Logical => code[n - 13] = 10
  <2> SUFFICES ASSUME op \in Logical PROVE code[n - 13] = 10
    OBVIOUS
  <2>1. code = LogicalCode(op, left, right) /\ n = 18
    BY <1>1 DEF BinaryCode, Arithmetic, Equality, Logical
  <2>2. n - 13 = 5
    BY <2>1
  <2> QED
    BY <2>1, <2>2, LogicalBytes
<1> HIDE DEF code, n, js
<1>5. CASE op \in Arithmetic
  BY <1>2, <1>5 DEF js, code
<1>6. CASE op \notin Arithmetic
  <2>1. n \in Nat /\ n >= 10 /\ code[n - 3] = 3 /\ code[n - 8] = 5
    BY <1>1, <1>3, <1>6
  <2>2. /\ lastMove - base = n - 3 /\ branch - base = n - 8 /\ first - base = n - 13
        /\ lastMove - 1 = base + n - 4 /\ branch - 1 = base + n - 9
        /\ first - 1 = base + n - 14 /\ lastMove = base + n - 3
    BY <2>1
  <2>3. /\ From(lastMove, end) = [at |-> base + n - 4, rel |-> 3, target |-> base + n]
        /\ From(branch, lastMove) = [at |-> base + n - 9, rel |-> 5, target |-> base + n - 3]
    BY <2>1, <2>2 DEF Jump
  <2>4. op \in Logical =>
          From(first, lastMove) = [at |-> base + n - 14, rel |-> 10, target |-> base + n - 3]
          /\ n = 18
    BY <1>1, <1>4, <2>2 DEF Jump
  <2> HIDE DEF From, end, lastMove, branch, first
  <2>5. ASSUME NEW j \in js
        PROVE \/ j.at = base + n - 4 /\ j.rel = 3 /\ j.target = base + n
                 /\ j = From(lastMove, end)
              \/ j.at = base + n - 9 /\ j.rel = 5 /\ j.target = base + n - 3
                 /\ j = From(branch, lastMove)
              \/ j.at = base + n - 14 /\ j.rel = 10 /\ j.target = base + n - 3 /\ n = 18
                 /\ j = From(first, lastMove)
    BY <1>2, <1>6, <2>3, <2>4
  <2>6. \A j \in js : base <= j.at /\ j.at < base + n /\ Landing(j) = j.target
    BY <2>1, <2>5 DEF Landing
  <2>7. \A j, k \in js : j.at = k.at => j = k
    BY <2>1, <2>5
  <2> QED
    BY <2>6, <2>7 DEF js, n, code
<1> QED
  BY <1>5, <1>6

-----------------------------------------------------------------------------
(* The code only grows.                                                    *)

LEMMA EmitGrows ==
  ASSUME CodeInv, NEW code \in Code, Emit(code)
  PROVE codeLength' >= codeLength
BY CodeLength DEF CodeInv, Emit

LEMMA FunctionCodeGrows ==
  IInv /\ (BeginFunction \/ EndFunction) => codeLength' >= codeLength
<1>1. ASSUME IInv, BeginFunction PROVE codeLength' >= codeLength
  <2>1. PICK p \in Parameters :
          IF Len(p) > MaxRegisterArgs
            THEN Emit(emit_sub64_imm32(RSP, FrameSize))
            ELSE Emit(emit_sub64_imm32(RSP, FrameSize) \o ParameterCode(p))
    BY <1>1 DEF BeginFunction
  <2>2. emit_sub64_imm32(RSP, FrameSize) \o ParameterCode(p) \in Code
    BY FrameCode, ParameterCodeIsCode, CodeConcat
  <2> QED
    BY <1>1, <2>1, <2>2, FrameCode, EmitGrows DEF IInv
<1>2. ASSUME IInv, EndFunction PROVE codeLength' >= codeLength
  BY <1>2, EmitGrows, FrameCode DEF IInv, EndFunction
<1> QED
  BY <1>1, <1>2

LEMMA StatementCodeGrows ==
  IInv /\ (EndVarDecl \/ EndRet \/ BeginIf) => codeLength' >= codeLength
<1>1. ASSUME IInv, EndVarDecl PROVE codeLength' >= codeLength
  <2>1. Head(agenda) \in SafeItem /\ Head(agenda).what = "let"
    BY <1>1, HandledHead DEF EndVarDecl
  <2>2. Head(agenda).type \in ValueType
    BY <2>1, ItemFields
  <2>3. Top.reg \in Register
    BY <1>1, Popping DEF IInv, EndVarDecl
  <2>4. StoreToSlot(spOffset, Head(agenda).type, Top.reg) \in Code
    BY <1>1, <2>2, <2>3, StoreToSlotIsCode DEF IInv, FrameInv
  <2> QED
    BY <1>1, <2>4, EmitGrows DEF IInv, EndVarDecl
<1>2. ASSUME IInv, EndRet PROVE codeLength' >= codeLength
  <2>1. Top.reg \in Register
    BY <1>2, Popping DEF IInv, EndRet
  <2>2. emit_mov32_rr(RAX, Top.reg) \in Code
    BY <2>1, Reserved, TwoRegisterCalls
  <2> QED
    BY <1>2, <2>2, EmitGrows DEF IInv, EndRet
<1>3. ASSUME IInv, BeginIf PROVE codeLength' >= codeLength
  <2>1. Top.reg \in Register
    BY <1>3, Popping DEF IInv, BeginIf
  <2>2. emit_test8(Top.reg, 1) \o emit_je_rel8(0) \in Code
    BY <2>1, RegisterCalls, JumpCalls, SmallBytes, CodeConcat
  <2> QED
    BY <1>3, <2>2, EmitGrows DEF IInv, BeginIf
<1> QED
  BY <1>1, <1>2, <1>3

LEMMA LeafCodeGrows ==
  IInv /\ (VisitLiteral \/ VisitIdentifier \/ StoreLiteral) => codeLength' >= codeLength
<1>1. ASSUME IInv, VisitLiteral PROVE codeLength' >= codeLength
  <2>1. PICK r \in Register : Emit(emit_mov32_imm(r, 0))
    BY <1>1 DEF VisitLiteral
  <2> QED
    BY <1>1, <2>1, ImmediateCalls, EmitGrows DEF IInv
<1>2. ASSUME IInv, VisitIdentifier PROVE codeLength' >= codeLength
  <2>1. PICK n \in Names, i \in 1 .. Len(scopes), r \in Register :
          Variable(n, i) /\ Emit(LoadFromSlot(r, Wanted, scopes[i][n].addr))
    BY <1>2 DEF VisitIdentifier
  <2>2. scopes[i] \in Scope
    BY <1>2 DEF IInv, FrameInv
  <2>3. scopes[i][n].addr \in Nat
    BY <2>2 DEF Scope, NoSlot, Slot
  <2>4. Wanted \in ValueType
    BY <1>2, WantedIsValueType DEF VisitIdentifier, Expecting
  <2>5. LoadFromSlot(r, Wanted, scopes[i][n].addr) \in Code
    BY <2>3, <2>4, LoadFromSlotIsCode
  <2> QED
    BY <1>2, <2>1, <2>5, EmitGrows DEF IInv
<1>3. ASSUME IInv, StoreLiteral PROVE codeLength' >= codeLength
  <2>1. Wanted \in ValueType /\ spOffset % 256 \in Byte /\ spOffset \in Nat
    BY <1>3, WantedIsValueType, DisplacementIsByte
       DEF StoreLiteral, Expecting, IInv, FrameInv
  <2>2. CASE Size(Wanted) < 8
    <3>1. Emit(ImmediateToSlot(spOffset, Wanted))
      BY <1>3, <2>1, <2>2, SizeValues DEF StoreLiteral
    <3> QED
      BY <1>3, <2>1, <3>1, ImmediateToSlotIsCode, EmitGrows DEF IInv
  <2>3. CASE ~(Size(Wanted) < 8)
    <3>1. PICK r \in Register :
            Emit(emit_mov64_imm(r, 0) \o emit_spd_mov64_store(spOffset % 256, r))
      BY <1>3, <2>3 DEF StoreLiteral
    <3>2. emit_mov64_imm(r, 0) \o emit_spd_mov64_store(spOffset % 256, r) \in Code
      BY <2>1, ImmediateCalls, StoreCalls, CodeConcat, 0 \in Nat
    <3> QED
      BY <1>3, <3>1, <3>2, EmitGrows DEF IInv
  <2> QED
    BY <2>2, <2>3
<1> QED
  BY <1>1, <1>2, <1>3

-----------------------------------------------------------------------------
(* Which ifs wait after a step.                                            *)

LEMMA ReplacedIfs ==
  ASSUME IInv, NEW what, Doing(what), NEW items \in Seq(SafeItem), NoIfs(items),
         Replace(items), IfsAt(agenda, jumps, relocations, codeLength)
  PROVE IfsAt(agenda', jumps, relocations, codeLength)
<1>1. agenda \in Seq(SafeItem) /\ agenda # << >> /\ Tail(agenda) \in Seq(SafeItem)
  BY HandledHead
<1>2. IfsAt(Tail(agenda), jumps, relocations, codeLength)
  BY <1>1, FewerIfs
<1>3. IfsAt(items \o Tail(agenda), jumps, relocations, codeLength)
  BY <1>1, <1>2, SameIfs
<1> QED
  BY <1>3 DEF Replace

LEMMA EnteredIfs ==
  ASSUME IInv, NEW items \in Seq(SafeItem), NoIfs(items),
         Enter(items), IfsAt(agenda, jumps, relocations, codeLength)
  PROVE IfsAt(agenda', jumps, relocations, codeLength)
<1>1. agenda \in Seq(SafeItem)
  BY DEF IInv, ControlInv
<1> QED
  BY <1>1, SameIfs DEF Enter

LEMMA Few ==
  /\ NoIfs(<< >>)
  /\ \A x : x.what # "if" => NoIfs(<< x >>)
  /\ \A x, y : x.what # "if" /\ y.what # "if" => NoIfs(<< x, y >>)
BY DEF NoIfs

(* Visits that go below the head, or replace it by others.                 *)
LEMMA EnteringIfs ==
  ASSUME IInv, IfsAt(agenda, jumps, relocations, codeLength),
         BeginFunction \/ VisitVarDecl \/ VisitRet \/ VisitIf \/ VisitExprStatement
         \/ VisitCallStatement
  PROVE IfsAt(agenda', jumps, relocations, codeLength)
<1>1. CASE UNCHANGED agenda
  BY <1>1
<1>2. CASE BeginFunction /\ ~UNCHANGED agenda
  <2>1. Enter(<< FnItem >>)
    BY <1>2 DEF BeginFunction
  <2>2. << FnItem >> \in Seq(SafeItem) /\ NoIfs(<< FnItem >>)
    BY HandlersPush, OneItem, ItemFieldsByName, Few
  <2> QED
    BY <2>1, <2>2, EnteredIfs
<1>3. CASE VisitVarDecl \/ VisitRet \/ VisitIf \/ VisitExprStatement
  <2>1. PICK t \in ValueType, y \in SafeItem :
          y.what # "if" /\ Enter(<< ExprItem(t), y >>)
    <3>1. CASE VisitVarDecl
      <4>1. PICK n \in Names, t \in Types : Enter(<< ExprItem(t), LetItem(n, t, NextNode) >>)
        BY <3>1 DEF VisitVarDecl
      <4> QED
        BY <4>1, HandlersPush, ItemFieldsByName, TypesAssumption
    <3>2. ASSUME NEW kind, NEW what \in UseKind, NEW types \in SUBSET ValueType,
                 VisitUse(kind, what, types)
          PROVE \E t \in ValueType, y \in SafeItem :
                  y.what # "if" /\ Enter(<< ExprItem(t), y >>)
      <4>1. PICK t \in types : Enter(<< ExprItem(t), UseItem(what, NextNode) >>)
        BY <3>2 DEF VisitUse
      <4>2. NextNode \in Nat
        BY DEF IInv, CountersInv, NextNode
      <4>3. /\ UseItem(what, NextNode) \in SafeItem
            /\ UseItem(what, NextNode).what = what /\ what # "if"
        BY <4>2, HandlersPush, ItemFieldsByName DEF UseKind
      <4> QED
        BY <4>1, <4>3
    <3>3. Types \in SUBSET ValueType /\ {"bool"} \in SUBSET ValueType
      BY TypesAssumption DEF ValueType
    <3>4. "ret" \in UseKind /\ "test" \in UseKind /\ "discard" \in UseKind
      BY DEF UseKind
    <3> QED
      BY <1>3, <3>1, <3>2, <3>3, <3>4 DEF VisitRet, VisitIf, VisitExprStatement
  <2>2. ExprItem(t) \in SafeItem /\ ExprItem(t).what # "if"
    BY HandlersPush, ItemFieldsByName
  <2>3. << ExprItem(t), y >> \in Seq(SafeItem) /\ NoIfs(<< ExprItem(t), y >>)
    BY <2>1, <2>2, TwoItems, Few
  <2> QED
    BY <2>1, <2>3, EnteredIfs
<1>4. CASE VisitCallStatement
  <2>1. PICK f \in FnNames : Enter(<< CallItem(f, Len(evalStack), 0) >>)
    BY <1>4 DEF VisitCallStatement
  <2> DEFINE x == CallItem(f, Len(evalStack), 0)
  <2>2. x \in SafeItem /\ x.what # "if"
    BY HandlersPush, ItemFieldsByName
  <2> HIDE DEF x
  <2>3. << x >> \in Seq(SafeItem) /\ NoIfs(<< x >>)
    BY <2>2, OneItem, Few
  <2> QED
    BY <2>1, <2>3, EnteredIfs DEF x
<1> QED
  BY <1>1, <1>2, <1>3, <1>4

LEMMA DescendingIfs ==
  ASSUME IInv, IfsAt(agenda, jumps, relocations, codeLength),
         VisitBinary \/ PopLeft \/ VisitCallOperand \/ VisitArgument
  PROVE IfsAt(agenda', jumps, relocations, codeLength)
<1>1. CASE VisitCallOperand
  <2>1. PICK f \in FnNames : Replace(<< CallItem(f, Len(evalStack), 0) >>)
    BY <1>1 DEF VisitCallOperand
  <2> DEFINE x == CallItem(f, Len(evalStack), 0)
  <2>2. x \in SafeItem /\ x.what # "if"
    BY HandlersPush, ItemFieldsByName
  <2> HIDE DEF x
  <2>3. << x >> \in Seq(SafeItem) /\ NoIfs(<< x >>) /\ Doing({"expr"})
    BY <1>1, <2>2, OneItem, Few DEF VisitCallOperand, Expecting
  <2> QED
    BY <2>1, <2>3, ReplacedIfs DEF x
<1>2. CASE VisitBinary \/ PopLeft \/ VisitArgument
  <2>1. PICK what \in {{"expr"}, {"left"}, {"call"}}, t \in ValueType, y \in SafeItem :
          Doing(what) /\ y.what # "if" /\ Replace(<< ExprItem(t), y >>)
    <3>1. CASE VisitBinary
      <4>1. PICK op \in Operators, t \in Types :
              Replace(<< ExprItem(t), LeftItem(op, t, ThisNode, NextNode) >>)
        BY <3>1 DEF VisitBinary
      <4>2. LeftItem(op, t, ThisNode, NextNode) \in SafeItem /\ t \in ValueType
        BY HandlersPush, TypesAssumption
      <4>3. LeftItem(op, t, ThisNode, NextNode).what # "if"
        BY ItemFieldsByName
      <4>4. Doing({"expr"})
        BY <3>1 DEF VisitBinary, Expecting
      <4> QED
        BY <4>1, <4>2, <4>3, <4>4
    <3>2. CASE PopLeft
      <4> DEFINE item == Head(agenda)
                 y == RightItem(item.op, item.type, item.node, ThisNode, Top.reg, item.of)
      <4>1. Doing({"left"}) /\ evalStack # << >> /\ Replace(<< ExprItem(item.type), y >>)
        BY <3>2 DEF PopLeft
      <4>2. item \in SafeItem /\ item.what = "left"
        BY <4>1, HandledHead
      <4>3. Top.reg \in Register \ {RAX, RSP} /\ ThisNode \in Nat
        BY <4>1, Popping DEF IInv, CountersInv, ThisNode
      <4>4. item.type \in ValueType /\ y \in SafeItem
        BY <4>2, <4>3, ItemFields, ItemsTyped
      <4>5. y.what # "if"
        BY ItemFieldsByName
      <4> HIDE DEF item, y
      <4> QED
        BY <4>1, <4>4, <4>5
    <3>3. CASE VisitArgument
      <4> DEFINE item == Head(agenda)
                 y == [item EXCEPT !.count = item.count + 1]
      <4>1. Doing({"call"})
        BY <3>3 DEF VisitArgument
      <4>2. PICK t \in Types : Replace(<< ExprItem(t), y >>)
        BY <3>3 DEF VisitArgument
      <4>3. item \in SafeItem /\ item.what = "call"
        BY <4>1, HandledHead
      <4>4. y \in SafeItem /\ y.what # "if"
        BY <4>3 DEF SafeItem, Item, UseKind
      <4> HIDE DEF item, y
      <4> QED
        BY <4>1, <4>2, <4>4, TypesAssumption
    <3> QED
      BY <1>2, <3>1, <3>2, <3>3
  <2>2. ExprItem(t) \in SafeItem /\ ExprItem(t).what # "if"
    BY HandlersPush, ItemFieldsByName
  <2>3. << ExprItem(t), y >> \in Seq(SafeItem) /\ NoIfs(<< ExprItem(t), y >>)
    BY <2>1, <2>2, TwoItems, Few
  <2> QED
    BY <2>1, <2>3, ReplacedIfs
<1> QED
  BY <1>1, <1>2

(* Visits that end.                                                        *)
LEMMA EndingIfs ==
  ASSUME IInv, IfsAt(agenda, jumps, relocations, codeLength),
         NEW what, Doing(what), Replace(<< >>)
  PROVE IfsAt(agenda', jumps, relocations, codeLength)
BY ReplacedIfs, NoItems, Few

LEMMA StoreLiteralIfs ==
  ASSUME IInv, IfsAt(agenda, jumps, relocations, codeLength), StoreLiteral
  PROVE IfsAt(agenda', jumps, relocations, codeLength)
<1> DEFINE b == Tail(agenda)
<1>1. agenda' = Tail(b) /\ Doing({"expr"}) /\ Len(agenda) > 1
  BY DEF StoreLiteral, Expecting, Initialising, DirectlyUnder
<1>2. /\ agenda \in Seq(SafeItem) /\ agenda # << >> /\ b \in Seq(SafeItem)
      /\ b # << >>
  <2>1. agenda \in Seq(SafeItem) /\ agenda # << >>
    BY <1>1, HandledHead
  <2> QED
    BY <1>1, <2>1
<1>3. IfsAt(b, jumps, relocations, codeLength)
  BY <1>2, FewerIfs
<1> HIDE DEF b
<1> QED
  BY <1>1, <1>2, <1>3, FewerIfs

-----------------------------------------------------------------------------
(* The steps keep the sites apart.                                         *)

LEMMA QuietSites ==
  ASSUME IInv, IInv', SitesInv, UNCHANGED << jumps, relocations >>,
         codeLength' >= codeLength, Len(symbols') >= Len(symbols),
         IfsAt(agenda', jumps, relocations, codeLength)
  PROVE SitesInv'
<1>1. /\ relocations \in Seq(RelocationRecord) /\ codeLength \in Nat /\ codeLength' \in Nat
      /\ Len(symbols) \in Nat /\ Len(symbols') \in Nat /\ jumps \in SUBSET JumpRecord
      /\ agenda' \in Seq(SafeItem)
  BY DEF IInv, CodeInv, ObjectInv, ControlInv, RelocationRecord
<1>2. /\ RelocationsIn(relocations, Len(symbols'), codeLength')
      /\ \A at \in Int :
           Free(at, relocations, codeLength) => Free(at, relocations, codeLength')
  BY <1>1, RelocationsGrow DEF SitesInv
<1>3. /\ JumpsAt(jumps, relocations, codeLength')
      /\ IfsAt(agenda', jumps, relocations, codeLength')
  BY <1>1, <1>2, Carried DEF SitesInv
<1> QED
  BY <1>2, <1>3 DEF SitesInv

LEMMA RelocatingSites ==
  ASSUME IInv, IInv', SitesInv, UNCHANGED jumps,
         NEW code \in Code, Len(code) >= 4, Emit(code), Relocate(code),
         Len(symbols') = Len(symbols) + 1,
         IfsAt(agenda', jumps, relocations, codeLength)
  PROVE SitesInv'
<1> DEFINE size == Len(code)
           count == Len(symbols)
<1>1. /\ relocations \in Seq(RelocationRecord) /\ codeLength \in Nat
      /\ count \in Nat /\ size \in Nat /\ size >= 4
      /\ jumps \in SUBSET JumpRecord /\ agenda' \in Seq(SafeItem)
      /\ RelocationsIn(relocations, count, codeLength)
  BY CodeLength DEF IInv, CodeInv, ObjectInv, ControlInv, RelocationRecord, SitesInv
<1>2. /\ relocations' = Append(relocations, [vaddr |-> codeLength + size - 4, symndx |-> count])
      /\ codeLength' = codeLength + size /\ Len(symbols') = count + 1
  BY DEF Relocate, Emit
<1> HIDE DEF size, count
<1>3. /\ RelocationsIn(relocations', count + 1, codeLength + size)
      /\ \A at \in Int :
           Free(at, relocations, codeLength) => Free(at, relocations', codeLength + size)
  BY <1>1, <1>2, RelocationAdded
<1>4. /\ JumpsAt(jumps, relocations', codeLength + size)
      /\ IfsAt(agenda', jumps, relocations', codeLength + size)
  BY <1>1, <1>3, Carried DEF SitesInv
<1> QED
  BY <1>2, <1>3, <1>4 DEF SitesInv

(* Bytes that are emitted are free until they are relocated.               *)
LEMMA NewIsFree ==
  ASSUME NEW rels \in Seq(RelocationRecord), NEW count, NEW len \in Nat,
         RelocationsIn(rels, count, len), NEW new \in Int,
         NEW at \in Int, len <= at, at < new
  PROVE Free(at, rels, new)
<1> SUFFICES ASSUME NEW i \in 1 .. Len(rels) PROVE at \notin RelocationBytes(rels[i])
  BY DEF Free
<1>1. rels[i] \in RelocationRecord
  OBVIOUS
<1>2. rels[i].vaddr \in Nat /\ rels[i].vaddr + 4 <= len
  BY <1>1 DEF RelocationsIn, RelocationRecord
<1> QED
  BY <1>2 DEF RelocationBytes

LEMMA BeginIfSites ==
  ASSUME IInv, IInv', SitesInv, BeginIf
  PROVE SitesInv'
<1> DEFINE code == emit_test8(Top.reg, 1) \o emit_je_rel8(0)
           size == Len(code)
           at == codeLength + size - 1
           a == Tail(agenda)
<1>1. /\ Doing({"test"}) /\ evalStack # << >>
      /\ codeLength' = codeLength + size /\ agenda' = << IfItem(at) >> \o a
      /\ UNCHANGED << jumps, relocations, symbols >>
  BY DEF BeginIf, Emit, Replace, objectVars
<1>2. Top.reg \in Register
  BY <1>1, Popping DEF IInv
<1>3. code \in Code /\ size \in Nat /\ size > 0
  <2>1. emit_test8(Top.reg, 1) \in Code /\ Len(emit_test8(Top.reg, 1)) = 3
    BY <1>2, RegisterCalls, Lengths, SmallBytes
  <2> HIDE DEF code
  <2>2. code \in Code /\ size = 5
    BY <2>1, TestAndBranch, SmallBytes DEF code
  <2> QED
    BY <2>2
<1> HIDE DEF code, size
<1>4. /\ relocations \in Seq(RelocationRecord) /\ codeLength \in Nat
      /\ Len(symbols) \in Nat /\ jumps \in SUBSET JumpRecord
      /\ RelocationsIn(relocations, Len(symbols), codeLength)
  BY DEF IInv, CodeInv, ObjectInv, RelocationRecord, SitesInv
<1>5. at \in Int /\ codeLength <= at /\ at < codeLength + size /\ codeLength + size \in Nat
      /\ codeLength <= codeLength + size
  BY <1>3, <1>4
<1> HIDE DEF at
<1>6. agenda \in Seq(SafeItem) /\ agenda # << >> /\ a \in Seq(SafeItem)
  BY <1>1, HandledHead
<1>7. IfsAt(a, jumps, relocations, codeLength)
  BY <1>6, FewerIfs DEF SitesInv
<1> HIDE DEF a
<1>8. /\ RelocationsIn(relocations, Len(symbols), codeLength + size)
      /\ \A n \in Int :
           Free(n, relocations, codeLength) => Free(n, relocations, codeLength + size)
  BY <1>4, <1>5, RelocationsGrow
<1>9. /\ JumpsAt(jumps, relocations, codeLength + size)
      /\ IfsAt(a, jumps, relocations, codeLength + size)
  BY <1>4, <1>6, <1>7, <1>8, Carried DEF SitesInv
<1>10. Free(at, relocations, codeLength + size)
  BY <1>4, <1>5, NewIsFree
<1>11. \A j \in jumps : j.at # at
  <2> SUFFICES ASSUME NEW j \in jumps PROVE j.at # at
    OBVIOUS
  <2>1. j.at < codeLength /\ j.at \in Int
    BY <1>4 DEF SitesInv, JumpsAt, Free, JumpRecord
  <2> QED
    BY <1>4, <1>5, <2>1
<1>12. ASSUME NEW i \in 1 .. Len(a), a[i].what = "if" PROVE a[i].at # at
  <2>1. a[i] \in SafeItem
    BY <1>6
  <2>2. a[i].at \in Int /\ a[i].at < codeLength
    BY <1>7, <1>12, <2>1, ItemFields DEF IfsAt, Free
  <2> QED
    BY <1>4, <1>5, <2>2
<1> DEFINE x == IfItem(at)
<1>13. x \in SafeItem /\ x.what = "if" /\ x.at = at
  BY <1>5, ItemsTyped DEF IfItem
<1> HIDE DEF x
<1>14. IfsAt(<< x >> \o a, jumps, relocations, codeLength + size)
  BY <1>6, <1>9, <1>10, <1>11, <1>12, <1>13, OneMoreIf
<1> QED
  BY <1>1, <1>8, <1>9, <1>14 DEF SitesInv, x

LEMMA EndIfSites ==
  ASSUME IInv, IInv', SitesInv, EndIf
  PROVE SitesInv'
<1> DEFINE at == Head(agenda).at
           j == Jump(at, IfDistance(at), codeLength)
           a == Tail(agenda)
<1>1. /\ Doing({"if"}) /\ jumps' = jumps \cup {j} /\ Replace(<< >>)
      /\ UNCHANGED << codeLength, relocations, symbols >>
  BY DEF EndIf, objectVars
<1>2. /\ agenda \in Seq(SafeItem) /\ agenda # << >> /\ Head(agenda) \in SafeItem
      /\ Head(agenda).what = "if" /\ a \in Seq(SafeItem)
  BY <1>1, HandledHead
<1>3. agenda' = a
  BY <1>1, <1>2 DEF Replace
<1>4. at \in Int /\ codeLength \in Nat /\ jumps \in SUBSET JumpRecord
  BY <1>2, ItemFields DEF IInv, CodeInv
<1>5. Head(agenda) = agenda[1] /\ 1 \in 1 .. Len(agenda)
  BY <1>2
<1>6. Free(at, relocations, codeLength) /\ \A k \in jumps : k.at # at
  BY <1>2, <1>5 DEF SitesInv, IfsAt
<1>7. /\ IfsAt(a, jumps, relocations, codeLength)
      /\ \A i \in 1 .. Len(a) : a[i].what = "if" => a[i].at # at
  BY <1>2, FewerIfs DEF SitesInv
<1>8. j.at = at /\ j.target = codeLength /\ j.rel = (codeLength - 1 - at) % 256
  BY DEF Jump, IfDistance
<1> HIDE DEF at, j, a
<1>9. Reach(j) <= 127 => Landing(j) = j.target
  <2> SUFFICES ASSUME Reach(j) <= 127 PROVE Landing(j) = j.target
    OBVIOUS
  <2>1. at < codeLength /\ codeLength - (at + 1) <= 127
    BY <1>6, <1>8 DEF Free, Reach
  <2>2. codeLength - 1 - at \in 0 .. 127
    BY <1>4, <2>1
  <2>3. j.rel = codeLength - 1 - at
    BY <1>8, <2>2
  <2> QED
    BY <1>4, <1>8, <2>2, <2>3 DEF Landing
<1>10. Lands(jumps \cup {j})
  BY <1>9 DEF SitesInv, Lands
<1>11. JumpsAt(jumps \cup {j}, relocations, codeLength)
  BY <1>6, <1>8 DEF SitesInv, JumpsAt
<1>12. IfsAt(a, jumps \cup {j}, relocations, codeLength)
  BY <1>7, <1>8 DEF IfsAt
<1> QED
  BY <1>1, <1>3, <1>10, <1>11, <1>12 DEF SitesInv

LEMMA ApplyOperatorSites ==
  ASSUME IInv, IInv', SitesInv, ApplyOperator
  PROVE SitesInv'
<1> DEFINE item == Head(agenda)
           right == Top.reg
           code == BinaryCode(item.op, item.type, item.left, right)
           size == Len(code)
           js == BinaryJumps(item.op, right, codeLength, code)
           end == codeLength + size
<1>1. /\ Doing({"right"}) /\ evalStack # << >> /\ Handled(item.op, item.type)
      /\ codeLength' = end /\ jumps' = jumps \cup js /\ Replace(<< >>)
      /\ UNCHANGED << relocations, symbols >>
  BY DEF ApplyOperator, Emit, objectVars
<1>2. item \in SafeItem /\ item.what = "right"
  BY <1>1, HandledHead
<1>3. item.type \in ValueType /\ item.left \in Register /\ right \in Register
  BY <1>1, <1>2, ItemFields, Popping DEF IInv
<1>4. /\ relocations \in Seq(RelocationRecord) /\ codeLength \in Nat
      /\ Len(symbols) \in Nat /\ jumps \in SUBSET JumpRecord /\ agenda' \in Seq(SafeItem)
      /\ RelocationsIn(relocations, Len(symbols), codeLength)
  BY DEF IInv, CodeInv, ObjectInv, ControlInv, RelocationRecord, SitesInv
<1>5. /\ code \in Code /\ size \in Nat /\ js \subseteq JumpRecord
      /\ \A j \in js : codeLength <= j.at /\ j.at < end /\ Landing(j) = j.target
      /\ \A j, k \in js : j.at = k.at => j = k
  BY <1>1, <1>3, <1>4, BinaryCodeIsCode, BinaryJumpsTyped, BinaryJumpsLand, CodeLength
<1>6. IfsAt(agenda', jumps, relocations, codeLength)
  BY <1>1, EndingIfs DEF SitesInv
<1> HIDE DEF item, right, code, size, js
<1>7. end \in Nat /\ codeLength <= end
  BY <1>4, <1>5
<1> HIDE DEF end
<1>8. /\ RelocationsIn(relocations, Len(symbols), end)
      /\ \A n \in Int : Free(n, relocations, codeLength) => Free(n, relocations, end)
  BY <1>4, <1>7, RelocationsGrow
<1>9. JumpsAt(jumps, relocations, end) /\ IfsAt(agenda', jumps, relocations, end)
  BY <1>4, <1>6, <1>8, Carried DEF SitesInv
<1>10. \A j \in js : j.at \in Int /\ Free(j.at, relocations, end)
  <2> SUFFICES ASSUME NEW j \in js PROVE j.at \in Int /\ Free(j.at, relocations, end)
    OBVIOUS
  <2>1. j.at \in Int /\ codeLength <= j.at /\ j.at < end
    BY <1>5 DEF JumpRecord
  <2> QED
    BY <1>4, <1>7, <2>1, NewIsFree
<1>11. \A j \in js, k \in jumps : j.at # k.at
  <2> SUFFICES ASSUME NEW j \in js, NEW k \in jumps PROVE j.at # k.at
    OBVIOUS
  <2>1. k.at \in Int /\ k.at < codeLength
    BY <1>4 DEF SitesInv, JumpsAt, Free, JumpRecord
  <2>2. j.at \in Int /\ codeLength <= j.at
    BY <1>5, <1>10
  <2> QED
    BY <1>4, <2>1, <2>2
<1>12. JumpsAt(jumps \cup js, relocations, end)
  <2>1. \A j \in jumps \cup js : Free(j.at, relocations, end)
    BY <1>9, <1>10 DEF JumpsAt
  <2>2. \A j, k \in jumps \cup js : j.at = k.at => j = k
    BY <1>5, <1>9, <1>11 DEF JumpsAt
  <2> QED
    BY <2>1, <2>2 DEF JumpsAt
<1>13. IfsAt(agenda', jumps \cup js, relocations, end)
  <2>1. ASSUME NEW i \in 1 .. Len(agenda'), agenda'[i].what = "if", NEW j \in js
        PROVE j.at # agenda'[i].at
    <3>1. agenda'[i] \in SafeItem
      BY <1>4
    <3>2. agenda'[i].at \in Int /\ agenda'[i].at < codeLength
      BY <1>6, <2>1, <3>1, ItemFields DEF IfsAt, Free
    <3>3. j.at \in Int /\ codeLength <= j.at
      BY <1>5, <1>10
    <3> QED
      BY <1>4, <3>2, <3>3
  <2> QED
    BY <1>9, <2>1 DEF IfsAt
<1>14. Lands(jumps \cup js)
  BY <1>5 DEF SitesInv, Lands
<1> QED
  BY <1>1, <1>8, <1>12, <1>13, <1>14 DEF SitesInv

LEMMA RelocatedSites ==
  ASSUME IInv, IInv', SitesInv, VisitString \/ EndCall
  PROVE SitesInv'
<1>1. symbols \in Seq(SymbolRecord)
  BY DEF IInv, ObjectInv, SymbolRecord
<1>2. CASE VisitString
  <2>1. PICK r \in Register :
          /\ Emit(emit_lea64(r, 0)) /\ Relocate(emit_lea64(r, 0))
          /\ symbols' = Append(symbols, Symbol("$d", 1, dataLength))
    BY <1>2 DEF VisitString
  <2>2. Doing({"expr"}) /\ Replace(<< >>) /\ UNCHANGED jumps
    BY <1>2 DEF VisitString, Expecting, historyVars
  <2>3. IfsAt(agenda', jumps, relocations, codeLength)
    BY <2>2, EndingIfs DEF SitesInv
  <2>4. Len(symbols') = Len(symbols) + 1
    BY <1>1, <2>1
  <2> QED
    BY <2>1, <2>2, <2>3, <2>4, AddressedCalls, RelocatingSites
<1>3. CASE EndCall
  <2>1. /\ Emit(emit_call) /\ Relocate(emit_call)
        /\ symbols' = Append(symbols, Symbol(Head(agenda).name, 0, 0))
        /\ Doing({"call"}) /\ Replace(<< >>) /\ UNCHANGED jumps
    BY <1>3 DEF EndCall, historyVars
  <2>2. IfsAt(agenda', jumps, relocations, codeLength)
    BY <2>1, EndingIfs DEF SitesInv
  <2>3. Len(symbols') = Len(symbols) + 1
    BY <1>1, <2>1
  <2> QED
    BY <2>1, <2>2, <2>3, AddressedCalls, Reserved, RelocatingSites
<1> QED
  BY <1>2, <1>3

(* The steps that give the object file nothing, but maybe a symbol.        *)
LEMMA OtherSites ==
  ASSUME IInv, IInv', SitesInv, [Next]_vars,
         ~VisitString, ~EndCall, ~ApplyOperator, ~BeginIf, ~EndIf
  PROVE SitesInv'
<1>1. symbols \in Seq(SymbolRecord) /\ codeLength \in Nat
  BY DEF IInv, ObjectInv, SymbolRecord, CodeInv
<1>2. UNCHANGED << jumps, relocations >>
  <2>1. CASE BeginFunction \/ EndFunction \/ WriteToDisk \/ Failure \/ Terminated
             \/ UNCHANGED vars
    BY <2>1 DEF BeginFunction, EndFunction, WriteToDisk, Failure, OutOfRegisters,
       RejectOperator, PopEmpty, Terminated, vars, objectVars, historyVars
  <2>2. CASE Statement
    BY <2>2 DEF Statement, VisitVarDecl, VisitRet, VisitIf, VisitExprStatement, VisitUse,
       VisitAssign, visitedOnly, VisitCallStatement, BeginCall, EndVarDecl, EndRet,
       EndExprStatement, objectVars, historyVars
  <2>3. CASE Expression
    BY <2>3 DEF Expression, VisitLiteral, VisitIdentifier, StoreLiteral, VisitBinary,
       PopLeft, VisitCallOperand, VisitArgument, BeginCall, visitedOnly, objectVars,
       historyVars
  <2> QED
    BY <2>1, <2>2, <2>3 DEF Next
<1>3. Len(symbols') >= Len(symbols)
  <2>1. CASE UNCHANGED symbols
    BY <1>1, <2>1
  <2>2. CASE BeginFunction
    <3>1. PICK f \in FnNames : symbols' = Append(symbols, Symbol(f, 2, codeLength))
      BY <2>2 DEF BeginFunction
    <3> QED
      BY <1>1, <3>1
  <2>3. CASE EndFunction \/ WriteToDisk \/ Failure \/ Terminated \/ UNCHANGED vars
    BY <2>1, <2>3 DEF EndFunction, WriteToDisk, Failure, OutOfRegisters,
       RejectOperator, PopEmpty, Terminated, vars, objectVars
  <2>4. CASE Statement
    BY <2>1, <2>4 DEF Statement, VisitVarDecl, VisitRet, VisitIf, VisitExprStatement,
       VisitUse, VisitAssign, visitedOnly, VisitCallStatement, BeginCall, EndVarDecl,
       EndRet, EndExprStatement, objectVars
  <2>5. CASE Expression
    BY <2>1, <2>5 DEF Expression, VisitLiteral, VisitIdentifier, StoreLiteral, VisitBinary,
       PopLeft, VisitCallOperand, VisitArgument, BeginCall, visitedOnly, objectVars
  <2> QED
    BY <2>2, <2>3, <2>4, <2>5 DEF Next
<1>4. codeLength' >= codeLength
  <2>1. CASE UNCHANGED codeLength
    BY <1>1, <2>1
  <2>2. CASE BeginFunction \/ EndFunction
    BY <2>2, FunctionCodeGrows
  <2>3. CASE WriteToDisk \/ Failure \/ Terminated \/ UNCHANGED vars
    BY <2>1, <2>3 DEF WriteToDisk, Failure, OutOfRegisters, RejectOperator, PopEmpty,
       Terminated, vars
  <2>4. CASE Statement
    BY <2>1, <2>4, StatementCodeGrows DEF Statement, VisitVarDecl, VisitRet, VisitIf,
       VisitExprStatement, VisitUse, VisitAssign, visitedOnly, VisitCallStatement,
       BeginCall, EndExprStatement
  <2>5. CASE Expression
    BY <2>1, <2>5, LeafCodeGrows DEF Expression, VisitBinary, PopLeft, VisitCallOperand,
       VisitArgument, BeginCall, visitedOnly
  <2> QED
    BY <2>2, <2>3, <2>4, <2>5 DEF Next
<1>5. IfsAt(agenda', jumps, relocations, codeLength)
  <2>1. IfsAt(agenda, jumps, relocations, codeLength)
    BY DEF SitesInv
  <2>2. CASE UNCHANGED agenda
    BY <2>1, <2>2
  <2>3. CASE BeginFunction
    BY <2>1, <2>3, EnteringIfs
  <2>4. CASE EndFunction
    BY <2>1, <2>4, EndingIfs DEF EndFunction
  <2>5. CASE WriteToDisk \/ Failure \/ Terminated \/ UNCHANGED vars
    BY <2>2, <2>5 DEF WriteToDisk, Failure, OutOfRegisters, RejectOperator, PopEmpty,
       Terminated, vars
  <2>6. CASE Statement
    <3>1. CASE VisitVarDecl \/ VisitRet \/ VisitIf \/ VisitExprStatement
               \/ VisitCallStatement
      BY <2>1, <3>1, EnteringIfs
    <3>2. CASE EndVarDecl
      BY <2>1, <3>2, EndingIfs DEF EndVarDecl
    <3>3. CASE EndRet
      BY <2>1, <3>3, EndingIfs DEF EndRet
    <3>4. CASE EndExprStatement
      BY <2>1, <3>4, EndingIfs DEF EndExprStatement
    <3>5. CASE VisitAssign
      BY <2>2, <3>5 DEF VisitAssign
    <3> QED
      BY <2>6, <3>1, <3>2, <3>3, <3>4, <3>5 DEF Statement
  <2>7. CASE Expression
    <3>1. CASE VisitBinary \/ PopLeft \/ VisitCallOperand \/ VisitArgument
      BY <2>1, <3>1, DescendingIfs
    <3>2. CASE VisitLiteral
      BY <2>1, <3>2, EndingIfs DEF VisitLiteral, Expecting
    <3>3. CASE VisitIdentifier
      BY <2>1, <3>3, EndingIfs DEF VisitIdentifier, Expecting
    <3>4. CASE StoreLiteral
      BY <2>1, <3>4, StoreLiteralIfs
    <3> QED
      BY <2>7, <3>1, <3>2, <3>3, <3>4 DEF Expression
  <2> QED
    BY <2>3, <2>4, <2>5, <2>6, <2>7 DEF Next
<1> QED
  BY <1>2, <1>3, <1>4, <1>5, QuietSites

LEMMA NextSites == IInv /\ IInv' /\ SitesInv /\ [Next]_vars => SitesInv'
BY BeginIfSites, EndIfSites, ApplyOperatorSites, RelocatedSites, OtherSites

LEMMA InitSites == Init => SitesInv
BY DEF Init, SitesInv, RelocationsIn, JumpsAt, IfsAt, Lands

LEMMA SitesInvariant == Spec => []SitesInv
<1>1. IInv /\ SitesInv /\ [Next]_vars => (IInv /\ SitesInv)'
  BY NextSafe, NextSites
<1> QED
  BY <1>1, InitSafe, InitSites, PTL DEF Spec

(* In every program the places of the code that are patched later lie in   *)
(* the code and do not overlap: the distance bytes of the jumps            *)
(* (generator.cpp:213-231, 467-547) and the four bytes of each relocation, *)
(* which refers to a symbol that exists (generator.cpp:567-583).           *)
THEOREM SitesApart == Spec => []PatchSitesDisjoint
<1>1. ASSUME IInv, SitesInv PROVE PatchSitesDisjoint
  <2>1. \A i \in 1 .. Len(relocations) : relocations[i].vaddr \in Nat
    <3> SUFFICES ASSUME NEW i \in 1 .. Len(relocations) PROVE relocations[i].vaddr \in Nat
      OBVIOUS
    <3>1. relocations \in Seq(RelocationRecord)
      BY <1>1 DEF IInv, ObjectInv, RelocationRecord
    <3>2. relocations[i] \in RelocationRecord
      BY <3>1
    <3> QED
      BY <3>2 DEF RelocationRecord
  <2>2. ASSUME NEW i \in 1 .. Len(relocations), NEW k \in 1 .. (i - 1)
        PROVE RelocationBytes(relocations[i]) \cap RelocationBytes(relocations[k]) = {}
    <3>1. k \in 1 .. Len(relocations)
      BY <1>1 DEF IInv, ObjectInv
    <3>2. relocations[k].vaddr + 4 <= relocations[i].vaddr
      BY <1>1 DEF SitesInv, RelocationsIn
    <3> QED
      BY <2>1, <3>1, <3>2 DEF RelocationBytes
  <2> QED
    BY <1>1, <2>2 DEF SitesInv, RelocationsIn, JumpsAt, Free, PatchSitesDisjoint
<1> QED
  BY <1>1, InductiveInvariant, SitesInvariant, PTL

(* In every program a jump lands where the comments of the generator say,  *)
(* as long as a one-byte distance reaches that far: the constants 3, 5 and *)
(* 10 match the lengths of the instructions that are jumped over, whatever *)
(* the registers (generator.cpp:467-547), and the distance of an if is     *)
(* that to the end of its body (generator.cpp:213-231).                    *)
THEOREM JumpsLand == Spec => []JumpsLandInReach
<1>1. SitesInv => JumpsLandInReach
  BY DEF SitesInv, Lands, JumpsLandInReach
<1> QED
  BY <1>1, SitesInvariant, PTL
=============================================================================
