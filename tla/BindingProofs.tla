---------------------------- MODULE BindingProofs ----------------------------
(***************************************************************************)
(* Proofs about names.  The parser looks a name up in its scopes at the    *)
(* end of the file, the generator in its address tables while it walks     *)
(* through the code: both find the same declaration.  And unless a name is *)
(* used before its declaration is complete, every type is set before it is *)
(* read.                                                                   *)
(***************************************************************************)
EXTENDS FrontEndProofs

-----------------------------------------------------------------------------
(* Where declarations are on the trail tr, with the history h of the open  *)
(* scopes; t is the tree and T the tables.                                 *)

Leaves(tr, p, n) == p \in 1 .. Len(tr) /\ tr[p].step = "leave" /\ tr[p].node = n
Enters(tr, p, n) == p \in 1 .. Len(tr) /\ tr[p].step = "enter" /\ tr[p].node = n
LeftBefore(tr, p, n) == \E r \in 1 .. (p - 1) : Leaves(tr, r, n)

(* No node is left twice.                                                  *)
LeftOnce(tr) == \A p, r, n : Leaves(tr, p, n) /\ Leaves(tr, r, n) => p = r

Sym(T, s, n) == T[s].symbols[n]
IsSym(T, s, n, d) == s \in 1 .. Len(T) /\ n \in AllNames /\ Sym(T, s, n) = d /\ d # 0

(* A variable is declared in the scope that is open when it is left, and   *)
(* only there.                                                             *)
LetsPlaced(h, tr, t, T) ==
  \A p, m : Leaves(tr, p, m) /\ t[m].kind = "let" =>
    Head(h[p]) # 1 /\ Sym(T, Head(h[p]), t[m].name) = m

LetsFound(h, tr, t, T) ==
  \A s, n, d : IsSym(T, s, n, d) /\ t[d].kind = "let" =>
    \E p : Leaves(tr, p, d) /\ Head(h[p]) = s

(* The parameters of a function are declared in the scope it opens, and    *)
(* nowhere else.                                                           *)
ArgsPlaced(h, tr, t, T) ==
  \A p, f : Enters(tr, p, f) =>
    /\ Head(h[p + 1]) # 1
    /\ t[f].kind = "fn" =>
         \A i \in 1 .. Len(t[f].kids) : Sym(T, Head(h[p + 1]), t[t[f].kids[i]].name) = t[f].kids[i]

ArgOf(t, f, d) == t[f].kind = "fn" /\ \E i \in 1 .. Len(t[f].kids) : t[f].kids[i] = d
ArgsFound(h, tr, t, T) ==
  \A p, f, n, d : Enters(tr, p, f) /\ IsSym(T, Head(h[p + 1]), n, d) /\ t[d].kind = "arg" =>
    ArgOf(t, f, d)

(* The outermost scope only has functions.                                 *)
Outermost(t, T) == \A n, d : IsSym(T, 1, n, d) => t[d].kind = "fn"

(* A scope is opened after all those that were open before.                *)
Newest(h, tr) == \A p, q, f : Enters(tr, p, f) /\ q \in 1 .. p => Head(h[q]) < Head(h[p + 1])

(* What a declaration in an inner scope hides was not complete before: it  *)
(* is a function, or a variable that is left later.                        *)
Shadow(h, tr, t, T) ==
  \A p \in 1 .. Len(h) : \A i, j \in 1 .. Len(h[p]) : \A n, d, e :
    j < i /\ IsSym(T, h[p][j], n, e) /\ IsSym(T, h[p][i], n, d) =>
      t[d].kind = "fn" \/ (t[d].kind = "let" /\ ~LeftBefore(tr, p, d))

(* A name is looked up in the scope that is open when it is left.          *)
FindsFit(h, tr, ds) ==
  \A i, m : IsCall(ds, i, "find", m) => \E q : Leaves(tr, q, m) /\ ds[i].of = Head(h[q])

(* The generator's tables have the parameters and the variables that are   *)
(* complete where it is.                                                   *)
Ready(tr, t, p, d) == d # 0 /\ (t[d].kind = "arg" \/ (t[d].kind = "let" /\ LeftBefore(tr, p, d)))
SlotFits(x, tr, t, p, d) == x = IF Ready(tr, t, p, d) THEN Slot(d) ELSE Frame!NoSlot
SlotsFit(a, c, tr, t, T, p) ==
  /\ Len(a) = Len(c)
  /\ \A i \in 1 .. Len(c) : \A n \in AllNames : SlotFits(a[i][n], tr, t, p, Sym(T, c[i], n))

Bound(h, tr, t, T) ==
  /\ LeftOnce(tr) /\ LetsPlaced(h, tr, t, T) /\ LetsFound(h, tr, t, T)
  /\ ArgsPlaced(h, tr, t, T) /\ ArgsFound(h, tr, t, T) /\ Outermost(t, T)
  /\ Newest(h, tr) /\ Shadow(h, tr, t, T)

BindingInv ==
  \E h \in Seq(Seq(Nat)) :
    /\ History(h, trail, ast, tables) /\ Open(h)
    /\ Bound(h, trail, ast, tables) /\ FindsFit(h, trail, defered)
    /\ phase = "generating" => SlotsFit(addrTables, h[position + 1], trail, ast, tables, position + 1)
    /\ phase \in {"parsing", "resolving", "checking"} => addrTables = << Frame!EmptyScope(AllNames) >>

-----------------------------------------------------------------------------
(* Chains of scopes.                                                       *)

LEMMA ChainDescends ==
  ASSUME NEW t, NEW T, TablesFit(t, T), NEW c, Chain(c, T),
         NEW i \in 1 .. Len(c), NEW j \in 1 .. Len(c), j < i
  PROVE c[i] < c[j]
<1> DEFINE Bad == {k \in 1 .. Len(c) : j < k /\ ~(c[k] < c[j])}
<1>1. SUFFICES ASSUME Bad # {} PROVE FALSE
  <2>1. c[i] \in Nat /\ c[j] \in Nat
    BY DEF Chain
  <2> QED
    BY <2>1
<1>2. c \in Seq(Nat) /\ Len(c) \in Nat /\ j \in Nat
  BY DEF Chain
<1>3. PICK k \in Bad : \A m \in Bad : k <= m
  BY <1>1, <1>2, LeastScope, Bad \subseteq Nat
<1>4. k \in 1 .. Len(c) /\ k - 1 \in 1 .. (Len(c) - 1) /\ k - 1 \in 1 .. Len(c) /\ (k - 1) + 1 = k
  BY <1>2, <1>3
<1>5. T[c[k - 1]].parent = c[k] /\ c[k - 1] \in 1 .. Len(T)
  BY <1>4 DEF Chain
<1>6. c[k] \in 0 .. (c[k - 1] - 1) /\ c[k - 1] \in Nat
  <2>1. TableFits(t, T[c[k - 1]], c[k - 1]) /\ Len(T) \in Nat
    BY <1>5 DEF TablesFit
  <2> QED
    BY <1>5, <2>1 DEF TableFits
<1>7. c[k] < c[k - 1] /\ c[j] \in Nat /\ c[k] \in Nat
  BY <1>2, <1>6
<1>8. k - 1 = j \/ c[k - 1] < c[j]
  BY <1>2, <1>3, <1>4
<1> QED
  BY <1>3, <1>6, <1>7, <1>8

(* Along a chain a look-up goes on until a scope has the name.             *)
LEMMA ChainLooksUp ==
  ASSUME NEW t, NEW T, TablesFit(t, T), NEW c, Chain(c, T), NEW n \in AllNames,
         NEW i \in 1 .. Len(c), \A j \in 1 .. (i - 1) : Sym(T, c[j], n) = 0
  PROVE find_base(T, c[1], n) = find_base(T, c[i], n)
<1> DEFINE Bad == {k \in 1 .. i : find_base(T, c[k], n) # find_base(T, c[1], n)}
<1>1. SUFFICES ASSUME Bad # {} PROVE FALSE
  OBVIOUS
<1>2. c \in Seq(Nat) /\ Len(c) \in Nat /\ i \in Nat
  BY DEF Chain
<1>3. PICK k \in Bad : \A m \in Bad : k <= m
  BY <1>1, <1>2, LeastScope, Bad \subseteq Nat
<1>4. k # 1
  BY <1>3
<1>5. /\ k - 1 \in 1 .. (i - 1) /\ k - 1 \in 1 .. (Len(c) - 1) /\ k - 1 \in 1 .. Len(c)
      /\ (k - 1) + 1 = k /\ k - 1 \in 1 .. i
  BY <1>2, <1>3, <1>4
<1>6. find_base(T, c[k - 1], n) = find_base(T, c[1], n)
  BY <1>2, <1>3, <1>5
<1>7. T[c[k - 1]].parent = c[k] /\ c[k - 1] \in 1 .. Len(T) /\ Len(T) \in Nat
  BY <1>5 DEF Chain, TablesFit
<1>8. PICK s \in 0 .. Len(T) : s = c[k - 1] /\ s # 0
  BY <1>7
<1>9. find_base(T, s, n) = IF T[s].symbols[n] # 0 THEN T[s].symbols[n]
                           ELSE find_base(T, T[s].parent, n)
  BY <1>8, LooksUp
<1>10. T[s].symbols[n] = 0
  BY <1>5, <1>8 DEF Sym
<1> QED
  BY <1>3, <1>6, <1>7, <1>8, <1>9, <1>10

(* A name that may be added to a scope is in none of those around it.      *)
LEMMA ChainLacks ==
  ASSUME NEW t, NEW T, TablesFit(t, T), NEW c, Chain(c, T), NEW n \in AllNames,
         NEW j \in 1 .. Len(c), find_base(T, c[j], n) = 0,
         NEW i \in 1 .. Len(c), j <= i
  PROVE Sym(T, c[i], n) = 0
<1> DEFINE Bad == {k \in 1 .. Len(c) : j <= k /\ find_base(T, c[k], n) # 0}
<1>2. c \in Seq(Nat) /\ Len(c) \in Nat /\ i \in Nat /\ Len(T) \in Nat
  BY DEF Chain, TablesFit
<1>3. ASSUME NEW k \in 1 .. Len(c), find_base(T, c[k], n) = 0
      PROVE Sym(T, c[k], n) = 0 /\ find_base(T, T[c[k]].parent, n) = 0
  <2>1. PICK s \in 0 .. Len(T) : s = c[k] /\ s # 0
    <3>1. c[k] \in 1 .. Len(T)
      BY DEF Chain
    <3> QED
      BY <1>2, <3>1
  <2>2. find_base(T, s, n) = IF T[s].symbols[n] # 0 THEN T[s].symbols[n]
                             ELSE find_base(T, T[s].parent, n)
    BY <2>1, LooksUp
  <2>3. T[s].symbols[n] = 0
    BY <1>3, <2>1, <2>2
  <2> QED
    BY <1>3, <2>1, <2>2, <2>3 DEF Sym
<1>4. CASE Bad = {}
  <2>1. find_base(T, c[i], n) = 0
    BY <1>4
  <2> QED
    BY <1>3, <2>1
<1>5. CASE Bad # {}
  <2>1. PICK k \in Bad : \A m \in Bad : k <= m
    BY <1>2, <1>5, LeastScope, Bad \subseteq Nat
  <2>2. k # j
    BY <2>1
  <2>3. /\ k - 1 \in 1 .. (Len(c) - 1) /\ k - 1 \in 1 .. Len(c) /\ (k - 1) + 1 = k /\ j <= k - 1
    BY <1>2, <2>1, <2>2
  <2>4. find_base(T, c[k - 1], n) = 0
    BY <1>2, <2>1, <2>3
  <2>5. T[c[k - 1]].parent = c[k]
    BY <2>3 DEF Chain
  <2>6. find_base(T, c[k], n) = 0
    BY <1>3, <2>3, <2>4, <2>5
  <2> QED
    BY <2>1, <2>6
<1> QED
  BY <1>4, <1>5

LEMMA ChainHead ==
  ASSUME NEW c, NEW T, Chain(c, T)
  PROVE /\ c \in Seq(Nat) /\ Len(c) \in Nat \ {0} /\ Head(c) = c[1] /\ 1 \in 1 .. Len(c)
        /\ c[1] \in 1 .. Len(T) /\ Head(c) \in Nat
<1>1. c \in Seq(Nat) /\ Len(c) \in Nat \ {0} /\ Head(c) = c[1]
  BY Tailed DEF Chain
<1>2. 1 \in 1 .. Len(c)
  BY <1>1
<1> QED
  BY <1>1, <1>2 DEF Chain

-----------------------------------------------------------------------------
(* What the invariant says of the generator's look-ups.                    *)

LEMMA Slots == ASSUME NEW d PROVE Slot(d) # Frame!NoSlot
<1>1. Slot(d).type = "declared" /\ Frame!NoSlot.type = "none"
  BY DEF Slot, Frame!Slot, Frame!NoSlot
<1> QED
  BY <1>1

(* A name that a table has is hidden by no scope further in.               *)
LEMMA Unhidden ==
  ASSUME NEW h, NEW tr, NEW t, NEW T, Shadow(h, tr, t, T), NEW p \in 1 .. Len(h),
         Chain(h[p], T), NEW a, SlotsFit(a, h[p], tr, t, T, p),
         NEW n \in AllNames, NEW i \in 1 .. Len(a), a[i][n] # Frame!NoSlot
  PROVE /\ i \in 1 .. Len(h[p]) /\ Ready(tr, t, p, Sym(T, h[p][i], n))
        /\ a[i][n] = Slot(Sym(T, h[p][i], n))
        /\ \A j \in 1 .. (i - 1) : Sym(T, h[p][j], n) = 0
<1>1. i \in 1 .. Len(h[p]) /\ Len(h[p]) \in Nat
  BY DEF SlotsFit, Chain
<1>2. SlotFits(a[i][n], tr, t, p, Sym(T, h[p][i], n))
  BY <1>1 DEF SlotsFit
<1>3. Ready(tr, t, p, Sym(T, h[p][i], n)) /\ a[i][n] = Slot(Sym(T, h[p][i], n))
  BY <1>2 DEF SlotFits
<1>4. ASSUME NEW j \in 1 .. (i - 1), Sym(T, h[p][j], n) # 0 PROVE FALSE
  <2>1. j \in 1 .. Len(h[p]) /\ j < i
    BY <1>1
  <2>2. h[p][j] \in 1 .. Len(T) /\ h[p][i] \in 1 .. Len(T)
    BY <1>1, <2>1 DEF Chain
  <2>3. PICK d, e : d = Sym(T, h[p][i], n) /\ e = Sym(T, h[p][j], n)
    OBVIOUS
  <2>4. IsSym(T, h[p][j], n, e) /\ IsSym(T, h[p][i], n, d)
    BY <1>3, <1>4, <2>2, <2>3 DEF IsSym, Ready
  <2>5. t[d].kind = "fn" \/ (t[d].kind = "let" /\ ~LeftBefore(tr, p, d))
    BY <1>1, <2>1, <2>4 DEF Shadow
  <2> QED
    BY <1>3, <2>3, <2>5 DEF Ready
<1> QED
  BY <1>1, <1>3, <1>4

LEMMA AgreeSafe == ASSUME FrontInv, BindingInv PROVE BindingsAgree
<1> SUFFICES ASSUME phase = "generating", position < Len(trail)
             PROVE /\ Generates("leave", {"identifier"}) /\ ~Visited.inAssign =>
                        \A i \in 1 .. Len(addrTables) :
                          Frame!IsInnermost(addrTables, Subject.name, i) =>
                            addrTables[i][Subject.name] = Slot(Binding(Visited.node))
                   /\ Generates("leave", {"let"}) => ~Frame!Resolves(addrTables, Subject.name)
  BY DEF BindingsAgree
<1>1. PICK h \in Seq(Seq(Nat)) :
        /\ History(h, trail, ast, tables) /\ Bound(h, trail, ast, tables)
        /\ FindsFit(h, trail, defered)
        /\ SlotsFit(addrTables, h[position + 1], trail, ast, tables, position + 1)
  BY DEF BindingInv
<1>2. BuildInv /\ PhaseInv /\ TrailInv /\ NodesInv /\ TablesFit(ast, tables) /\ CallsInv
  BY DEF FrontInv, BuildInv, TablesInv
<1>3. PICK p, m : p = position + 1 /\ m = Visited.node
  OBVIOUS
<1>4. /\ p \in 1 .. Len(trail) /\ m \in 1 .. Len(ast) /\ Chain(h[p], tables) /\ p \in 1 .. Len(h)
      /\ Visited = trail[p] /\ Subject = ast[m]
  <2>1. /\ p \in 1 .. Len(trail) /\ m \in 1 .. Len(ast) /\ Chain(h[p], tables)
    BY <1>1, <1>2, <1>3, VisitGoes
  <2>2. p \in 1 .. Len(h)
    BY <1>1, <2>1 DEF History
  <2> QED
    BY <1>3, <2>1, <2>2 DEF Visited, Subject
<1>5. PICK n : n = Subject.name
  OBVIOUS
<1>6. ast[m].kind \in {"identifier", "let"} => n \in AllNames
  BY <1>2, <1>4, <1>5 DEF NodesInv, NameFits, AllNames
<1>7. ASSUME NEW i \in 1 .. Len(addrTables), n \in AllNames, addrTables[i][n] # Frame!NoSlot
      PROVE /\ i \in 1 .. Len(h[p]) /\ Ready(trail, ast, p, Sym(tables, h[p][i], n))
            /\ addrTables[i][n] = Slot(Sym(tables, h[p][i], n))
            /\ \A j \in 1 .. (i - 1) : Sym(tables, h[p][j], n) = 0
  <2>1. /\ Shadow(h, trail, ast, tables) /\ Chain(h[p], tables)
        /\ SlotsFit(addrTables, h[p], trail, ast, tables, p)
    BY <1>1, <1>3, <1>4 DEF Bound
  <2> QED
    BY <1>4, <1>7, <2>1, Unhidden
<1>8. /\ h[p] \in Seq(Nat) /\ Len(h[p]) \in Nat \ {0} /\ Head(h[p]) = h[p][1] /\ 1 \in 1 .. Len(h[p])
  BY <1>4, ChainHead
<1>9. ASSUME Generates("leave", {"identifier"}), NEW i \in 1 .. Len(addrTables),
             Frame!IsInnermost(addrTables, Subject.name, i)
      PROVE addrTables[i][Subject.name] = Slot(Binding(m))
  <2>1. ast[m].kind = "identifier" /\ Leaves(trail, p, m) /\ n \in AllNames
    BY <1>3, <1>4, <1>6, <1>9 DEF Generates, Leaves
  <2>2. addrTables[i][n] # Frame!NoSlot
    BY <1>5, <1>9 DEF Frame!IsInnermost, Frame!Declares
  <2>3. PICK d, s : d = Sym(tables, s, n) /\ s = h[p][i]
    OBVIOUS
  <2>4. /\ i \in 1 .. Len(h[p]) /\ d # 0 /\ addrTables[i][n] = Slot(d)
        /\ \A j \in 1 .. (i - 1) : Sym(tables, h[p][j], n) = 0
    BY <1>7, <2>1, <2>2, <2>3 DEF Ready
  <2>5. find_base(tables, h[p][1], n) = find_base(tables, s, n)
    <3>1. PICK c : c = h[p]
      OBVIOUS
    <3>2. Chain(c, tables) /\ i \in 1 .. Len(c) /\ \A j \in 1 .. (i - 1) : Sym(tables, c[j], n) = 0
      BY <1>4, <2>4, <3>1
    <3>3. find_base(tables, c[1], n) = find_base(tables, c[i], n)
      BY <1>2, <2>1, <3>2, ChainLooksUp
    <3> QED
      BY <2>3, <3>1, <3>3
  <2>6. s \in 0 .. Len(tables) /\ s # 0
    <3>1. s \in 1 .. Len(tables) /\ Len(tables) \in Nat
      BY <1>2, <1>4, <2>3, <2>4 DEF Chain, TablesFit
    <3> QED
      BY <3>1
  <2>7. find_base(tables, s, n) = d
    BY <1>2, <2>1, <2>3, <2>4, <2>6, LooksUp DEF Sym
  <2>8. PICK k : IsCall(defered, k, "find", m)
    BY <1>2, <1>4, <2>1 DEF CallsInv
  <2>9. PICK q : Leaves(trail, q, m) /\ defered[k].of = Head(h[q])
    BY <1>1, <2>8 DEF FindsFit
  <2>10. q = p
    BY <1>1, <2>1, <2>9 DEF Bound, LeftOnce
  <2>11. Binding(m) = find_base(tables, h[p][1], n)
    BY <1>2, <1>4, <1>5, <1>8, <2>8, <2>9, <2>10, BindingFound DEF Meant, IsCall
  <2> QED
    BY <1>5, <2>4, <2>5, <2>7, <2>11
<1>10. ASSUME Generates("leave", {"let"}), Frame!Resolves(addrTables, Subject.name) PROVE FALSE
  <2>1. ast[m].kind = "let" /\ Leaves(trail, p, m) /\ n \in AllNames
    BY <1>3, <1>4, <1>6, <1>10 DEF Generates, Leaves
  <2>2. PICK i \in 1 .. Len(addrTables) : addrTables[i][n] # Frame!NoSlot
    BY <1>5, <1>10 DEF Frame!Resolves, Frame!Declares
  <2>3. /\ i \in 1 .. Len(h[p]) /\ Ready(trail, ast, p, Sym(tables, h[p][i], n))
        /\ \A j \in 1 .. (i - 1) : Sym(tables, h[p][j], n) = 0
    BY <1>7, <2>1, <2>2
  <2>4. Sym(tables, h[p][1], n) = m
    BY <1>1, <1>4, <1>5, <1>8, <2>1 DEF Bound, LetsPlaced
  <2>5. i = 1
    <3>1. i # 1 => 1 \in 1 .. (i - 1)
      BY <2>3
    <3>2. m # 0
      BY <1>4
    <3> QED
      BY <2>3, <2>4, <3>1, <3>2
  <2>6. LeftBefore(trail, p, m)
    BY <2>1, <2>3, <2>4, <2>5 DEF Ready
  <2>7. PICK r \in 1 .. (p - 1) : Leaves(trail, r, m)
    BY <2>6 DEF LeftBefore
  <2>8. r = p
    BY <1>1, <2>1, <2>7 DEF Bound, LeftOnce
  <2> QED
    BY <1>4, <2>7, <2>8
<1> QED
  BY <1>3, <1>9, <1>10

-----------------------------------------------------------------------------
(* A step more on the trail, and a chain more.                             *)

Longer(h, g, tr, ts, e, d) ==
  /\ tr \in Seq(TrailStep) /\ e \in TrailStep /\ ts = Append(tr, e)
  /\ h \in Seq(Seq(Nat)) /\ d \in Seq(Nat) /\ g = Append(h, d) /\ Len(h) = Len(tr) + 1
Is(e, step, n) == e.step = step /\ e.node = n

LEMMA LongerTrail ==
  ASSUME NEW h, NEW g, NEW tr, NEW ts, NEW e, NEW d, Longer(h, g, tr, ts, e, d)
  PROVE /\ Len(tr) \in Nat /\ Len(ts) = Len(tr) + 1 /\ Len(h) = Len(tr) + 1 /\ Len(g) = Len(tr) + 2
        /\ ts[Len(tr) + 1] = e /\ \A p \in 1 .. Len(tr) : ts[p] = tr[p]
        /\ g[Len(tr) + 2] = d /\ \A p \in 1 .. (Len(tr) + 1) : g[p] = h[p]
<1>1. /\ Len(tr) \in Nat /\ Len(ts) = Len(tr) + 1 /\ ts[Len(tr) + 1] = e
      /\ \A p \in 1 .. Len(tr) : ts[p] = tr[p]
  BY Appended DEF Longer
<1>2. Len(g) = Len(h) + 1 /\ g[Len(h) + 1] = d /\ \A p \in 1 .. Len(h) : g[p] = h[p]
  BY Appended DEF Longer
<1>3. Len(h) = Len(tr) + 1
  BY DEF Longer
<1>4. Len(h) + 1 = Len(tr) + 2
  BY <1>1, <1>3
<1> QED
  BY <1>1, <1>2, <1>3, <1>4

LEMMA LongerLeaves ==
  ASSUME NEW h, NEW g, NEW tr, NEW ts, NEW e, NEW d, Longer(h, g, tr, ts, e, d), NEW p, NEW n
  PROVE /\ Leaves(ts, p, n) <=> Leaves(tr, p, n) \/ (p = Len(tr) + 1 /\ Is(e, "leave", n))
        /\ Enters(ts, p, n) <=> Enters(tr, p, n) \/ (p = Len(tr) + 1 /\ Is(e, "enter", n))
<1>1. /\ Len(tr) \in Nat /\ Len(ts) = Len(tr) + 1 /\ ts[Len(tr) + 1] = e
      /\ \A q \in 1 .. Len(tr) : ts[q] = tr[q]
  BY LongerTrail
<1>2. p \in 1 .. Len(ts) <=> p \in 1 .. Len(tr) \/ p = Len(tr) + 1
  BY <1>1
<1>3. p \in 1 .. Len(tr) => p # Len(tr) + 1
  BY <1>1
<1> QED
  BY <1>1, <1>2, <1>3 DEF Leaves, Enters, Is

LEMMA LongerLeft ==
  ASSUME NEW h, NEW g, NEW tr, NEW ts, NEW e, NEW d, Longer(h, g, tr, ts, e, d), NEW n
  PROVE /\ \A p \in 1 .. (Len(tr) + 1) : LeftBefore(ts, p, n) <=> LeftBefore(tr, p, n)
        /\ LeftBefore(ts, Len(tr) + 2, n) <=> LeftBefore(tr, Len(tr) + 1, n) \/ Is(e, "leave", n)
<1>1. Len(tr) \in Nat
  BY LongerTrail
<1>2. ASSUME NEW p \in 1 .. (Len(tr) + 1) PROVE LeftBefore(ts, p, n) <=> LeftBefore(tr, p, n)
  <2>1. \A r \in 1 .. (p - 1) : Leaves(ts, r, n) <=> Leaves(tr, r, n)
    <3>1. \A r \in 1 .. (p - 1) : r # Len(tr) + 1
      BY <1>1
    <3> QED
      BY <3>1, LongerLeaves
  <2> QED
    BY <2>1 DEF LeftBefore
<1>3. LeftBefore(ts, Len(tr) + 2, n) <=> LeftBefore(tr, Len(tr) + 1, n) \/ Is(e, "leave", n)
  <2>1. \A r : r \in 1 .. ((Len(tr) + 2) - 1) <=> r \in 1 .. ((Len(tr) + 1) - 1) \/ r = Len(tr) + 1
    BY <1>1
  <2>2. \A r : r \in 1 .. ((Len(tr) + 1) - 1) => r # Len(tr) + 1
    BY <1>1
  <2>3. \A r : Leaves(ts, r, n) <=> Leaves(tr, r, n) \/ (r = Len(tr) + 1 /\ Is(e, "leave", n))
    BY LongerLeaves
  <2>4. \A r : Leaves(tr, r, n) => r \in 1 .. ((Len(tr) + 1) - 1)
    BY <1>1 DEF Leaves
  <2> QED
    BY <2>1, <2>2, <2>3, <2>4 DEF LeftBefore
<1> QED
  BY <1>2, <1>3

LEMMA LeftOnceGrown ==
  ASSUME NEW h, NEW g, NEW tr, NEW ts, NEW e, NEW d, Longer(h, g, tr, ts, e, d), LeftOnce(tr),
         e.step = "leave" => \A p : ~Leaves(tr, p, e.node)
  PROVE LeftOnce(ts)
<1>1. ASSUME NEW p, NEW r, NEW n, Leaves(ts, p, n), Leaves(ts, r, n) PROVE p = r
  <2>1. Leaves(tr, p, n) \/ (p = Len(tr) + 1 /\ Is(e, "leave", n))
    BY <1>1, LongerLeaves
  <2>2. Leaves(tr, r, n) \/ (r = Len(tr) + 1 /\ Is(e, "leave", n))
    BY <1>1, LongerLeaves
  <2>3. Is(e, "leave", n) => \A q : ~Leaves(tr, q, n)
    BY DEF Is
  <2> QED
    BY <2>1, <2>2, <2>3 DEF LeftOnce
<1> QED
  BY <1>1 DEF LeftOnce

(* For the steps that were there, the chains are the same ones.            *)
LEMMA OldChains ==
  ASSUME NEW h, NEW g, NEW tr, NEW ts, NEW e, NEW d, Longer(h, g, tr, ts, e, d), NEW p, NEW n
  PROVE /\ Leaves(tr, p, n) => g[p] = h[p] /\ g[p + 1] = h[p + 1]
        /\ Enters(tr, p, n) => g[p] = h[p] /\ g[p + 1] = h[p + 1]
<1>1. Len(tr) \in Nat /\ \A q \in 1 .. (Len(tr) + 1) : g[q] = h[q]
  BY LongerTrail
<1>2. p \in 1 .. Len(tr) => p \in 1 .. (Len(tr) + 1) /\ p + 1 \in 1 .. (Len(tr) + 1)
  BY <1>1
<1> QED
  BY <1>1, <1>2 DEF Leaves, Enters

LEMMA LetsFoundGrown ==
  ASSUME NEW h, NEW g, NEW tr, NEW ts, NEW e, NEW d, Longer(h, g, tr, ts, e, d), NEW t, NEW T,
         LetsFound(h, tr, t, T)
  PROVE LetsFound(g, ts, t, T)
<1>1. ASSUME NEW s, NEW n, NEW m, IsSym(T, s, n, m), t[m].kind = "let"
      PROVE \E p : Leaves(ts, p, m) /\ Head(g[p]) = s
  <2>1. PICK p : Leaves(tr, p, m) /\ Head(h[p]) = s
    BY <1>1 DEF LetsFound
  <2>2. Leaves(ts, p, m) /\ g[p] = h[p]
    BY <2>1, LongerLeaves, OldChains
  <2> QED
    BY <2>1, <2>2
<1> QED
  BY <1>1 DEF LetsFound

LEMMA LetsPlacedGrown ==
  ASSUME NEW h, NEW g, NEW tr, NEW ts, NEW e, NEW d, Longer(h, g, tr, ts, e, d), NEW t, NEW T,
         LetsPlaced(h, tr, t, T),
         e.step = "leave" /\ t[e.node].kind = "let" =>
           Head(h[Len(tr) + 1]) # 1 /\ Sym(T, Head(h[Len(tr) + 1]), t[e.node].name) = e.node
  PROVE LetsPlaced(g, ts, t, T)
<1>1. ASSUME NEW p, NEW m, Leaves(ts, p, m), t[m].kind = "let"
      PROVE Head(g[p]) # 1 /\ Sym(T, Head(g[p]), t[m].name) = m
  <2>1. CASE Leaves(tr, p, m)
    <3>1. g[p] = h[p]
      BY <2>1, OldChains
    <3>2. Head(h[p]) # 1 /\ Sym(T, Head(h[p]), t[m].name) = m
      BY <1>1, <2>1 DEF LetsPlaced
    <3> QED
      BY <3>1, <3>2
  <2>2. CASE p = Len(tr) + 1 /\ Is(e, "leave", m)
    <3>1. g[p] = h[Len(tr) + 1]
      <4>1. Len(tr) \in Nat /\ \A q \in 1 .. (Len(tr) + 1) : g[q] = h[q]
        BY LongerTrail
      <4>2. Len(tr) + 1 \in 1 .. (Len(tr) + 1)
        BY <4>1
      <4> QED
        BY <2>2, <4>1, <4>2
    <3> QED
      BY <1>1, <2>2, <3>1 DEF Is
  <2> QED
    BY <1>1, <2>1, <2>2, LongerLeaves
<1> QED
  BY <1>1 DEF LetsPlaced

(* The parameters of f, and no others, are declared in the scope s.        *)
HasParameters(t, T, f, s) ==
  s # 1 /\ (t[f].kind = "fn" =>
    \A i \in 1 .. Len(t[f].kids) : Sym(T, s, t[t[f].kids[i]].name) = t[f].kids[i])
OnlyParameters(t, T, f, s) == \A n, k : IsSym(T, s, n, k) /\ t[k].kind = "arg" => ArgOf(t, f, k)

LEMMA ArgsPlacedGrown ==
  ASSUME NEW h, NEW g, NEW tr, NEW ts, NEW e, NEW d, Longer(h, g, tr, ts, e, d), NEW t, NEW T,
         ArgsPlaced(h, tr, t, T), e.step = "enter" => HasParameters(t, T, e.node, Head(d))
  PROVE ArgsPlaced(g, ts, t, T)
<1>1. ASSUME NEW p, NEW f, Enters(ts, p, f)
      PROVE /\ Head(g[p + 1]) # 1
            /\ t[f].kind = "fn" => \A i \in 1 .. Len(t[f].kids) :
                 Sym(T, Head(g[p + 1]), t[t[f].kids[i]].name) = t[f].kids[i]
  <2>1. CASE Enters(tr, p, f)
    BY <2>1, OldChains DEF ArgsPlaced
  <2>2. CASE p = Len(tr) + 1 /\ Is(e, "enter", f)
    <3>1. Len(tr) \in Nat /\ g[Len(tr) + 2] = d
      BY LongerTrail
    <3>2. p + 1 = Len(tr) + 2
      BY <2>2, <3>1
    <3>3. HasParameters(t, T, f, Head(g[p + 1]))
      BY <2>2, <3>1, <3>2 DEF Is
    <3> QED
      BY <3>3 DEF HasParameters
  <2> QED
    BY <1>1, <2>1, <2>2, LongerLeaves
<1> QED
  BY <1>1 DEF ArgsPlaced

LEMMA ArgsFoundGrown ==
  ASSUME NEW h, NEW g, NEW tr, NEW ts, NEW e, NEW d, Longer(h, g, tr, ts, e, d), NEW t, NEW T,
         ArgsFound(h, tr, t, T), e.step = "enter" => OnlyParameters(t, T, e.node, Head(d))
  PROVE ArgsFound(g, ts, t, T)
<1>1. ASSUME NEW p, NEW f, NEW n, NEW k, Enters(ts, p, f), IsSym(T, Head(g[p + 1]), n, k),
             t[k].kind = "arg"
      PROVE ArgOf(t, f, k)
  <2>1. CASE Enters(tr, p, f)
    <3>1. g[p + 1] = h[p + 1]
      BY <2>1, OldChains
    <3>2. IsSym(T, Head(h[p + 1]), n, k)
      BY <1>1, <3>1
    <3> QED
      BY <1>1, <2>1, <3>2 DEF ArgsFound
  <2>2. CASE p = Len(tr) + 1 /\ Is(e, "enter", f)
    <3>1. Len(tr) \in Nat /\ g[Len(tr) + 2] = d
      BY LongerTrail
    <3>2. p + 1 = Len(tr) + 2
      BY <2>2, <3>1
    <3>3. OnlyParameters(t, T, f, Head(g[p + 1]))
      BY <2>2, <3>1, <3>2 DEF Is
    <3> QED
      BY <1>1, <3>3 DEF OnlyParameters
  <2> QED
    BY <1>1, <2>1, <2>2, LongerLeaves
<1> QED
  BY <1>1 DEF ArgsFound

LEMMA NewestGrown ==
  ASSUME NEW h, NEW g, NEW tr, NEW ts, NEW e, NEW d, Longer(h, g, tr, ts, e, d), Newest(h, tr),
         e.step = "enter" => \A q \in 1 .. Len(h) : Head(h[q]) < Head(d)
  PROVE Newest(g, ts)
<1>1. ASSUME NEW p, NEW q, NEW f, Enters(ts, p, f), q \in 1 .. p PROVE Head(g[q]) < Head(g[p + 1])
  <2>0. Len(tr) \in Nat /\ g[Len(tr) + 2] = d /\ Len(h) = Len(tr) + 1
        /\ \A r \in 1 .. (Len(tr) + 1) : g[r] = h[r]
    BY LongerTrail
  <2>1. CASE Enters(tr, p, f)
    <3>1. g[p + 1] = h[p + 1]
      BY <2>1, OldChains
    <3>2. q \in 1 .. (Len(tr) + 1)
      BY <1>1, <2>0, <2>1 DEF Enters
    <3> QED
      BY <1>1, <2>0, <2>1, <3>1, <3>2 DEF Newest
  <2>2. CASE p = Len(tr) + 1 /\ Is(e, "enter", f)
    <3>1. p + 1 = Len(tr) + 2 /\ q \in 1 .. Len(h) /\ q \in 1 .. (Len(tr) + 1)
      BY <1>1, <2>0, <2>2
    <3>2. g[p + 1] = d /\ g[q] = h[q]
      BY <2>0, <3>1
    <3>3. Head(h[q]) < Head(d)
      BY <2>2, <3>1 DEF Is
    <3> QED
      BY <3>2, <3>3
  <2> QED
    BY <1>1, <2>1, <2>2, LongerLeaves
<1> QED
  BY <1>1 DEF Newest

(* Nothing is hidden wrongly at the end of a trail.                        *)
Hides(c, tr, t, T, p) ==
  \A i, j \in 1 .. Len(c) : \A n, d, e :
    j < i /\ IsSym(T, c[j], n, e) /\ IsSym(T, c[i], n, d) =>
      t[d].kind = "fn" \/ (t[d].kind = "let" /\ ~LeftBefore(tr, p, d))

LEMMA ShadowGrown ==
  ASSUME NEW h, NEW g, NEW tr, NEW ts, NEW e, NEW d, Longer(h, g, tr, ts, e, d), NEW t, NEW T,
         Shadow(h, tr, t, T), Hides(d, ts, t, T, Len(tr) + 2)
  PROVE Shadow(g, ts, t, T)
<1>0. /\ Len(tr) \in Nat /\ g[Len(tr) + 2] = d /\ Len(g) = Len(tr) + 2 /\ Len(h) = Len(tr) + 1
      /\ \A p \in 1 .. (Len(tr) + 1) : g[p] = h[p]
  BY LongerTrail
<1>1. \A p \in 1 .. Len(h) : Hides(h[p], tr, t, T, p)
  BY DEF Shadow, Hides
<1>2. ASSUME NEW p \in 1 .. Len(g) PROVE Hides(g[p], ts, t, T, p)
  <2>1. CASE p \in 1 .. (Len(tr) + 1)
    <3>1. g[p] = h[p]
      BY <1>0, <2>1
    <3>2. ASSUME NEW n PROVE LeftBefore(ts, p, n) <=> LeftBefore(tr, p, n)
      BY <2>1, LongerLeft
    <3> QED
      BY <1>0, <1>1, <2>1, <3>1, <3>2 DEF Hides
  <2>2. CASE p = Len(tr) + 2
    BY <1>0, <2>2
  <2> QED
    BY <1>0, <2>1, <2>2
<1> QED
  BY <1>2 DEF Shadow, Hides

-----------------------------------------------------------------------------
(* The tree or a table changes, the trail does not.                        *)

Ground(h, tr, t, T) ==
  /\ History(h, tr, t, T) /\ TablesFit(t, T) /\ tr \in Seq(TrailStep)
  /\ \A p \in 1 .. Len(tr) : tr[p].node \in 1 .. Len(t)
  /\ \A n \in 1 .. Len(t) : NameFits(t[n]) /\ KidsFit(t, n)
  /\ Len(t) \in Nat

(* The chains of a ground are there, their scopes are tables.              *)
LEMMA GroundChains ==
  ASSUME NEW h, NEW tr, NEW t, NEW T, Ground(h, tr, t, T), NEW p \in 1 .. Len(h)
  PROVE /\ Chain(h[p], T) /\ Head(h[p]) \in 1 .. Len(T) /\ Len(T) \in Nat
        /\ \A i \in 1 .. Len(h[p]) : h[p][i] \in 1 .. Len(T)
<1>1. Chain(h[p], T) /\ Len(T) \in Nat
  BY DEF Ground, History, TablesFit
<1> QED
  BY <1>1, ChainHead DEF Chain

LEMMA GroundSteps ==
  ASSUME NEW h, NEW tr, NEW t, NEW T, Ground(h, tr, t, T), NEW p, NEW n,
         Leaves(tr, p, n) \/ Enters(tr, p, n)
  PROVE /\ p \in 1 .. Len(h) /\ p + 1 \in 1 .. Len(h) /\ n \in 1 .. Len(t)
        /\ t[n].kind \in {"let", "arg"} => t[n].name \in AllNames
        /\ t[n].kind = "fn" => \A i \in 1 .. Len(t[n].kids) :
             /\ t[n].kids[i] \in 1 .. Len(t) /\ t[t[n].kids[i]].kind = "arg"
             /\ t[t[n].kids[i]].name \in AllNames
<1>1. p \in 1 .. Len(tr) /\ n \in 1 .. Len(t) /\ Len(tr) \in Nat /\ Len(h) = Len(tr) + 1
  BY DEF Leaves, Enters, Ground, History
<1>2. p \in 1 .. Len(h) /\ p + 1 \in 1 .. Len(h)
  BY <1>1
<1>3. \A m \in 1 .. Len(t) : t[m].kind \in {"let", "arg"} => t[m].name \in AllNames
  BY DEF Ground, NameFits, AllNames
<1>4. t[n].kind = "fn" => \A i \in 1 .. Len(t[n].kids) :
        t[n].kids[i] \in 1 .. Len(t) /\ t[t[n].kids[i]].kind = "arg"
  BY <1>1 DEF Ground, KidsFit
<1> QED
  BY <1>1, <1>2, <1>3, <1>4

LEMMA SymNode ==
  ASSUME NEW t, NEW T, TablesFit(t, T), NEW s, NEW n, NEW d, IsSym(T, s, n, d)
  PROVE d \in 1 .. Len(t) /\ t[d].name = n /\ t[d].kind \in {"fn", "arg", "let"}
<1>1. Declared(t, Sym(T, s, n), n)
  BY TableRange DEF IsSym, Sym
<1> QED
  BY <1>1 DEF Declared, IsSym

(* The tree t has become u: what t had is still what it was.               *)
SameKids(t, u) ==
  \A n \in 1 .. Len(t) : t[n].kind = "fn" =>
    Len(u[n].kids) = Len(t[n].kids) /\ \A i \in 1 .. Len(t[n].kids) : u[n].kids[i] = t[n].kids[i]

LEMMA BoundSame ==
  ASSUME NEW h, NEW tr, NEW t, NEW T, NEW u, Ground(h, tr, t, T), Extends(t, u), SameKids(t, u),
         Bound(h, tr, t, T)
  PROVE Bound(h, tr, u, T)
<1>1. \A n \in 1 .. Len(t) : u[n].kind = t[n].kind /\ u[n].name = t[n].name
  BY DEF Extends
<1>2. \A p, n : Leaves(tr, p, n) \/ Enters(tr, p, n) => n \in 1 .. Len(t)
  BY GroundSteps
<1>3. \A s, n, d : IsSym(T, s, n, d) => d \in 1 .. Len(t)
  BY SymNode DEF Ground
<1>4. LetsPlaced(h, tr, u, T)
  BY <1>1, <1>2 DEF Bound, LetsPlaced
<1>5. LetsFound(h, tr, u, T)
  BY <1>1, <1>3 DEF Bound, LetsFound
<1>6. ArgsPlaced(h, tr, u, T)
  <2>1. ASSUME NEW p, NEW f, Enters(tr, p, f)
        PROVE /\ Head(h[p + 1]) # 1
              /\ u[f].kind = "fn" => \A i \in 1 .. Len(u[f].kids) :
                   Sym(T, Head(h[p + 1]), u[u[f].kids[i]].name) = u[f].kids[i]
    <3>1. f \in 1 .. Len(t) /\ Head(h[p + 1]) # 1
      BY <1>2, <2>1 DEF Bound, ArgsPlaced
    <3>2. ASSUME u[f].kind = "fn", NEW i \in 1 .. Len(u[f].kids)
          PROVE Sym(T, Head(h[p + 1]), u[u[f].kids[i]].name) = u[f].kids[i]
      <4>1. PICK k : k = t[f].kids[i]
        OBVIOUS
      <4>2. t[f].kind = "fn" /\ i \in 1 .. Len(t[f].kids) /\ u[f].kids[i] = k
        BY <1>1, <3>1, <3>2, <4>1 DEF SameKids
      <4>3. k \in 1 .. Len(t)
        BY <2>1, <4>1, <4>2, GroundSteps
      <4>4. Sym(T, Head(h[p + 1]), t[k].name) = k
        BY <2>1, <4>1, <4>2 DEF Bound, ArgsPlaced
      <4> QED
        BY <1>1, <4>2, <4>3, <4>4
    <3> QED
      BY <3>1, <3>2
  <2> QED
    BY <2>1 DEF ArgsPlaced
<1>7. ArgsFound(h, tr, u, T)
  <2>1. ASSUME NEW p, NEW f, NEW n, NEW d, Enters(tr, p, f), IsSym(T, Head(h[p + 1]), n, d),
               u[d].kind = "arg"
        PROVE ArgOf(u, f, d)
    <3>1. t[d].kind = "arg" /\ f \in 1 .. Len(t)
      BY <1>1, <1>2, <1>3, <2>1
    <3>2. ArgOf(t, f, d)
      BY <2>1, <3>1 DEF Bound, ArgsFound
    <3>3. PICK i \in 1 .. Len(t[f].kids) : t[f].kind = "fn" /\ t[f].kids[i] = d
      BY <3>2 DEF ArgOf
    <3>4. u[f].kind = "fn" /\ i \in 1 .. Len(u[f].kids) /\ u[f].kids[i] = d
      BY <1>1, <3>1, <3>3 DEF SameKids
    <3> QED
      BY <3>4 DEF ArgOf
  <2> QED
    BY <2>1 DEF ArgsFound
<1>8. Outermost(u, T)
  BY <1>1, <1>3 DEF Bound, Outermost
<1>9. Shadow(h, tr, u, T)
  <2>1. ASSUME NEW p \in 1 .. Len(h), NEW i \in 1 .. Len(h[p]), NEW j \in 1 .. Len(h[p]),
               NEW n, NEW d, NEW e, j < i, IsSym(T, h[p][j], n, e), IsSym(T, h[p][i], n, d)
        PROVE u[d].kind = "fn" \/ (u[d].kind = "let" /\ ~LeftBefore(tr, p, d))
    <3>1. t[d].kind = "fn" \/ (t[d].kind = "let" /\ ~LeftBefore(tr, p, d))
      BY <2>1 DEF Bound, Shadow
    <3>2. u[d].kind = t[d].kind
      BY <1>1, <1>3, <2>1
    <3> QED
      BY <3>1, <3>2
  <2> QED
    BY <2>1 DEF Shadow
<1> QED
  BY <1>4, <1>5, <1>6, <1>7, <1>8, <1>9 DEF Bound

(* A table is added: it has parameters only.                               *)
LEMMA BoundAppended ==
  ASSUME NEW h, NEW tr, NEW t, NEW T, Ground(h, tr, t, T), Bound(h, tr, t, T), NEW x \in Table,
         \A n \in AllNames : x.symbols[n] # 0 => t[x.symbols[n]].kind = "arg",
         NEW U, U = Append(T, x)
  PROVE Bound(h, tr, t, U)
<1>1. T \in Seq(Table) /\ Len(T) \in Nat /\ Len(T) > 0
  BY DEF Ground, TablesFit
<1>2. Len(U) = Len(T) + 1 /\ U[Len(T) + 1] = x /\ \A s \in 1 .. Len(T) : U[s] = T[s]
  BY <1>1, Appended
<1>3. \A s \in 1 .. Len(T) : \A n : Sym(U, s, n) = Sym(T, s, n)
  BY <1>2 DEF Sym
<1>4. \A s \in 1 .. Len(T) : \A n, d : IsSym(U, s, n, d) <=> IsSym(T, s, n, d)
  BY <1>1, <1>2, <1>3 DEF IsSym
<1>5. ASSUME NEW p, NEW n, Leaves(tr, p, n) \/ Enters(tr, p, n)
      PROVE Head(h[p]) \in 1 .. Len(T) /\ Head(h[p + 1]) \in 1 .. Len(T)
  <2>1. p \in 1 .. Len(h) /\ p + 1 \in 1 .. Len(h)
    BY <1>5, GroundSteps
  <2> QED
    BY <2>1, GroundChains
<1>6. LetsPlaced(h, tr, t, U)
  BY <1>3, <1>5 DEF Bound, LetsPlaced
<1>7. LetsFound(h, tr, t, U)
  <2>1. ASSUME NEW s, NEW n, NEW d, IsSym(U, s, n, d), t[d].kind = "let"
        PROVE \E p : Leaves(tr, p, d) /\ Head(h[p]) = s
    <3>1. s \in 1 .. Len(T)
      <4>1. s \in 1 .. Len(T) \/ s = Len(T) + 1
        BY <1>1, <1>2, <2>1 DEF IsSym
      <4>2. s # Len(T) + 1
        BY <1>2, <2>1 DEF IsSym, Sym
      <4> QED
        BY <4>1, <4>2
    <3> QED
      BY <1>4, <2>1, <3>1 DEF Bound, LetsFound
  <2> QED
    BY <2>1 DEF LetsFound
<1>8. ArgsPlaced(h, tr, t, U)
  BY <1>3, <1>5 DEF Bound, ArgsPlaced
<1>9. ArgsFound(h, tr, t, U)
  BY <1>4, <1>5 DEF Bound, ArgsFound
<1>10. Outermost(t, U)
  <2>1. 1 \in 1 .. Len(T)
    BY <1>1
  <2> QED
    BY <1>4, <2>1 DEF Bound, Outermost
<1>11. Shadow(h, tr, t, U)
  <2>1. \A p \in 1 .. Len(h) : \A i \in 1 .. Len(h[p]) : h[p][i] \in 1 .. Len(T)
    BY GroundChains
  <2> QED
    BY <1>4, <2>1 DEF Bound, Shadow
<1> QED
  BY <1>6, <1>7, <1>8, <1>9, <1>10, <1>11 DEF Bound

LEMMA SymSet ==
  ASSUME NEW T \in Seq(Table), NEW s \in 1 .. Len(T), NEW n \in AllNames, NEW d,
         NEW U, U = WithSymbol(T, s, n, d)
  PROVE /\ Len(U) = Len(T)
        /\ \A r \in 1 .. Len(T) : \A m \in AllNames :
             Sym(U, r, m) = IF r = s /\ m = n THEN d ELSE Sym(T, r, m)
<1>1. T[s] \in Table /\ T[s].symbols \in [AllNames -> Nat]
  <2>1. T[s] \in Table
    OBVIOUS
  <2> QED
    BY <2>1 DEF Table
<1>2. PICK x : x = [T[s] EXCEPT !.symbols = [T[s].symbols EXCEPT ![n] = d]]
  OBVIOUS
<1>3. \A m \in AllNames : x.symbols[m] = IF m = n THEN d ELSE T[s].symbols[m]
  BY <1>1, <1>2 DEF Table
<1>4. U = [T EXCEPT ![s] = x]
  BY <1>2 DEF WithSymbol
<1>5. Len(U) = Len(T) /\ U[s] = x /\ \A r \in 1 .. Len(T) : r # s => U[r] = T[r]
  BY <1>4
<1> QED
  BY <1>3, <1>5 DEF Sym

(* A function is entered in the outermost scope, whatever it had there.    *)
LEMMA BoundFunction ==
  ASSUME NEW h, NEW tr, NEW t, NEW T, Ground(h, tr, t, T), Bound(h, tr, t, T), NEW f \in AllNames,
         NEW k, t[k].kind = "fn", NEW U, U = WithSymbol(T, 1, f, k)
  PROVE Bound(h, tr, t, U)
<1>1. T \in Seq(Table) /\ Len(T) \in Nat /\ Len(T) > 0 /\ 1 \in 1 .. Len(T)
  BY DEF Ground, TablesFit
<1>2. /\ Len(U) = Len(T)
      /\ \A r \in 1 .. Len(T) : \A m \in AllNames :
           Sym(U, r, m) = IF r = 1 /\ m = f THEN k ELSE Sym(T, r, m)
  BY <1>1, SymSet
<1>3. ASSUME NEW s, NEW n, NEW d, IsSym(U, s, n, d)
      PROVE t[d].kind = "fn" \/ IsSym(T, s, n, d)
  BY <1>2, <1>3 DEF IsSym
<1>4. ASSUME NEW s, NEW n, NEW d, IsSym(U, s, n, d), s # 1 PROVE IsSym(T, s, n, d)
  BY <1>2, <1>4 DEF IsSym
<1>5. ASSUME NEW p, NEW n, Leaves(tr, p, n) \/ Enters(tr, p, n)
      PROVE Head(h[p]) \in 1 .. Len(T) /\ Head(h[p + 1]) \in 1 .. Len(T)
  <2>1. p \in 1 .. Len(h) /\ p + 1 \in 1 .. Len(h)
    BY <1>5, GroundSteps
  <2> QED
    BY <2>1, GroundChains
<1>6. LetsPlaced(h, tr, t, U)
  <2>1. ASSUME NEW p, NEW m, Leaves(tr, p, m), t[m].kind = "let"
        PROVE Head(h[p]) # 1 /\ Sym(U, Head(h[p]), t[m].name) = m
    <3>1. Head(h[p]) # 1 /\ Sym(T, Head(h[p]), t[m].name) = m /\ t[m].name \in AllNames
      BY <2>1, GroundSteps DEF Bound, LetsPlaced
    <3> QED
      BY <1>2, <1>5, <2>1, <3>1
  <2> QED
    BY <2>1 DEF LetsPlaced
<1>7. LetsFound(h, tr, t, U)
  <2>1. \A s, n, d : IsSym(U, s, n, d) /\ t[d].kind = "let" => IsSym(T, s, n, d)
    BY <1>3
  <2> QED
    BY <2>1 DEF Bound, LetsFound
<1>8. ArgsPlaced(h, tr, t, U)
  <2>1. ASSUME NEW p, NEW g, Enters(tr, p, g)
        PROVE /\ Head(h[p + 1]) # 1
              /\ t[g].kind = "fn" => \A i \in 1 .. Len(t[g].kids) :
                   Sym(U, Head(h[p + 1]), t[t[g].kids[i]].name) = t[g].kids[i]
    <3>1. Head(h[p + 1]) # 1 /\ Head(h[p + 1]) \in 1 .. Len(T)
      BY <1>5, <2>1 DEF Bound, ArgsPlaced
    <3>2. ASSUME t[g].kind = "fn", NEW i \in 1 .. Len(t[g].kids)
          PROVE Sym(U, Head(h[p + 1]), t[t[g].kids[i]].name) = t[g].kids[i]
      <4>1. t[t[g].kids[i]].name \in AllNames
        BY <2>1, <3>2, GroundSteps
      <4>2. Sym(T, Head(h[p + 1]), t[t[g].kids[i]].name) = t[g].kids[i]
        BY <2>1, <3>2 DEF Bound, ArgsPlaced
      <4> QED
        BY <1>2, <3>1, <4>1, <4>2
    <3> QED
      BY <3>1, <3>2
  <2> QED
    BY <2>1 DEF ArgsPlaced
<1>9. ArgsFound(h, tr, t, U)
  <2>1. \A s, n, d : IsSym(U, s, n, d) /\ t[d].kind = "arg" => IsSym(T, s, n, d)
    BY <1>3
  <2> QED
    BY <2>1 DEF Bound, ArgsFound
<1>10. Outermost(t, U)
  BY <1>3 DEF Bound, Outermost
<1>11. Shadow(h, tr, t, U)
  <2>1. ASSUME NEW p \in 1 .. Len(h), NEW i \in 1 .. Len(h[p]), NEW j \in 1 .. Len(h[p]),
               NEW n, NEW d, NEW e, j < i, IsSym(U, h[p][j], n, e), IsSym(U, h[p][i], n, d)
        PROVE t[d].kind = "fn" \/ (t[d].kind = "let" /\ ~LeftBefore(tr, p, d))
    <3>1. Chain(h[p], T) /\ h[p][i] \in 1 .. Len(T) /\ h[p][j] \in 1 .. Len(T) /\ TablesFit(t, T)
      BY GroundChains DEF Ground
    <3>2. h[p][i] < h[p][j]
      BY <2>1, <3>1, ChainDescends
    <3>3. h[p][j] # 1
      BY <1>1, <3>1, <3>2
    <3>4. IsSym(T, h[p][j], n, e)
      BY <1>4, <2>1, <3>3
    <3>5. t[d].kind = "fn" \/ IsSym(T, h[p][i], n, d)
      BY <1>3, <2>1
    <3> QED
      BY <2>1, <3>4, <3>5 DEF Bound, Shadow
  <2> QED
    BY <2>1 DEF Shadow
<1> QED
  BY <1>6, <1>7, <1>8, <1>9, <1>10, <1>11 DEF Bound

-----------------------------------------------------------------------------
(* A node is left: a variable, which is then declared, or any other.       *)

LEMMA LastChain ==
  ASSUME NEW h, NEW tr, NEW t, NEW T, Ground(h, tr, t, T)
  PROVE Len(h) \in 1 .. Len(h) /\ Len(h) = Len(tr) + 1 /\ Len(tr) \in Nat /\ Chain(h[Len(h)], T)
<1>1. Len(tr) \in Nat /\ Len(h) = Len(tr) + 1
  BY DEF Ground, History
<1>2. Len(h) \in 1 .. Len(h)
  BY <1>1
<1> QED
  BY <1>1, <1>2, GroundChains

LEMMA HidesLeft ==
  ASSUME NEW h, NEW g, NEW tr, NEW ts, NEW e, NEW d, Longer(h, g, tr, ts, e, d), NEW t, NEW T,
         Ground(h, tr, t, T), Shadow(h, tr, t, T), e.step = "leave", t[e.node].kind # "let",
         d = h[Len(h)] \/ d = Tail(h[Len(h)])
  PROVE Hides(d, ts, t, T, Len(tr) + 2)
<1>1. Len(h) \in 1 .. Len(h) /\ Len(h) = Len(tr) + 1 /\ Len(tr) \in Nat /\ Chain(h[Len(h)], T)
  BY LastChain
<1>2. PICK c : c = h[Len(h)]
  OBVIOUS
<1>3. c \in Seq(Nat) /\ c # << >> /\ Len(c) \in Nat
  BY <1>1, <1>2 DEF Chain
<1>4. ASSUME NEW i \in 1 .. Len(c), NEW j \in 1 .. Len(c), NEW n, NEW k, NEW m, j < i,
             IsSym(T, c[j], n, m), IsSym(T, c[i], n, k)
      PROVE t[k].kind = "fn" \/ (t[k].kind = "let" /\ ~LeftBefore(ts, Len(tr) + 2, k))
  <2>1. t[k].kind = "fn" \/ (t[k].kind = "let" /\ ~LeftBefore(tr, Len(h), k))
    BY <1>1, <1>2, <1>4 DEF Shadow
  <2>2. LeftBefore(ts, Len(tr) + 2, k) <=> LeftBefore(tr, Len(tr) + 1, k) \/ Is(e, "leave", k)
    BY LongerLeft
  <2> QED
    BY <1>1, <2>1, <2>2 DEF Is
<1>5. CASE d = c
  BY <1>4, <1>5 DEF Hides
<1>6. CASE d = Tail(c)
  <2>1. Len(d) = Len(c) - 1 /\ \A i \in 1 .. Len(d) : d[i] = c[i + 1]
    BY <1>3, <1>6, Tailed
  <2>2. \A i, j \in 1 .. Len(d) : j < i => i + 1 \in 1 .. Len(c) /\ j + 1 \in 1 .. Len(c) /\ j + 1 < i + 1
    BY <1>3, <2>1
  <2>3. ASSUME NEW i \in 1 .. Len(d), NEW j \in 1 .. Len(d), NEW n, NEW k, NEW m, j < i,
               IsSym(T, d[j], n, m), IsSym(T, d[i], n, k)
        PROVE t[k].kind = "fn" \/ (t[k].kind = "let" /\ ~LeftBefore(ts, Len(tr) + 2, k))
    <3>1. IsSym(T, c[j + 1], n, m) /\ IsSym(T, c[i + 1], n, k)
      BY <2>1, <2>3
    <3> QED
      BY <1>4, <2>2, <2>3, <3>1
  <2> QED
    BY <2>3 DEF Hides
<1> QED
  BY <1>2, <1>5, <1>6

LEMMA BoundLeft ==
  ASSUME NEW h, NEW g, NEW tr, NEW ts, NEW e, NEW d, Longer(h, g, tr, ts, e, d), NEW t, NEW T,
         Ground(h, tr, t, T), Bound(h, tr, t, T), e.step = "leave", t[e.node].kind # "let",
         \A p : ~Leaves(tr, p, e.node), d = h[Len(h)] \/ d = Tail(h[Len(h)])
  PROVE Bound(g, ts, t, T)
<1>1. e.step # "enter"
  OBVIOUS
<1>2. LeftOnce(ts)
  BY LeftOnceGrown DEF Bound
<1>3. LetsPlaced(g, ts, t, T)
  BY LetsPlacedGrown DEF Bound
<1>4. LetsFound(g, ts, t, T)
  BY LetsFoundGrown DEF Bound
<1>5. ArgsPlaced(g, ts, t, T)
  BY <1>1, ArgsPlacedGrown DEF Bound
<1>6. ArgsFound(g, ts, t, T)
  BY <1>1, ArgsFoundGrown DEF Bound
<1>7. Newest(g, ts)
  BY <1>1, NewestGrown DEF Bound
<1>8. Shadow(g, ts, t, T)
  <2>1. Hides(d, ts, t, T, Len(tr) + 2)
    BY HidesLeft DEF Bound
  <2> QED
    BY <2>1, ShadowGrown DEF Bound
<1> QED
  BY <1>2, <1>3, <1>4, <1>5, <1>6, <1>7, <1>8 DEF Bound

(* The variable m is declared in the scope s.                              *)
Declares(T, U, s, n, m) ==
  /\ \A r, x, d : IsSym(U, r, x, d) <=> IsSym(T, r, x, d) \/ (r = s /\ x = n /\ d = m)

LEMMA LetDeclares ==
  ASSUME NEW t, NEW T, TablesFit(t, T), NEW s \in 1 .. Len(T), NEW n \in AllNames, NEW m, m # 0,
         find_base(T, s, n) = 0, NEW U, U = WithSymbol(T, s, n, m)
  PROVE Declares(T, U, s, n, m)
<1>1. T \in Seq(Table) /\ Len(T) \in Nat
  BY DEF TablesFit
<1>2. /\ Len(U) = Len(T)
      /\ \A r \in 1 .. Len(T) : \A x \in AllNames :
           Sym(U, r, x) = IF r = s /\ x = n THEN m ELSE Sym(T, r, x)
  BY <1>1, SymSet
<1>3. Sym(T, s, n) = 0
  <2>1. s \in 0 .. Len(T) /\ s # 0
    BY <1>1
  <2> QED
    BY <2>1, LooksUp DEF Sym
<1>4. ASSUME NEW r, NEW x, NEW d
      PROVE IsSym(U, r, x, d) <=> IsSym(T, r, x, d) \/ (r = s /\ x = n /\ d = m)
  <2>1. CASE r \in 1 .. Len(T) /\ x \in AllNames
    <3>1. CASE r = s /\ x = n
      BY <1>2, <1>3, <3>1 DEF IsSym
    <3>2. CASE ~(r = s /\ x = n)
      BY <1>2, <2>1, <3>2 DEF IsSym
    <3> QED
      BY <3>1, <3>2
  <2>2. CASE ~(r \in 1 .. Len(T) /\ x \in AllNames)
    BY <1>2, <2>2 DEF IsSym
  <2> QED
    BY <2>1, <2>2
<1> QED
  BY <1>4 DEF Declares

LEMMA ShadowLet ==
  ASSUME NEW h, NEW tr, NEW t, NEW T, Ground(h, tr, t, T), Shadow(h, tr, t, T),
         NEW s \in 1 .. Len(T), NEW n \in AllNames, NEW m, t[m].kind = "let",
         find_base(T, s, n) = 0, \A p : ~Leaves(tr, p, m), NEW U, Declares(T, U, s, n, m)
  PROVE Shadow(h, tr, t, U)
<1>1. ASSUME NEW p \in 1 .. Len(h), NEW i \in 1 .. Len(h[p]), NEW j \in 1 .. Len(h[p]),
             NEW x, NEW d, NEW e, j < i, IsSym(U, h[p][j], x, e), IsSym(U, h[p][i], x, d)
      PROVE t[d].kind = "fn" \/ (t[d].kind = "let" /\ ~LeftBefore(tr, p, d))
  <2>1. CASE d = m
    BY <2>1 DEF LeftBefore
  <2>2. CASE d # m
    <3>1. IsSym(T, h[p][i], x, d)
      BY <1>1, <2>2 DEF Declares
    <3>2. CASE IsSym(T, h[p][j], x, e)
      BY <1>1, <3>1, <3>2 DEF Shadow
    <3>3. CASE h[p][j] = s /\ x = n
      <4>1. PICK c : c = h[p]
        OBVIOUS
      <4>2. Chain(c, T) /\ TablesFit(t, T) /\ i \in 1 .. Len(c) /\ j \in 1 .. Len(c) /\ c[j] = s
        BY <3>3, <4>1, GroundChains DEF Ground
      <4>4. j <= i
        BY <1>1, <4>2 DEF Chain
      <4>3. Sym(T, c[i], n) = 0
        BY <4>2, <4>4, ChainLacks
      <4> QED
        BY <3>1, <3>3, <4>1, <4>3 DEF IsSym
    <3> QED
      BY <1>1, <3>2, <3>3 DEF Declares
  <2> QED
    BY <2>1, <2>2
<1> QED
  BY <1>1 DEF Shadow

LEMMA HidesLet ==
  ASSUME NEW h, NEW g, NEW tr, NEW ts, NEW e, NEW c, Longer(h, g, tr, ts, e, c), c = h[Len(h)],
         NEW t, NEW T, Ground(h, tr, t, T), Bound(h, tr, t, T), NEW n, NEW m,
         t[m].kind = "let", \A p : ~Leaves(tr, p, m), Is(e, "leave", m),
         NEW U, Declares(T, U, Head(c), n, m), Shadow(h, tr, t, U)
  PROVE Hides(c, ts, t, U, Len(tr) + 2)
<1>1. Len(h) \in 1 .. Len(h) /\ Len(h) = Len(tr) + 1 /\ Len(tr) \in Nat /\ Chain(c, T)
      /\ TablesFit(t, T)
  BY LastChain DEF Ground
<1>2. ASSUME NEW i \in 1 .. Len(c), NEW j \in 1 .. Len(c), NEW x, NEW k, NEW b, j < i,
             IsSym(U, c[j], x, b), IsSym(U, c[i], x, k)
      PROVE t[k].kind = "fn" \/ (t[k].kind = "let" /\ ~LeftBefore(ts, Len(tr) + 2, k))
  <2>1. t[k].kind = "fn" \/ (t[k].kind = "let" /\ ~LeftBefore(tr, Len(h), k))
    BY <1>1, <1>2 DEF Shadow
  <2>2. k # m
    <3>1. SUFFICES ASSUME k = m PROVE FALSE
      OBVIOUS
    <3>2. ~IsSym(T, c[i], x, m)
      BY DEF Bound, LetsFound
    <3>3. c[i] = Head(c)
      BY <1>2, <3>1, <3>2 DEF Declares
    <3>4. Head(c) = c[1] /\ 1 \in 1 .. Len(c) /\ c[1] \in Nat /\ Len(c) \in Nat
      BY <1>1, ChainHead DEF Chain
    <3>5. 1 < i
      BY <1>2, <3>4
    <3>6. c[i] < c[1]
      BY <1>1, <3>4, <3>5, ChainDescends
    <3> QED
      BY <3>3, <3>4, <3>6
  <2>3. LeftBefore(ts, Len(tr) + 2, k) <=> LeftBefore(tr, Len(tr) + 1, k) \/ Is(e, "leave", k)
    BY LongerLeft
  <2> QED
    BY <1>1, <2>1, <2>2, <2>3 DEF Is
<1> QED
  BY <1>2 DEF Hides

LEMMA BoundLet ==
  ASSUME NEW h, NEW g, NEW tr, NEW ts, NEW e, NEW c, Longer(h, g, tr, ts, e, c), c = h[Len(h)],
         NEW t, NEW T, Ground(h, tr, t, T), Bound(h, tr, t, T), NEW n, NEW m \in 1 .. Len(t),
         t[m].kind = "let", t[m].name = n, \A p : ~Leaves(tr, p, m), Is(e, "leave", m),
         NEW s, s = Head(c), s # 1, find_base(T, s, n) = 0, NEW U, U = WithSymbol(T, s, n, m)
  PROVE Bound(g, ts, t, U)
<1>1. /\ Len(h) \in 1 .. Len(h) /\ Len(h) = Len(tr) + 1 /\ Len(tr) \in Nat /\ Chain(c, T)
      /\ TablesFit(t, T) /\ s \in 1 .. Len(T)
  BY LastChain, ChainHead DEF Ground
<1>2. n \in AllNames
  BY DEF Ground, NameFits, AllNames
<1>3. m # 0 /\ Len(t) \in Nat
  BY DEF Ground
<1>4. Declares(T, U, s, n, m)
  BY <1>1, <1>2, <1>3, LetDeclares
<1>5. \A r, x, d : IsSym(T, r, x, d) => IsSym(U, r, x, d)
  BY <1>4 DEF Declares
<1>6. \A r, x, d : IsSym(U, r, x, d) => IsSym(T, r, x, d) \/ (r = s /\ d = m)
  BY <1>4 DEF Declares
<1>7. Sym(U, s, n) = m
  BY <1>4 DEF Declares, IsSym
<1>8. ASSUME NEW p, NEW k, Leaves(tr, p, k) \/ Enters(tr, p, k)
      PROVE Head(h[p]) \in 1 .. Len(T) /\ Head(h[p + 1]) \in 1 .. Len(T)
  <2>1. p \in 1 .. Len(h) /\ p + 1 \in 1 .. Len(h)
    BY <1>8, GroundSteps
  <2> QED
    BY <2>1, GroundChains
<1>9. e.step = "leave" /\ e.node = m /\ e.step # "enter"
  BY DEF Is
<1>10. LeftOnce(ts)
  BY <1>9, LeftOnceGrown DEF Bound
<1>11. LetsPlaced(g, ts, t, U)
  <2>1. ASSUME NEW p, NEW k, Leaves(tr, p, k), t[k].kind = "let"
        PROVE Head(h[p]) # 1 /\ Sym(U, Head(h[p]), t[k].name) = k
    <3>1. Head(h[p]) # 1 /\ Sym(T, Head(h[p]), t[k].name) = k
      BY <2>1 DEF Bound, LetsPlaced
    <3>2. t[k].name \in AllNames /\ k \in 1 .. Len(t) /\ k # 0
      BY <1>3, <2>1, GroundSteps
    <3>3. IsSym(T, Head(h[p]), t[k].name, k)
      BY <1>8, <2>1, <3>1, <3>2 DEF IsSym
    <3>4. IsSym(U, Head(h[p]), t[k].name, k)
      BY <1>5, <3>3
    <3> QED
      BY <3>1, <3>4 DEF IsSym
  <2>2. LetsPlaced(h, tr, t, U)
    BY <2>1 DEF LetsPlaced
  <2> QED
    BY <1>1, <1>7, <1>9, <2>2, LetsPlacedGrown
<1>12. LetsFound(g, ts, t, U)
  <2>1. ASSUME NEW r, NEW x, NEW d, IsSym(U, r, x, d), t[d].kind = "let"
        PROVE \E p : Leaves(ts, p, d) /\ Head(g[p]) = r
    <3>1. CASE IsSym(T, r, x, d)
      <4>1. PICK p : Leaves(tr, p, d) /\ Head(h[p]) = r
        BY <2>1, <3>1 DEF Bound, LetsFound
      <4>2. Leaves(ts, p, d) /\ g[p] = h[p]
        BY <4>1, LongerLeaves, OldChains
      <4> QED
        BY <4>1, <4>2
    <3>2. CASE r = s /\ d = m
      <4>1. Leaves(ts, Len(tr) + 1, m)
        BY LongerLeaves
      <4>2. g[Len(tr) + 1] = h[Len(tr) + 1]
        <5>1. Len(tr) + 1 \in 1 .. (Len(tr) + 1)
          BY <1>1
        <5> QED
          BY <5>1, LongerTrail
      <4> QED
        BY <1>1, <3>2, <4>1, <4>2
    <3> QED
      BY <1>6, <2>1, <3>1, <3>2
  <2> QED
    BY <2>1 DEF LetsFound
<1>13. ArgsPlaced(g, ts, t, U)
  <2>1. ASSUME NEW p, NEW f, Enters(tr, p, f)
        PROVE /\ Head(h[p + 1]) # 1
              /\ t[f].kind = "fn" => \A i \in 1 .. Len(t[f].kids) :
                   Sym(U, Head(h[p + 1]), t[t[f].kids[i]].name) = t[f].kids[i]
    <3>1. Head(h[p + 1]) # 1 /\ Head(h[p + 1]) \in 1 .. Len(T)
      BY <1>8, <2>1 DEF Bound, ArgsPlaced
    <3>2. ASSUME t[f].kind = "fn", NEW i \in 1 .. Len(t[f].kids)
          PROVE Sym(U, Head(h[p + 1]), t[t[f].kids[i]].name) = t[f].kids[i]
      <4>1. PICK k : k = t[f].kids[i]
        OBVIOUS
      <4>2. t[k].name \in AllNames /\ k \in 1 .. Len(t) /\ k # 0
        BY <1>3, <2>1, <3>2, <4>1, GroundSteps
      <4>3. Sym(T, Head(h[p + 1]), t[k].name) = k
        BY <2>1, <3>2, <4>1 DEF Bound, ArgsPlaced
      <4>4. IsSym(T, Head(h[p + 1]), t[k].name, k)
        BY <3>1, <4>2, <4>3 DEF IsSym
      <4>5. IsSym(U, Head(h[p + 1]), t[k].name, k)
        BY <1>5, <4>4
      <4> QED
        BY <4>1, <4>5 DEF IsSym
    <3> QED
      BY <3>1, <3>2
  <2>2. ArgsPlaced(h, tr, t, U)
    BY <2>1 DEF ArgsPlaced
  <2> QED
    BY <1>9, <2>2, ArgsPlacedGrown
<1>14. ArgsFound(g, ts, t, U)
  <2>1. \A r, x, d : IsSym(U, r, x, d) /\ t[d].kind = "arg" => IsSym(T, r, x, d)
    BY <1>6
  <2>2. ArgsFound(h, tr, t, U)
    BY <2>1 DEF Bound, ArgsFound
  <2> QED
    BY <1>9, <2>2, ArgsFoundGrown
<1>15. Outermost(t, U)
  BY <1>6 DEF Bound, Outermost
<1>16. Newest(g, ts)
  BY <1>9, NewestGrown DEF Bound
<1>17. Shadow(g, ts, t, U)
  <2>1. Shadow(h, tr, t, U)
    BY <1>1, <1>2, <1>4, ShadowLet DEF Bound
  <2>2. Hides(c, ts, t, U, Len(tr) + 2)
    BY <1>4, <2>1, HidesLet
  <2> QED
    BY <2>1, <2>2, ShadowGrown
<1> QED
  BY <1>10, <1>11, <1>12, <1>13, <1>14, <1>15, <1>16, <1>17 DEF Bound

(* A scope is opened: it has the parameters of the function that is        *)
(* entered, and those are new names.                                       *)
NewScope(t, T, f, s, c) ==
  /\ \A n, k : IsSym(T, s, n, k) => ArgOf(t, f, k) /\ \A i \in 1 .. Len(c) : Sym(T, c[i], n) = 0
  /\ HasParameters(t, T, f, s)

LEMMA HidesEntered ==
  ASSUME NEW h, NEW g, NEW tr, NEW ts, NEW e, NEW d, Longer(h, g, tr, ts, e, d), NEW t, NEW T,
         Ground(h, tr, t, T), Shadow(h, tr, t, T), e.step = "enter", NEW c, c = h[Len(h)],
         NEW s \in Nat, d = << s >> \o c, NewScope(t, T, e.node, s, c)
  PROVE Hides(d, ts, t, T, Len(tr) + 2)
<1>1. Len(h) \in 1 .. Len(h) /\ Len(h) = Len(tr) + 1 /\ Len(tr) \in Nat /\ c \in Seq(Nat)
      /\ Len(c) \in Nat
  BY LastChain DEF Chain
<1>2. Len(d) = Len(c) + 1 /\ d[1] = s /\ \A i \in 1 .. Len(c) : d[i + 1] = c[i]
  BY <1>1, Pushed
<1>3. ASSUME NEW i \in 1 .. Len(d), NEW j \in 1 .. Len(d), NEW n, NEW k, NEW b, j < i,
             IsSym(T, d[j], n, b), IsSym(T, d[i], n, k)
      PROVE t[k].kind = "fn" \/ (t[k].kind = "let" /\ ~LeftBefore(ts, Len(tr) + 2, k))
  <2>1. PICK x : x = i - 1
    OBVIOUS
  <2>2. x \in 1 .. Len(c) /\ d[i] = c[x]
    <3>1. x \in 1 .. Len(c) /\ i = x + 1
      BY <1>1, <1>2, <1>3, <2>1
    <3> QED
      BY <1>2, <3>1
  <2>3. CASE j = 1
    <3>1. IsSym(T, s, n, b)
      BY <1>2, <1>3, <2>3
    <3>2. Sym(T, c[x], n) = 0
      BY <2>2, <3>1 DEF NewScope
    <3> QED
      BY <1>3, <2>2, <3>2 DEF IsSym
  <2>4. CASE j # 1
    <3>1. PICK y : y = j - 1
      OBVIOUS
    <3>2. y \in 1 .. Len(c) /\ j = y + 1 /\ y < x
      BY <1>1, <1>2, <1>3, <2>1, <2>4, <3>1
    <3>3. IsSym(T, c[y], n, b) /\ IsSym(T, c[x], n, k)
      BY <1>2, <1>3, <2>2, <3>2
    <3>4. t[k].kind = "fn" \/ (t[k].kind = "let" /\ ~LeftBefore(tr, Len(h), k))
      BY <1>1, <2>2, <3>2, <3>3 DEF Shadow
    <3>5. LeftBefore(ts, Len(tr) + 2, k) <=> LeftBefore(tr, Len(tr) + 1, k) \/ Is(e, "leave", k)
      BY LongerLeft
    <3> QED
      BY <1>1, <3>4, <3>5 DEF Is
  <2> QED
    BY <2>3, <2>4
<1> QED
  BY <1>3 DEF Hides

LEMMA BoundEntered ==
  ASSUME NEW h, NEW g, NEW tr, NEW ts, NEW e, NEW d, Longer(h, g, tr, ts, e, d), NEW t, NEW T,
         Ground(h, tr, t, T), Bound(h, tr, t, T), e.step = "enter", NEW c, c = h[Len(h)],
         NEW s \in Nat, d = << s >> \o c, NewScope(t, T, e.node, s, c),
         \A q \in 1 .. Len(h) : Head(h[q]) < s
  PROVE Bound(g, ts, t, T)
<1>1. e.step # "leave"
  OBVIOUS
<1>2. Head(d) = s
  <2>1. c \in Seq(Nat)
    BY LastChain DEF Chain
  <2> QED
    BY <2>1, Pushed
<1>3. LeftOnce(ts)
  BY <1>1, LeftOnceGrown DEF Bound
<1>4. LetsPlaced(g, ts, t, T)
  BY <1>1, LetsPlacedGrown DEF Bound
<1>5. LetsFound(g, ts, t, T)
  BY LetsFoundGrown DEF Bound
<1>6. ArgsPlaced(g, ts, t, T)
  <2>1. HasParameters(t, T, e.node, Head(d))
    BY <1>2 DEF NewScope
  <2>2. ArgsPlaced(h, tr, t, T)
    BY DEF Bound
  <2> QED
    BY <2>1, <2>2, ArgsPlacedGrown
<1>7. ArgsFound(g, ts, t, T)
  <2>1. OnlyParameters(t, T, e.node, Head(d))
    BY <1>2 DEF NewScope, OnlyParameters
  <2>2. ArgsFound(h, tr, t, T)
    BY DEF Bound
  <2> QED
    BY <2>1, <2>2, ArgsFoundGrown
<1>8. Newest(g, ts)
  BY <1>2, NewestGrown DEF Bound
<1>9. Shadow(g, ts, t, T)
  <2>1. Hides(d, ts, t, T, Len(tr) + 2)
    BY HidesEntered DEF Bound
  <2> QED
    BY <2>1, ShadowGrown DEF Bound
<1> QED
  BY <1>3, <1>4, <1>5, <1>6, <1>7, <1>8, <1>9 DEF Bound

-----------------------------------------------------------------------------
(* The steps of the parser.                                                *)

(* A function has its parameters from the start.                           *)
LEMMA ParseKids == ASSUME Syntax, NodesInv, Parse PROVE SameKids(ast, ast')
<1>1. Grows /\ ast \in Seq(TreeNode)
  BY ParseGrows DEF Syntax
<1>2. CASE \A n \in 1 .. Len(ast) : ast'[n] = ast[n]
  BY <1>2 DEF SameKids
<1>3. ASSUME NEW x, AddsNode(x) PROVE \A n \in 1 .. Len(ast) : ast'[n] = ast[n]
  <2>1. ast' = ast \o << x >>
    BY <1>3 DEF AddsNode, Adding, AddNodes
  <2> QED
    BY <1>1, <2>1, AppendedAny
<1>4. ASSUME NEW h, AddsFunction(h) PROVE \A n \in 1 .. Len(ast) : ast'[n] = ast[n]
  BY <1>4, FunctionFitted DEF Planted
<1>5. CASE AddsKid(Head(agenda).node)
  <2> DEFINE n == Head(agenda).node
  <2>1. /\ agenda # << >> /\ Head(agenda).what \in Enders /\ Given(ast, ast', n, value)
    BY <1>5, KidFitted DEF AddsKid
  <2>2. n \in 1 .. Len(ast) /\ ast[n].kind # "fn"
    BY <2>1, HeadNode DEF Enders, Levelled, KindOf
  <2>3. \A m \in 1 .. Len(ast) : m # n => ast'[m] = ast[m]
    BY <2>1 DEF Given
  <2> HIDE DEF n
  <2> QED
    BY <2>2, <2>3 DEF SameKids
<1> QED
  BY <1>1, <1>2, <1>3, <1>4, <1>5 DEF Grows

LEMMA GroundHolds ==
  ASSUME BuildInv, NEW h, History(h, trail, ast, tables) PROVE Ground(h, trail, ast, tables)
<1>1. /\ TablesFit(ast, tables) /\ trail \in Seq(TrailStep) /\ Len(ast) \in Nat
      /\ \A n \in 1 .. Len(ast) : NameFits(ast[n])
  BY DEF BuildInv, TablesInv, TrailInv, Syntax, NodesInv
<1>2. \A n \in 1 .. Len(ast) : KidsFit(ast, n)
  BY DEF BuildInv, Syntax, TreeFits, NodeFits
<1>3. \A p \in 1 .. Len(trail) : trail[p].node \in 1 .. Len(ast)
  BY TrailNodes DEF BuildInv
<1> QED
  BY <1>1, <1>2, <1>3 DEF Ground

(* With the nodes that a step adds to the tree, all is as it was.          *)
LEMMA ParseGround ==
  ASSUME BuildInv, Parse, NEW h, History(h, trail, ast, tables), Bound(h, trail, ast, tables)
  PROVE Ground(h, trail, ast', tables) /\ Bound(h, trail, ast', tables)
<1>1. /\ Extends(ast, ast') /\ Syntax' /\ NodesInv' /\ SameKids(ast, ast')
      /\ ast \in Seq(TreeNode) /\ ast' \in Seq(TreeNode) /\ Syntax
  BY ParseSafe, ParseNodes, ParseKids DEF SyntaxKept, BuildInv, Syntax
<1>2. Ground(h, trail, ast, tables)
  BY GroundHolds
<1>3. SameScopes(tables, tables) /\ TablesFit(ast', tables)
  BY <1>1, TablesKept DEF BuildInv, TablesInv, TablesFit, SameScopes
<1>4. \A p \in 1 .. Len(trail) : trail[p].node \in 1 .. Len(ast)
  BY TrailNodes DEF BuildInv
<1>5. History(h, trail, ast', tables)
  BY <1>1, <1>3, <1>4, HistoryKept
<1>6. \A p \in 1 .. Len(trail) : trail[p].node \in 1 .. Len(ast')
  BY <1>1, <1>4 DEF Extends
<1>7. \A n \in 1 .. Len(ast') : NameFits(ast'[n]) /\ KidsFit(ast', n)
  BY <1>1 DEF NodesInv, Syntax, TreeFits, NodeFits
<1>8. Ground(h, trail, ast', tables)
  BY <1>1, <1>3, <1>5, <1>6, <1>7 DEF Ground, BuildInv, TrailInv
<1> QED
  BY <1>1, <1>2, <1>8, BoundSame

(* A node that is left now was not left before.                            *)
LEMMA NewNotLeft == ASSUME Syntax, TrailInv PROVE \A p : ~Leaves(trail, p, NewId)
<1>1. NewId \notin 1 .. Len(ast)
  BY DEF NewId, Syntax
<1> QED
  BY <1>1, TrailNodes DEF Leaves

LEMMA HeldNotLeft ==
  ASSUME TrailInv, agenda # << >>, agenda \in Seq(Item), Head(agenda).what \in Holders
  PROVE \A p : ~Leaves(trail, p, Head(agenda).node)
<1>1. Held(agenda, Head(agenda).node)
  <2>1. 1 \in 1 .. Len(agenda) /\ agenda[1] = Head(agenda)
    OBVIOUS
  <2> QED
    BY <2>1 DEF Held, HeldAs
<1>2. ASSUME NEW p, Leaves(trail, p, Head(agenda).node) PROVE FALSE
  <2>1. StepFits(trail[p])
    BY <1>2 DEF Leaves, TrailInv
  <2> QED
    BY <1>1, <1>2, <2>1 DEF Leaves, StepFits
<1> QED
  BY <1>2

LEMMA LongerNow ==
  ASSUME TrailInv, NEW e PROVE Append(trail, e) # trail
<1>1. Len(Append(trail, e)) = Len(trail) + 1 /\ Len(trail) \in Nat
  BY DEF TrailInv
<1> QED
  BY <1>1

(* The history after a step of the parser.                                 *)
GoesOn(h, e, d, g) ==
  /\ Longer(h, g, trail, trail', e, d) /\ Goes(h[Len(h)], e, ast', d)
  /\ Head(h[Len(h)]) = currentScope /\ ScopeGoes(e)
  /\ g \in Seq(Seq(Nat)) /\ History(g, trail', ast', tables') /\ Open(g)'

LEMMA ParseLonger ==
  ASSUME BuildInv, Parse, NEW h \in Seq(Seq(Nat)), History(h, trail, ast, tables), Open(h),
         NEW e, trail' = Append(trail, e)
  PROVE \E d, g : GoesOn(h, e, d, g)
<1>1. /\ SameScopes(tables, tables') /\ Extends(ast, ast') /\ Syntax /\ NodesInv /\ TrailInv
      /\ TablesInv /\ ScopesInv
  BY TablesGrow, ParseSafe DEF SyntaxKept, BuildInv
<1>2. trail' # trail
  BY <1>1, LongerNow
<1>3. PICK f : Adds(f) /\ ScopeGoes(f)
  BY <1>1, <1>2, ParseGoes DEF ScopeStays
<1>4. trail \in Seq(TrailStep) /\ f \in TrailStep /\ f = e
  BY <1>1, <1>3, SameStep DEF Adds, StepFits, TrailInv
<1>5. History(h, trail, ast', tables')
  BY <1>1, TrailNodes, HistoryKept
<1>6. PICK c : c = h[Len(h)]
  OBVIOUS
<1>7. Chain(c, tables) /\ Head(c) = currentScope /\ Len(h) = Len(trail) + 1
  <2>1. Len(h) \in 1 .. Len(h) /\ Len(h) = Len(trail) + 1
    BY <1>4 DEF History
  <2>2. phase = "parsing"
    BY ParsesWhen
  <2> QED
    BY <1>6, <2>1, <2>2 DEF History, Open
<1>8. PICK d : Chain(d, tables') /\ Goes(c, e, ast', d) /\ Head(d) = currentScope'
  BY <1>1, <1>3, <1>4, <1>7, ChainGoes
<1>9. PICK g : g = Append(h, d)
  OBVIOUS
<1>10. g \in Seq(Seq(Nat)) /\ History(g, trail', ast', tables') /\ g[Len(g)] = d
  BY <1>4, <1>5, <1>6, <1>8, <1>9, HistoryGrown
<1>11. Open(g)'
  BY <1>8, <1>10 DEF Open
<1>12. Longer(h, g, trail, trail', e, d)
  BY <1>4, <1>7, <1>8, <1>9 DEF Longer, Chain
<1> QED
  BY <1>3, <1>4, <1>6, <1>7, <1>8, <1>10, <1>11, <1>12 DEF GoesOn

LEMMA ParseQuiet ==
  ASSUME BuildInv, Parse, NEW h \in Seq(Seq(Nat)), History(h, trail, ast, tables), Open(h),
         trail' = trail
  PROVE History(h, trail', ast', tables') /\ Open(h)'
<1>1. /\ SameScopes(tables, tables') /\ Extends(ast, ast') /\ Syntax /\ NodesInv /\ TrailInv
      /\ TablesInv /\ ScopesInv
  BY TablesGrow, ParseSafe DEF SyntaxKept, BuildInv
<1>2. ScopeStays
  BY <1>1, LongerNow, ParseGoes DEF Adds
<1>3. History(h, trail, ast', tables')
  BY <1>1, TrailNodes, HistoryKept
<1>4. Open(h)'
  BY <1>2, ParsesWhen DEF ScopeStays, Open
<1> QED
  BY <1>3, <1>4

(* A node other than a variable or a function is left.                     *)
LeavesOther(e) ==
  /\ trail' = Append(trail, e) /\ tables' = tables /\ e.step = "leave"
  /\ ast'[e.node].kind # "let" /\ \A p : ~Leaves(trail, p, e.node)

LEMMA LeavesLeave ==
  ASSUME Syntax, TrailInv, ParseInteger \/ ParseOtherLiteral \/ ParseIdentifier
  PROVE \E e : LeavesOther(e)
<1>1. trail' = Append(trail, Step("leave", NewId)) /\ tables' = tables
  BY DEF ParseInteger, ParseOtherLiteral, ParseIdentifier, Return, LeaveAs, scopeVars
<1>2. PICK kind \in {"literal", "identifier"}, n \in AllNames \cup {"none"} :
        ast' = ast \o << Node(kind, n) >>
  <2>1. CASE ParseInteger
    BY <2>1 DEF ParseInteger, AddNodes
  <2>2. CASE ParseOtherLiteral
    BY <2>2 DEF ParseOtherLiteral, AddNodes
  <2>3. CASE ParseIdentifier
    BY <2>3 DEF ParseIdentifier, AddNodes
  <2> QED
    BY <2>1, <2>2, <2>3
<1>3. ast'[NewId].kind = kind
  BY <1>2, AppendedAny DEF Syntax, NewId, Node
<1>4. PICK e : e = Step("leave", NewId)
  OBVIOUS
<1>5. e.step = "leave" /\ e.node = NewId
  BY <1>4 DEF Step
<1> QED
  BY <1>1, <1>3, <1>4, <1>5, NewNotLeft DEF LeavesOther

LEMMA EndsLeave ==
  ASSUME Syntax, TrailInv, EndCall \/ EndInfix \/ EndRet \/ EndIf
  PROVE \E e : LeavesOther(e)
<1> DEFINE n == Head(agenda).node
<1>1. /\ Parse /\ tables' = tables /\ agenda # << >>
      /\ Head(agenda).what \in {"call", "right", "assign", "ret", "if"}
  BY DEF Parse, EndCall, EndInfix, EndIf, EndRet, scopeVars, Doing
<1>2. PICK e : trail' = Append(trail, e) /\ e.step = "leave" /\ e.node = n
  <2>1. CASE EndCall
    BY <2>1 DEF EndCall, Step
  <2>2. CASE EndInfix
    BY <2>2 DEF EndInfix, Step
  <2>3. CASE EndIf \/ EndRet
    BY <2>3 DEF EndIf, EndRet, Return, LeaveAs, Step
  <2> QED
    BY <2>1, <2>2, <2>3
<1>3. n \in 1 .. Len(ast) /\ ast[n].kind # "let"
  BY <1>1, HeadNode DEF Levelled, KindOf, BodyKinds
<1>4. ast'[n].kind # "let"
  BY <1>1, <1>3, ParseSafe DEF SyntaxKept, Extends
<1>5. \A p : ~Leaves(trail, p, n)
  BY <1>1, HeldNotLeft DEF Syntax, Holders, Enders, BodyKinds
<1> QED
  BY <1>1, <1>2, <1>4, <1>5 DEF LeavesOther

LEMMA ParseForms ==
  ASSUME Syntax, TrailInv, Parse
  PROVE \/ trail' = trail /\ tables' = tables
        \/ \E e : LeavesOther(e)
        \/ BeginFunction \/ ParseIfBody \/ EndFunction \/ EndVarDecl
<1>1. CASE ParseInteger \/ ParseOtherLiteral \/ ParseIdentifier
  BY <1>1, LeavesLeave
<1>2. CASE EndCall \/ EndInfix \/ EndRet \/ EndIf
  BY <1>2, EndsLeave
<1> QED
  BY <1>1, <1>2 DEF Parse, BeginCall, ParseArgument, EndArgument, ParseOperator,
     ParseAssignment, EndExpression, BeginExplicit, BeginInferred, BeginRet, BeginIf,
     BeginExprStatement, EndOfFile, Throw, StopAs, treeVars, scopeVars

(* What a step of the parser makes of the history h of the open scopes.    *)
Follows(h, g) ==
  /\ g \in Seq(Seq(Nat)) /\ History(g, trail', ast', tables') /\ Open(g)'
  /\ Bound(g, trail', ast', tables')
  /\ (g = h /\ trail' = trail) \/ (\E e, d : trail' = Append(trail, e) /\ GoesOn(h, e, d, g))

LEMMA ParseGrounds ==
  ASSUME BuildInv, Parse, NEW h, History(h, trail, ast, tables)
  PROVE Ground(h, trail, ast', tables')
<1>1. /\ Extends(ast, ast') /\ SameScopes(tables, tables') /\ BuildInv'
  BY ParseSafe, TablesGrow, ParseBuild DEF SyntaxKept, BuildInv
<1>2. \A p \in 1 .. Len(trail) : trail[p].node \in 1 .. Len(ast)
  BY TrailNodes DEF BuildInv
<1>3. History(h, trail, ast', tables')
  BY <1>1, <1>2, HistoryKept
<1>4. TablesFit(ast', tables') /\ trail \in Seq(TrailStep) /\ Len(ast') \in Nat
  BY <1>1 DEF BuildInv, TablesInv, TrailInv, Syntax
<1>5. \A n \in 1 .. Len(ast') : NameFits(ast'[n]) /\ KidsFit(ast', n)
  BY <1>1 DEF BuildInv, NodesInv, Syntax, TreeFits, NodeFits
<1>6. \A p \in 1 .. Len(trail) : trail[p].node \in 1 .. Len(ast')
  BY <1>1, <1>2 DEF Extends
<1> QED
  BY <1>3, <1>4, <1>5, <1>6 DEF Ground

LEMMA QuietFollows ==
  ASSUME BuildInv, Parse, NEW h \in Seq(Seq(Nat)), History(h, trail, ast, tables), Open(h),
         Bound(h, trail, ast', tables'), trail' = trail
  PROVE Follows(h, h)
<1>1. History(h, trail', ast', tables') /\ Open(h)'
  BY ParseQuiet
<1> QED
  BY <1>1 DEF Follows

LEMMA OtherFollows ==
  ASSUME BuildInv, Parse, NEW h \in Seq(Seq(Nat)), History(h, trail, ast, tables), Open(h),
         Bound(h, trail, ast', tables'), NEW e, trail' = Append(trail, e), e.step = "leave",
         ast'[e.node].kind # "let", \A p : ~Leaves(trail, p, e.node)
  PROVE \E g : Follows(h, g)
<1>1. PICK d, g : GoesOn(h, e, d, g)
  BY ParseLonger
<1>2. Ground(h, trail, ast', tables')
  BY ParseGrounds
<1>3. d = h[Len(h)] \/ d = Tail(h[Len(h)])
  BY <1>1 DEF GoesOn, Goes, Opens
<1>4. Longer(h, g, trail, trail', e, d)
  BY <1>1 DEF GoesOn
<1>5. Bound(g, trail', ast', tables')
  BY <1>2, <1>3, <1>4, BoundLeft
<1> QED
  BY <1>1, <1>5 DEF Follows, GoesOn

LEMMA EndFunctionFollows ==
  ASSUME BuildInv, EndFunction, NEW h \in Seq(Seq(Nat)), History(h, trail, ast, tables), Open(h),
         Bound(h, trail, ast, tables)
  PROVE \E g : Follows(h, g)
<1> DEFINE f == Head(agenda).node
           outer == tables[currentScope].parent
<1>1. /\ Parse /\ phase = "parsing" /\ agenda # << >> /\ Head(agenda).what = "fn" /\ ast' = ast
      /\ tables' = WithSymbol(tables, outer, ast[f].name, f)
      /\ trail' = Append(trail, Step("leave", f))
  BY DEF Parse, EndFunction, Doing, LeaveAs
<1>2. f \in 1 .. Len(ast) /\ ast[f].kind = "fn" /\ Syntax /\ TrailInv /\ NodesInv
  BY <1>1, HeadNode DEF BuildInv, Levelled, KindOf
<1>3. \A p : ~Leaves(trail, p, f)
  BY <1>1, <1>2, HeldNotLeft DEF Syntax, Holders, BodyKinds
<1>4. ast[f].name \in AllNames
  BY <1>2 DEF NodesInv, NameFits, AllNames
<1>5. outer = 1
  <2>1. PICK sc : ScopesFit(sc, agenda, tables, currentScope)
    BY <1>1 DEF BuildInv, ScopesInv
  <2>2. agenda \in Seq(Item) /\ Len(agenda) \in Nat /\ Head(agenda) = agenda[1] /\ Len(agenda) # 0
    BY <1>1, <1>2 DEF Syntax
  <2>3. Len(agenda) = 1
    <3>1. SUFFICES ASSUME Len(agenda) # 1 PROVE FALSE
      OBVIOUS
    <3>2. 1 \in 1 .. (Len(agenda) - 1)
      <4>1. \A l \in Nat : l # 0 /\ l # 1 => 1 \in 1 .. (l - 1)
        OBVIOUS
      <4> QED
        BY <2>2, <3>1, <4>1
    <3>3. Stacked(ast, agenda[1], agenda[1 + 1])
      BY <1>2, <3>2 DEF Syntax, AgendaFits
    <3> QED
      BY <1>1, <2>2, <3>3 DEF Stacked
  <2>4. Len(sc) = 2 /\ sc[1] = currentScope /\ sc[2] = 1 /\ sc[1 + 1] = tables[sc[1]].parent
    BY <1>1, <2>1, <2>2, <2>3 DEF ScopesFit, BodyKinds
  <2> QED
    BY <2>4
<1> HIDE DEF f, outer
<1>6. Ground(h, trail, ast, tables)
  BY GroundHolds
<1>7. Bound(h, trail, ast', tables')
  <2>1. \A U : U = tables' => Bound(h, trail, ast, U)
    BY <1>1, <1>2, <1>4, <1>5, <1>6, BoundFunction
  <2> QED
    BY <1>1, <2>1
<1>8. PICK e : e = Step("leave", f)
  OBVIOUS
<1>9. e.step = "leave" /\ e.node = f
  BY <1>8 DEF Step
<1> QED
  BY <1>1, <1>2, <1>3, <1>7, <1>8, <1>9, OtherFollows

LEMMA EndVarDeclFollows ==
  ASSUME BuildInv, EndVarDecl, NEW h \in Seq(Seq(Nat)), History(h, trail, ast, tables), Open(h),
         Bound(h, trail, ast, tables)
  PROVE \E g : Follows(h, g)
<1> DEFINE m == Head(agenda).node
<1>0. Parse /\ phase = "parsing" /\ agenda # << >> /\ Head(agenda).what \in {"explicit", "inferred"}
  BY DEF Parse, EndVarDecl, Doing
<1>1. CASE ~Addable(tables, currentScope, ast[m].name)
  <2>1. trail' = trail /\ tables' = tables
    BY <1>1 DEF EndVarDecl, Throw, StopAs, treeVars, scopeVars
  <2>2. Bound(h, trail, ast', tables')
    BY <1>0, <2>1, ParseGround
  <2> QED
    BY <1>0, <2>1, <2>2, QuietFollows
<1>2. CASE Addable(tables, currentScope, ast[m].name)
  <2>1. /\ tables' = WithSymbol(tables, currentScope, ast[m].name, m)
        /\ trail' = Append(trail, Step("leave", m))
    BY <1>2 DEF EndVarDecl, Return, LeaveAs
  <2>2. m \in 1 .. Len(ast) /\ ast[m].kind = "let" /\ Syntax /\ TrailInv /\ NodesInv
    BY <1>0, HeadNode DEF BuildInv, Levelled, KindOf
  <2>3. \A p : ~Leaves(trail, p, m)
    BY <1>0, <2>2, HeldNotLeft DEF Syntax, Holders, Enders
  <2>4. currentScope # 1
    <3>1. PICK sc : ScopesFit(sc, agenda, tables, currentScope)
      BY <1>0 DEF BuildInv, ScopesInv
    <3>2. /\ agenda \in Seq(Item) /\ Len(agenda) \in Nat /\ Head(agenda) = agenda[1] /\ Len(agenda) # 0
          /\ agenda[Len(agenda)].what = "fn"
      BY <1>0, <2>2 DEF Syntax, AgendaFits
    <3>3. 1 \in 1 .. (Len(agenda) - 1) /\ 1 \in 1 .. Len(agenda) /\ 2 \in 1 .. Len(agenda)
      BY <1>0, <3>2
    <3>4. Stacked(ast, agenda[1], agenda[1 + 1])
      BY <2>2, <3>3 DEF Syntax, AgendaFits
    <3>5. agenda[2].what \in BodyKinds /\ agenda[1].what \notin BodyKinds
      BY <1>0, <3>2, <3>4 DEF Stacked, Parts, BodyKinds
    <3>6. /\ sc[1] = currentScope /\ sc[1 + 1] = sc[1] /\ sc[2 + 1] = tables[sc[2]].parent
          /\ Len(sc) = Len(agenda) + 1
      BY <3>1, <3>3, <3>5 DEF ScopesFit
    <3>7. 3 \in 1 .. Len(sc)
      BY <3>2, <3>3, <3>6
    <3>8. sc[3] \in 1 .. Len(tables) /\ tables[currentScope].parent = sc[3]
      BY <3>1, <3>6, <3>7 DEF ScopesFit
    <3>9. tables[1].parent \in 0 .. (1 - 1)
      BY DEF BuildInv, TablesInv, TablesFit, TableFits
    <3> QED
      BY <3>8, <3>9
  <2> HIDE DEF m
  <2>5. PICK e : e = Step("leave", m)
    OBVIOUS
  <2>6. Is(e, "leave", m) /\ trail' = Append(trail, e)
    BY <2>1, <2>5 DEF Step, Is
  <2>7. PICK d, g : GoesOn(h, e, d, g)
    BY <1>0, <2>6, ParseLonger
  <2>8. Extends(ast, ast') /\ Len(ast') \in Nat
    BY <1>0, <2>2, ParseSafe DEF SyntaxKept, Syntax
  <2>9. m \in 1 .. Len(ast') /\ ast'[m].kind = "let" /\ ast'[m].name = ast[m].name
    BY <2>2, <2>8 DEF Extends
  <2>10. d = h[Len(h)] /\ Head(h[Len(h)]) = currentScope
    BY <2>6, <2>7, <2>9 DEF GoesOn, Goes, Opens, Closes, Is, BodyKinds
  <2>11. Ground(h, trail, ast', tables) /\ Bound(h, trail, ast', tables)
    BY <1>0, ParseGround
  <2>12. find_base(tables, currentScope, ast[m].name) = 0
    BY <1>2 DEF Addable, m
  <2>13. Longer(h, g, trail, trail', e, d)
    BY <2>7 DEF GoesOn
  <2>14. \A U : U = tables' => Bound(g, trail', ast', U)
    BY <2>1, <2>3, <2>4, <2>6, <2>9, <2>10, <2>11, <2>12, <2>13, BoundLet
  <2> QED
    BY <2>6, <2>7, <2>14 DEF Follows, GoesOn
<1> QED
  BY <1>1, <1>2

LEMMA EntersFollows ==
  ASSUME BuildInv, Parse, phase' = "parsing", NEW h \in Seq(Seq(Nat)),
         History(h, trail, ast, tables), Open(h), Bound(h, trail, ast', tables'), NEW e,
         trail' = Append(trail, e), e.step = "enter",
         NewScope(ast', tables', e.node, Len(tables) + 1, h[Len(h)])
  PROVE \E g : Follows(h, g)
<1>1. PICK d, g : GoesOn(h, e, d, g)
  BY ParseLonger
<1>2. PICK c, s : c = h[Len(h)] /\ s = Len(tables) + 1
  OBVIOUS
<1>3. Longer(h, g, trail, trail', e, d)
  BY <1>1 DEF GoesOn
<1>4. d = << Head(d) >> \o c /\ currentScope' = s
  BY <1>1, <1>2 DEF GoesOn, Goes, ScopeGoes, Opens
<1>5. Head(d) = s
  <2>1. Len(g) = Len(trail) + 2 /\ g[Len(trail) + 2] = d
    BY <1>3, LongerTrail
  <2> QED
    BY <1>1, <1>4, <2>1 DEF GoesOn, Open
<1>6. s \in Nat /\ \A q \in 1 .. Len(h) : Head(h[q]) < s
  <2>1. Ground(h, trail, ast, tables) /\ Len(tables) \in Nat
    BY GroundHolds DEF BuildInv, TablesInv, TablesFit
  <2>2. ASSUME NEW q \in 1 .. Len(h) PROVE Head(h[q]) < s
    <3>1. Head(h[q]) \in 1 .. Len(tables)
      BY <2>1, GroundChains
    <3> QED
      BY <1>2, <2>1, <3>1
  <2> QED
    BY <1>2, <2>1, <2>2
<1>7. Ground(h, trail, ast', tables') /\ NewScope(ast', tables', e.node, s, c)
  BY <1>2, ParseGrounds
<1>8. Bound(g, trail', ast', tables')
  BY <1>2, <1>3, <1>4, <1>5, <1>6, <1>7, BoundEntered
<1> QED
  BY <1>1, <1>8 DEF Follows, GoesOn

LEMMA IfBodyFollows ==
  ASSUME BuildInv, ParseIfBody, NEW h \in Seq(Seq(Nat)), History(h, trail, ast, tables), Open(h),
         Bound(h, trail, ast, tables)
  PROVE \E g : Follows(h, g)
<1> DEFINE m == Head(agenda).node
           x == EmptyTable(currentScope, AllNames)
           s == Len(tables) + 1
<1>1. /\ Parse /\ phase' = "parsing" /\ agenda # << >> /\ Head(agenda).what = "condition"
      /\ tables' = Append(tables, x) /\ trail' = Append(trail, Step("enter", m))
  BY DEF Parse, ParseIfBody, Doing
<1>2. m \in 1 .. Len(ast) /\ ast[m].kind = "if" /\ Syntax /\ TablesFit(ast, tables)
  BY <1>1, HeadNode DEF BuildInv, Levelled, KindOf, BodyKinds, TablesInv
<1>3. ast'[m].kind = "if"
  BY <1>1, <1>2, ParseSafe DEF SyntaxKept, Extends
<1>4. x \in Table /\ \A n \in AllNames : x.symbols[n] = 0
  <2>1. currentScope \in 0 .. Len(tables) /\ Len(tables) \in Nat
    BY <1>2 DEF BuildInv, ScopesInv, TablesFit
  <2>2. s \in Nat /\ currentScope \in 0 .. (s - 1)
    BY <2>1
  <2>3. x \in Table
    BY <2>2, EmptyTables
  <2> QED
    BY <2>3 DEF EmptyTable
<1>5. Len(tables) \in Nat /\ s # 1 /\ tables'[s] = x
  <2>1. tables \in Seq(Table) /\ Len(tables) \in Nat /\ Len(tables) > 0
    BY <1>2 DEF TablesFit
  <2>2. (tables \o << x >>)[Len(tables) + 1] = x /\ Append(tables, x) = tables \o << x >>
    BY <1>4, <2>1, Appended
  <2> QED
    BY <1>1, <2>1, <2>2
<1> HIDE DEF m, x, s
<1>6. Ground(h, trail, ast', tables) /\ Bound(h, trail, ast', tables)
  BY <1>1, ParseGround
<1>7. Bound(h, trail, ast', tables')
  <2>1. \A U : U = tables' => Bound(h, trail, ast', U)
    BY <1>1, <1>4, <1>6, BoundAppended
  <2> QED
    BY <2>1
<1>8. PICK e : e = Step("enter", m)
  OBVIOUS
<1>9. e.step = "enter" /\ e.node = m
  BY <1>8 DEF Step
<1>10. NewScope(ast', tables', e.node, s, h[Len(h)])
  BY <1>3, <1>4, <1>5, <1>9 DEF NewScope, HasParameters, IsSym, Sym
<1> QED
  BY <1>1, <1>7, <1>8, <1>9, <1>10, EntersFollows DEF s

(* The parameters of a new function, in the tree and in their table.       *)
Parameters(t, x, p) ==
  /\ t[NewId].kind = "fn" /\ Len(t[NewId].kids) = Len(p)
  /\ \A i \in 1 .. Len(p) : /\ t[NewId].kids[i] = NewId + i /\ t[NewId + i].kind = "arg"
                            /\ t[NewId + i].name = p[i][1] /\ x.symbols[p[i][1]] = NewId + i
  /\ \A n \in AllNames : x.symbols[n] # 0 =>
       \E i \in 1 .. Len(p) : p[i][1] = n /\ x.symbols[n] = NewId + i

LEMMA FunctionParameters ==
  ASSUME Syntax, NodesInv, NEW h, AddsFunction(h), ParametersAddable(h.params)
  PROVE Parameters(ast', ParameterTable(h.params), h.params)
<1>1. PICK p : p = h.params
  OBVIOUS
<1>2. /\ h.params \in Seq(VarNames \X Types) /\ p \in Seq(VarNames \X Types) /\ Len(p) \in Nat
      /\ \A i \in 1 .. Len(p) : p[i][1] \in AllNames
  BY <1>1, HeadersAssumption DEF AddsFunction, AllNames
<1>3. Planted(ast, ast', h.name, p, h.ret) /\ Len(ast) \in Nat
  BY <1>1, FunctionFitted DEF Syntax
<1>4. /\ ast'[NewId].kind = "fn"
      /\ \A i \in 1 .. Len(p) : ast'[NewId + i].kind = "arg" /\ ast'[NewId + i].name = p[i][1]
  <2>1. ast'[NewId].kind = "fn" /\ \A i \in 1 .. Len(p) : ast'[NewId + i] = Node("arg", p[i][1])
    BY <1>3 DEF Planted, NewId
  <2>2. \A n : Node("arg", n).kind = "arg" /\ Node("arg", n).name = n
    BY DEF Node
  <2> QED
    BY <2>1, <2>2
<1>5. ast'[NewId].kids = [i \in 1 .. Len(p) |-> NewId + i]
  <2> DEFINE x == [Node("fn", h.name) EXCEPT !.word = h.ret,
                                             !.kids = [i \in 1 .. Len(p) |-> NewId + i]]
             args == [i \in 1 .. Len(p) |-> Node("arg", p[i][1])]
  <2>1. ast' = ast \o (<< x >> \o args)
    BY <1>1 DEF AddsFunction, AddNodes, FunctionNodes
  <2>2. x.kids = [i \in 1 .. Len(p) |-> NewId + i]
    BY DEF Node
  <2> HIDE DEF x
  <2>3. PICK S : S = TreeNode \cup {x} \cup {args[i] : i \in 1 .. Len(p)}
    OBVIOUS
  <2>4. ast \in Seq(S) /\ << x >> \in Seq(S) /\ args \in Seq(S) /\ Len(<< x >>) = 1
    BY <1>2, <2>3 DEF Syntax
  <2>5. << x >> \o args \in Seq(S) /\ (<< x >> \o args)[1] = x /\ Len(<< x >> \o args) = 1 + Len(args)
    BY <2>4, Joined
  <2>6. 1 \in 1 .. Len(<< x >> \o args)
    BY <2>4, <2>5
  <2>7. ast'[Len(ast) + 1] = x
    BY <2>1, <2>4, <2>5, <2>6, Joined
  <2> QED
    BY <2>2, <2>7 DEF NewId
<1>6. \A i, j \in 1 .. Len(p) : p[i][1] = p[j][1] => i = j
  <2>1. \A i \in 1 .. Len(p) : \A j \in 1 .. (i - 1) : p[j][1] # p[i][1]
    BY <1>1 DEF ParametersAddable
  <2> QED
    BY <1>2, <2>1
<1>7. PICK x : x = ParameterTable(p)
  OBVIOUS
<1>8. ASSUME NEW n \in AllNames
      PROVE x.symbols[n] = IF \E i \in 1 .. Len(p) : p[i][1] = n
                           THEN NewId + (CHOOSE i \in 1 .. Len(p) : p[i][1] = n) ELSE 0
  BY <1>7 DEF ParameterTable, EmptyTable
<1>9. ASSUME NEW i \in 1 .. Len(p) PROVE x.symbols[p[i][1]] = NewId + i
  <2>1. PICK n : n = p[i][1]
    OBVIOUS
  <2>2. x.symbols[n] = NewId + (CHOOSE j \in 1 .. Len(p) : p[j][1] = n)
    BY <1>2, <1>8, <2>1
  <2>3. (CHOOSE j \in 1 .. Len(p) : p[j][1] = n) \in 1 .. Len(p)
        /\ p[CHOOSE j \in 1 .. Len(p) : p[j][1] = n][1] = n
    BY <2>1
  <2>4. (CHOOSE j \in 1 .. Len(p) : p[j][1] = n) = i
    BY <1>6, <2>1, <2>3
  <2> QED
    BY <2>1, <2>2, <2>4
<1>10. ASSUME NEW n \in AllNames, x.symbols[n] # 0
       PROVE \E i \in 1 .. Len(p) : p[i][1] = n /\ x.symbols[n] = NewId + i
  BY <1>8, <1>10
<1>11. Len(ast'[NewId].kids) = Len(p) /\ \A i \in 1 .. Len(p) : ast'[NewId].kids[i] = NewId + i
  BY <1>2, <1>5
<1>12. Parameters(ast', x, p)
  BY <1>4, <1>9, <1>10, <1>11 DEF Parameters
<1> QED
  BY <1>1, <1>7, <1>12

(* A function of another object file is declared at once, its parameters   *)
(* in a table that nobody enters.                                          *)
LEMMA ExternBound ==
  ASSUME BuildInv, Parse, NEW h, History(h, trail, ast, tables), Bound(h, trail, ast, tables),
         NEW f \in AllNames, ast'[NewId].kind = "fn", ast'[NewId].name = f, NEW x \in Table,
         \A n \in AllNames : x.symbols[n] # 0 => ast'[x.symbols[n]].kind = "arg",
         NewId \in 1 .. Len(ast'), NewId \in Nat,
         tables' = Append(WithSymbol(tables, 1, f, NewId), x)
  PROVE Bound(h, trail, ast', tables')
<1>1. Ground(h, trail, ast', tables) /\ Bound(h, trail, ast', tables)
  BY ParseGround
<1>2. PICK U : U = WithSymbol(tables, 1, f, NewId)
  OBVIOUS
<1>3. Bound(h, trail, ast', U)
  BY <1>1, <1>2, BoundFunction
<1>4. TablesFit(ast', U) /\ SameScopes(tables, U)
  <2>1. TablesFit(ast', tables) /\ Declared(ast', NewId, f)
    BY <1>1 DEF Ground, Declared
  <2>2. 1 \in 1 .. Len(tables)
    BY <2>1 DEF TablesFit
  <2> QED
    BY <1>2, <2>1, <2>2, SymbolSet
<1>5. History(h, trail, ast', U)
  <2>1. Extends(ast', ast')
    BY <1>1 DEF Extends, Ground
  <2> QED
    BY <1>1, <1>4, <2>1, HistoryKept DEF Ground
<1>6. Ground(h, trail, ast', U)
  BY <1>1, <1>4, <1>5 DEF Ground
<1>7. \A V : V = tables' => Bound(h, trail, ast', V)
  BY <1>2, <1>3, <1>6, BoundAppended
<1> QED
  BY <1>7

LEMMA ParameterScope ==
  ASSUME TablesFit(ast, tables), NEW p \in Seq(VarNames \X Types), ParametersAddable(p),
         NEW x \in Table, Parameters(ast', x, p), tables' = Append(tables, x),
         NEW c, Chain(c, tables), Head(c) = currentScope
  PROVE NewScope(ast', tables', NewId, Len(tables) + 1, c)
<1>1. PICK s : s = Len(tables) + 1
  OBVIOUS
<1>2. /\ tables'[s] = x /\ s # 1 /\ \A r \in 1 .. Len(tables) : tables'[r] = tables[r]
  <2>1. tables \in Seq(Table) /\ Len(tables) \in Nat /\ Len(tables) > 0
    BY DEF TablesFit
  <2>2. /\ (tables \o << x >>)[Len(tables) + 1] = x /\ Append(tables, x) = tables \o << x >>
        /\ \A r \in 1 .. Len(tables) : (tables \o << x >>)[r] = tables[r]
    BY <2>1, Appended
  <2> QED
    BY <1>1, <2>1, <2>2
<1>3. ASSUME NEW n, NEW k, IsSym(tables', s, n, k)
      PROVE ArgOf(ast', NewId, k) /\ \A i \in 1 .. Len(c) : Sym(tables', c[i], n) = 0
  <2>1. n \in AllNames /\ x.symbols[n] = k /\ k # 0
    BY <1>2, <1>3 DEF IsSym, Sym
  <2>2. PICK i \in 1 .. Len(p) : p[i][1] = n /\ k = NewId + i
    BY <2>1 DEF Parameters
  <2>3. ArgOf(ast', NewId, k)
    BY <2>2 DEF Parameters, ArgOf
  <2>4. find_base(tables, currentScope, n) = 0
    BY <2>2 DEF ParametersAddable, Addable
  <2>5. Len(c) \in Nat \ {0} /\ Head(c) = c[1] /\ 1 \in 1 .. Len(c)
    BY ChainHead
  <2>6. ASSUME NEW j \in 1 .. Len(c) PROVE Sym(tables', c[j], n) = 0
    <3>1. find_base(tables, c[1], n) = 0 /\ 1 <= j
      BY <2>4, <2>5
    <3>2. Sym(tables, c[j], n) = 0
      BY <2>1, <2>5, <3>1, ChainLacks
    <3>3. c[j] \in 1 .. Len(tables)
      BY DEF Chain
    <3> QED
      BY <1>2, <3>2, <3>3 DEF Sym
  <2> QED
    BY <2>3, <2>6
<1>4. HasParameters(ast', tables', NewId, s)
  <2>1. ASSUME NEW i \in 1 .. Len(ast'[NewId].kids)
        PROVE Sym(tables', s, ast'[ast'[NewId].kids[i]].name) = ast'[NewId].kids[i]
    BY <1>2 DEF Parameters, Sym
  <2> QED
    BY <1>2, <2>1 DEF HasParameters
<1> QED
  BY <1>1, <1>3, <1>4 DEF NewScope

LEMMA BeginFunctionFollows ==
  ASSUME BuildInv, BeginFunction, NEW h \in Seq(Seq(Nat)), History(h, trail, ast, tables),
         Open(h), Bound(h, trail, ast, tables)
  PROVE \E g : Follows(h, g)
<1>1. PICK y \in Headers : ParseFunction(y.name, y.params, y.ret, y.ext)
  BY DEF BeginFunction
<1>2. Parse /\ phase = "parsing" /\ agenda = << >> /\ Syntax /\ NodesInv
  BY <1>1 DEF Parse, ParseFunction, BuildInv
<1>3. PICK p, f : p = y.params /\ f = y.name
  OBVIOUS
<1>4. p \in Seq(VarNames \X Types) /\ f \in AllNames
  BY <1>3, HeadersAssumption DEF AllNames
<1>5. CASE ~ParametersAddable(p) \/ fnTypes[f] # 0
  <2>1. trail' = trail /\ tables' = tables
    BY <1>1, <1>3, <1>5 DEF ParseFunction, Throw, StopAs, treeVars, scopeVars
  <2>2. Bound(h, trail, ast', tables')
    BY <1>2, <2>1, ParseGround
  <2> QED
    BY <1>2, <2>1, <2>2, QuietFollows
<1>6. CASE ~(~ParametersAddable(p) \/ fnTypes[f] # 0)
  <2>1. AddsFunction(y) /\ phase' = "parsing"
    BY <1>1, <1>2, <1>3, <1>6 DEF ParseFunction, AddsFunction
  <2>2. PICK x : x = ParameterTable(p)
    OBVIOUS
  <2>3. Planted(ast, ast', f, p, y.ret) /\ Parameters(ast', x, p)
    BY <1>2, <1>3, <1>6, <2>1, <2>2, FunctionFitted, FunctionParameters
  <2>4. NewId \in 1 .. Len(ast') /\ NewId \in Nat /\ ast'[NewId].kind = "fn" /\ ast'[NewId].name = f
    <3>1. Len(ast') = Len(ast) + 1 + Len(p) /\ Len(ast) \in Nat /\ Len(p) \in Nat
      BY <1>2, <1>4, <2>3 DEF Planted, Syntax
    <3>2. \A l, k \in Nat : l + 1 \in 1 .. (l + 1 + k) /\ l + 1 \in Nat
      OBVIOUS
    <3> QED
      BY <2>3, <3>1, <3>2 DEF Planted, NewId
  <2>5. x \in Table /\ TablesFit(ast, tables) /\ Len(tables) \in Nat
    <3>1. Len(tables) + 1 \in Nat /\ currentScope \in 0 .. ((Len(tables) + 1) - 1)
          /\ TablesFit(ast, tables) /\ Len(tables) \in Nat
      BY DEF BuildInv, ScopesInv, TablesInv, TablesFit
    <3> QED
      BY <1>2, <1>4, <2>2, <2>3, <3>1, ParameterTables
  <2>6. \A n \in AllNames : x.symbols[n] # 0 => ast'[x.symbols[n]].kind = "arg"
    BY <2>3 DEF Parameters
  <2>7. CASE y.ext
    <3>1. currentScope = 1
      <4>1. PICK sc : ScopesFit(sc, agenda, tables, currentScope)
        BY <1>2 DEF BuildInv, ScopesInv
      <4> QED
        BY <1>2, <4>1 DEF ScopesFit
    <3>2. tables' = Append(WithSymbol(tables, 1, f, NewId), x) /\ trail' = trail
      BY <1>1, <1>3, <1>6, <2>2, <2>7, <3>1 DEF ParseFunction
    <3>3. Bound(h, trail, ast', tables')
      BY <1>2, <1>4, <2>4, <2>5, <2>6, <3>2, ExternBound
    <3> QED
      BY <1>2, <3>2, <3>3, QuietFollows
  <2>8. CASE ~y.ext
    <3>1. tables' = Append(tables, x) /\ trail' = Append(trail, Step("enter", NewId))
      BY <1>1, <1>3, <1>6, <2>2, <2>8 DEF ParseFunction
    <3>2. Ground(h, trail, ast', tables) /\ Bound(h, trail, ast', tables)
      BY <1>2, ParseGround
    <3>3. Bound(h, trail, ast', tables')
      <4>1. \A U : U = tables' => Bound(h, trail, ast', U)
        BY <2>5, <2>6, <3>1, <3>2, BoundAppended
      <4> QED
        BY <4>1
    <3>4. PICK e : e = Step("enter", NewId)
      OBVIOUS
    <3>5. e.step = "enter" /\ e.node = NewId
      BY <3>4 DEF Step
    <3>6. PICK c : c = h[Len(h)]
      OBVIOUS
    <3>7. Chain(c, tables) /\ Head(c) = currentScope
      <4>1. Ground(h, trail, ast, tables)
        BY GroundHolds
      <4> QED
        BY <1>2, <3>6, <4>1, LastChain DEF Open
    <3>8. NewScope(ast', tables', NewId, Len(tables) + 1, c)
      BY <1>4, <1>6, <2>3, <2>5, <3>1, <3>7, ParameterScope
    <3> QED
      BY <1>2, <2>1, <3>1, <3>3, <3>4, <3>5, <3>6, <3>8, EntersFollows
  <2> QED
    BY <2>7, <2>8
<1> QED
  BY <1>5, <1>6

LEMMA ParseFollows ==
  ASSUME BuildInv, Parse, NEW h \in Seq(Seq(Nat)), History(h, trail, ast, tables), Open(h),
         Bound(h, trail, ast, tables)
  PROVE \E g : Follows(h, g)
<1>1. CASE trail' = trail /\ tables' = tables
  <2>1. Bound(h, trail, ast', tables')
    BY <1>1, ParseGround
  <2> QED
    BY <1>1, <2>1, QuietFollows
<1>2. ASSUME NEW e, LeavesOther(e) PROVE \E g : Follows(h, g)
  <2>1. Bound(h, trail, ast', tables')
    BY <1>2, ParseGround DEF LeavesOther
  <2> QED
    BY <1>2, <2>1, OtherFollows DEF LeavesOther
<1>3. CASE BeginFunction \/ ParseIfBody \/ EndFunction \/ EndVarDecl
  BY <1>3, BeginFunctionFollows, IfBodyFollows, EndFunctionFollows, EndVarDeclFollows
<1> QED
  BY <1>1, <1>2, <1>3, ParseForms DEF BuildInv

-----------------------------------------------------------------------------
(* The calls that look names up.                                           *)

FindsStay ==
  \A i, n : IsCall(defered', i, "find", n) =>
    IsCall(defered, i, "find", n) /\ defered'[i] = defered[i]

LEMMA FindsJoined ==
  ASSUME NEW S, defered \in Seq(S), NEW ds \in Seq(S), \A i \in 1 .. Len(ds) : ds[i].what # "find",
         defered' = defered \o ds
  PROVE FindsStay
<1>1. /\ Len(defered') = Len(defered) + Len(ds) /\ Len(defered) \in Nat /\ Len(ds) \in Nat
      /\ \A i \in 1 .. Len(defered) : defered'[i] = defered[i]
      /\ \A i \in 1 .. Len(ds) : defered'[Len(defered) + i] = ds[i]
  BY Joined
<1>2. ASSUME NEW i, NEW n, IsCall(defered', i, "find", n)
      PROVE IsCall(defered, i, "find", n) /\ defered'[i] = defered[i]
  <2>1. i \in 1 .. (Len(defered) + Len(ds)) /\ defered'[i].what = "find"
    BY <1>1, <1>2 DEF IsCall
  <2>2. CASE i \in 1 .. Len(defered)
    BY <1>1, <1>2, <2>2 DEF IsCall
  <2>3. CASE i \notin 1 .. Len(defered)
    <3>1. PICK k : k = i - Len(defered)
      OBVIOUS
    <3>2. k \in 1 .. Len(ds) /\ Len(defered) + k = i
      BY <1>1, <2>1, <2>3, <3>1
    <3> QED
      BY <1>1, <2>1, <3>2
  <2> QED
    BY <2>2, <2>3
<1> QED
  BY <1>2 DEF FindsStay

LEMMA FindsQuiet == ASSUME defered' = defered PROVE FindsStay
BY DEF FindsStay, IsCall

LEMMA FindsOne ==
  ASSUME defered \in Seq(DeferedCall), NEW x, x.what # "find", defered' = defered \o << x >>
  PROVE FindsStay
<1>1. PICK S : S = DeferedCall \cup {x}
  OBVIOUS
<1>2. defered \in Seq(S) /\ << x >> \in Seq(S) /\ \A i \in 1 .. Len(<< x >>) : << x >>[i] = x
  BY <1>1
<1> QED
  BY <1>2, FindsJoined

LEMMA OtherFinds == ASSUME BuildInv, Parse PROVE ParseIdentifier \/ FindsStay
<1>1. defered \in Seq(DeferedCall) /\ Syntax
  BY DEF BuildInv, CallsInv
<1>2. CASE EndFunction \/ ParseArgument \/ EndArgument \/ EndExpression \/ EndRet \/ ParseIfBody
           \/ EndIf \/ BeginExprStatement \/ EndOfFile \/ ParseOtherLiteral \/ BeginCall
           \/ ParseOperator \/ ParseAssignment \/ BeginInferred \/ BeginRet \/ BeginIf
  <2>1. defered' = defered
    BY <1>2 DEF EndFunction, ParseArgument, EndArgument, EndExpression, EndRet, ParseIfBody,
       EndIf, BeginExprStatement, EndOfFile, ParseOtherLiteral, BeginCall, ParseOperator,
       ParseAssignment, BeginInferred, BeginRet, BeginIf, Throw, StopAs
  <2> QED
    BY <2>1, FindsQuiet
<1>3. CASE ParseInteger
  <2>1. defered' = defered \/ defered' = defered \o << CallWith("literal", NewId, Head(explicitTypes)) >>
    BY <1>3 DEF ParseInteger, Defer
  <2> QED
    BY <1>1, <2>1, FindsQuiet, FindsOne, CallForms
<1>4. CASE BeginExplicit
  <2>1. PICK t \in Types : defered' = defered \o << CallType(NewId, t) >>
    BY <1>4 DEF BeginExplicit, Defer
  <2> QED
    BY <1>1, <2>1, FindsOne, CallForms
<1>5. CASE EndInfix
  <2>1. /\ defered' = defered \o << Call(ast[Head(agenda).node].kind, Head(agenda).node) >>
        /\ agenda # << >> /\ Head(agenda).what \in {"right", "assign"}
    BY <1>5 DEF EndInfix, Defer, Doing
  <2>2. ast[Head(agenda).node].kind # "find"
    BY <1>1, <2>1, HeadNode DEF Levelled, KindOf
  <2> QED
    BY <1>1, <2>1, <2>2, FindsOne, CallForms
<1>6. CASE EndVarDecl
  <2>1. defered' = defered \/ defered' = defered \o << Call("let", Head(agenda).node) >>
    BY <1>6 DEF EndVarDecl, Defer, Throw, StopAs
  <2> QED
    BY <1>1, <2>1, FindsQuiet, FindsOne, CallForms
<1>7. CASE EndCall
  <2>1. PICK x, y : /\ x = Call("callee", Head(agenda).node) /\ y = Call("call", Head(agenda).node)
    OBVIOUS
  <2>2. defered' = defered \o << x, y >>
    BY <1>7, <2>1 DEF EndCall, Defer
  <2>3. PICK S : S = DeferedCall \cup {x, y}
    OBVIOUS
  <2>4. x.what # "find" /\ y.what # "find"
    BY <2>1, CallForms
  <2>5. defered \in Seq(S) /\ << x, y >> \in Seq(S)
    BY <1>1, <2>3
  <2>6. \A i \in 1 .. Len(<< x, y >>) : << x, y >>[i].what # "find"
    BY <2>4
  <2> QED
    BY <2>2, <2>5, <2>6, FindsJoined
<1>8. CASE BeginFunction
  <2>1. PICK h \in Headers : ParseFunction(h.name, h.params, h.ret, h.ext)
    BY <1>8 DEF BeginFunction
  <2>2. CASE defered' = defered
    BY <2>2, FindsQuiet
  <2>3. CASE defered' = defered \o [i \in 1 .. Len(h.params) |-> CallType(NewId + i, h.params[i][2])]
    <3> DEFINE ds == [i \in 1 .. Len(h.params) |-> CallType(NewId + i, h.params[i][2])]
    <3>1. Len(h.params) \in Nat
      BY HeadersAssumption
    <3>2. PICK S : S = DeferedCall \cup {ds[i] : i \in 1 .. Len(h.params)}
      OBVIOUS
    <3>3. ds \in Seq(S) /\ defered \in Seq(S) /\ Len(ds) = Len(h.params)
      BY <1>1, <3>1, <3>2
    <3>4. \A i \in 1 .. Len(ds) : ds[i].what # "find"
      BY <3>3, CallForms
    <3> HIDE DEF ds
    <3>5. defered' = defered \o ds
      BY <2>3 DEF ds
    <3> QED
      BY <3>3, <3>4, <3>5, FindsJoined
  <2> QED
    BY <2>1, <2>2, <2>3 DEF ParseFunction, Throw, StopAs, Defer
<1> QED
  BY <1>2, <1>3, <1>4, <1>5, <1>6, <1>7, <1>8 DEF Parse

LEMMA ParseFinds ==
  ASSUME BuildInv, Parse, NEW h, NEW g, Follows(h, g), Len(h) = Len(trail) + 1,
         FindsFit(h, trail, defered)
  PROVE FindsFit(g, trail', defered')
<1>1. ASSUME NEW q, NEW m, Leaves(trail, q, m) PROVE Leaves(trail', q, m) /\ g[q] = h[q]
  <2>1. CASE g = h /\ trail' = trail
    BY <1>1, <2>1
  <2>2. CASE \E e, d : trail' = Append(trail, e) /\ GoesOn(h, e, d, g)
    <3>1. PICK e, d : GoesOn(h, e, d, g)
      BY <2>2
    <3>2. Longer(h, g, trail, trail', e, d)
      BY <3>1 DEF GoesOn
    <3> QED
      BY <1>1, <3>2, LongerLeaves, OldChains
  <2> QED
    BY <2>1, <2>2 DEF Follows
<1>2. ASSUME NEW i, NEW m, IsCall(defered, i, "find", m), defered'[i] = defered[i]
      PROVE \E q : Leaves(trail', q, m) /\ defered'[i].of = Head(g[q])
  <2>1. PICK q : Leaves(trail, q, m) /\ defered[i].of = Head(h[q])
    BY <1>2 DEF FindsFit
  <2> QED
    BY <1>1, <1>2, <2>1
<1>3. CASE FindsStay
  BY <1>2, <1>3 DEF FindsStay, FindsFit
<1>4. CASE ParseIdentifier
  <2>1. PICK x, e : x = CallWith("find", NewId, currentScope) /\ e = Step("leave", NewId)
    OBVIOUS
  <2>2. trail' = Append(trail, e) /\ defered' = defered \o << x >> /\ e.step = "leave" /\ e.node = NewId
    BY <1>4, <2>1 DEF ParseIdentifier, Defer, Return, LeaveAs, Step
  <2>3. PICK f, d : trail' = Append(trail, f) /\ GoesOn(h, f, d, g)
    BY <2>2, LongerNow DEF Follows, BuildInv
  <2>4. Longer(h, g, trail, trail', f, d) /\ Head(h[Len(h)]) = currentScope
    BY <2>3 DEF GoesOn
  <2>5. /\ Len(trail) \in Nat /\ g[Len(trail) + 1] = h[Len(trail) + 1]
        /\ trail'[Len(trail) + 1] = e /\ Len(trail') = Len(trail) + 1
    <3>1. /\ Len(trail) \in Nat /\ \A p \in 1 .. (Len(trail) + 1) : g[p] = h[p]
      BY <2>4, LongerTrail
    <3>2. Len(trail) + 1 \in 1 .. (Len(trail) + 1)
      BY <3>1
    <3>3. trail \in Seq(TrailStep) /\ e \in TrailStep
      <4>1. trail \in Seq(TrailStep) /\ trail' \in Seq(TrailStep)
        BY ParseBuild DEF BuildInv, TrailInv
      <4>2. f \in TrailStep /\ trail'[Len(trail) + 1] = f
        BY <2>4, LongerTrail DEF Longer
      <4>3. PICK S : S = TrailStep \cup {e}
        OBVIOUS
      <4>4. trail \in Seq(S) /\ e \in S
        BY <4>1, <4>3
      <4>5. trail'[Len(trail) + 1] = e
        BY <2>2, <4>4, Appended
      <4> QED
        BY <4>1, <4>2, <4>5
    <3> QED
      BY <2>2, <3>1, <3>2, <3>3, Appended
  <2>6. Leaves(trail', Len(trail) + 1, NewId) /\ Head(g[Len(trail) + 1]) = currentScope
    BY <2>2, <2>4, <2>5 DEF Leaves
  <2>7. defered \in Seq(DeferedCall) /\ Len(defered) \in Nat
    BY DEF BuildInv, CallsInv
  <2>8. /\ Len(defered') = Len(defered) + 1 /\ defered'[Len(defered) + 1] = x
        /\ \A i \in 1 .. Len(defered) : defered'[i] = defered[i]
    BY <2>2, <2>7, AppendedAny
  <2>9. ASSUME NEW i, NEW m, IsCall(defered', i, "find", m)
        PROVE \E q : Leaves(trail', q, m) /\ defered'[i].of = Head(g[q])
    <3>1. i \in 1 .. (Len(defered) + 1) /\ defered'[i].what = "find" /\ defered'[i].node = m
      BY <2>8, <2>9 DEF IsCall
    <3>2. CASE i = Len(defered) + 1
      <4>1. defered'[i].of = currentScope /\ m = NewId
        BY <2>1, <2>8, <3>1, <3>2, CallForms
      <4> QED
        BY <2>6, <4>1
    <3>3. CASE i # Len(defered) + 1
      <4>1. i \in 1 .. Len(defered)
        BY <2>7, <3>1, <3>3
      <4> QED
        BY <1>2, <2>8, <3>1, <4>1 DEF IsCall
    <3> QED
      BY <3>2, <3>3
  <2> QED
    BY <2>9 DEF FindsFit
<1> QED
  BY <1>3, <1>4, OtherFinds

-----------------------------------------------------------------------------
(* The steps of the generator.                                             *)

LEMMA LeftNext ==
  ASSUME NEW tr \in Seq(TrailStep), NEW p \in 1 .. Len(tr), NEW n
  PROVE LeftBefore(tr, p + 1, n) <=> LeftBefore(tr, p, n) \/ Leaves(tr, p, n)
<1>1. Len(tr) \in Nat /\ p \in Nat /\ (p + 1) - 1 = p /\ p \in 1 .. p
  OBVIOUS
<1>2. \A r : r \in 1 .. p <=> r \in 1 .. (p - 1) \/ r = p
  BY <1>1
<1> QED
  BY <1>1, <1>2 DEF LeftBefore

LEMMA SlotNext ==
  ASSUME NEW tr \in Seq(TrailStep), NEW p \in 1 .. Len(tr), NEW t,
         ~(tr[p].step = "leave" /\ t[tr[p].node].kind = "let")
  PROVE \A x, d : SlotFits(x, tr, t, p, d) => SlotFits(x, tr, t, p + 1, d)
<1>1. ASSUME NEW d PROVE Ready(tr, t, p + 1, d) <=> Ready(tr, t, p, d)
  BY LeftNext DEF Ready, Leaves
<1> QED
  BY <1>1 DEF SlotFits

(* A table for a body that is entered.                                     *)
BodySlots(x, t, f) ==
  \A n \in AllNames :
    x[n] = IF t[f].kind = "fn" /\ \E i \in 1 .. Len(t[f].kids) : t[t[f].kids[i]].name = n
           THEN Slot(CHOOSE k \in 1 .. Len(t) :
                       t[k].name = n /\ \E i \in 1 .. Len(t[f].kids) : t[f].kids[i] = k)
           ELSE Frame!NoSlot

LEMMA BodyFits ==
  ASSUME NEW h, NEW tr, NEW t, NEW T, Ground(h, tr, t, T), Bound(h, tr, t, T), NEW p, NEW f,
         Enters(tr, p, f), NEW x, BodySlots(x, t, f), NEW s, s = Head(h[p + 1]),
         NEW n \in AllNames
  PROVE SlotFits(x[n], tr, t, p + 1, Sym(T, s, n))
<1>1. PICK d : d = Sym(T, s, n)
  OBVIOUS
<1>2. /\ p \in 1 .. Len(tr) /\ tr \in Seq(TrailStep) /\ s \in 1 .. Len(T) /\ TablesFit(t, T)
      /\ t[f].kind = "fn" => \A i \in 1 .. Len(t[f].kids) :
           t[f].kids[i] \in 1 .. Len(t) /\ t[t[f].kids[i]].kind = "arg"
  <2>1. p \in 1 .. Len(tr) /\ tr \in Seq(TrailStep) /\ TablesFit(t, T)
    BY DEF Enters, Ground
  <2>2. /\ p + 1 \in 1 .. Len(h)
        /\ t[f].kind = "fn" => \A i \in 1 .. Len(t[f].kids) :
             t[f].kids[i] \in 1 .. Len(t) /\ t[t[f].kids[i]].kind = "arg"
    BY GroundSteps
  <2>3. s \in 1 .. Len(T)
    BY <2>2, GroundChains
  <2> QED
    BY <2>1, <2>2, <2>3
<1>3. CASE t[f].kind = "fn" /\ \E i \in 1 .. Len(t[f].kids) : t[t[f].kids[i]].name = n
  <2> DEFINE P(k) == t[k].name = n /\ \E i \in 1 .. Len(t[f].kids) : t[f].kids[i] = k
  <2>1. ASSUME NEW k, P(k) PROVE k = d /\ k \in 1 .. Len(t) /\ t[k].kind = "arg"
    <3>1. PICK i \in 1 .. Len(t[f].kids) : t[f].kids[i] = k
      BY <2>1
    <3>2. Sym(T, s, t[t[f].kids[i]].name) = t[f].kids[i]
      BY <1>3, <3>1 DEF Bound, ArgsPlaced
    <3> QED
      BY <1>1, <1>2, <1>3, <2>1, <3>1, <3>2
  <2>2. \E k \in 1 .. Len(t) : P(k)
    BY <1>2, <1>3
  <2> HIDE DEF P
  <2>3. P(CHOOSE k \in 1 .. Len(t) : P(k))
    BY <2>2
  <2>4. (CHOOSE k \in 1 .. Len(t) : P(k)) = d /\ d \in 1 .. Len(t) /\ t[d].kind = "arg"
    BY <2>1, <2>3
  <2> USE DEF P
  <2>5. x[n] = Slot(d)
    BY <1>3, <2>4 DEF BodySlots
  <2>6. d # 0
    BY <2>4
  <2> QED
    BY <1>1, <2>4, <2>5, <2>6 DEF SlotFits, Ready
<1>4. CASE ~(t[f].kind = "fn" /\ \E i \in 1 .. Len(t[f].kids) : t[t[f].kids[i]].name = n)
  <2>1. x[n] = Frame!NoSlot
    BY <1>4 DEF BodySlots
  <2>2. ASSUME d # 0, t[d].kind = "arg" PROVE FALSE
    <3>1. IsSym(T, s, n, d)
      BY <1>1, <1>2, <2>2 DEF IsSym
    <3>2. ArgOf(t, f, d)
      BY <2>2, <3>1 DEF Bound, ArgsFound
    <3>3. t[d].name = n
      BY <1>2, <3>1, SymNode
    <3> QED
      BY <1>4, <3>2, <3>3 DEF ArgOf
  <2>3. ASSUME d # 0, t[d].kind = "let", LeftBefore(tr, p + 1, d) PROVE FALSE
    <3>1. IsSym(T, s, n, d)
      BY <1>1, <1>2, <2>3 DEF IsSym
    <3>2. PICK q : Leaves(tr, q, d) /\ Head(h[q]) = s
      BY <2>3, <3>1 DEF Bound, LetsFound
    <3>3. PICK r \in 1 .. ((p + 1) - 1) : Leaves(tr, r, d)
      BY <2>3 DEF LeftBefore
    <3>4. r = q /\ q \in 1 .. p
      <4>1. r = q
        BY <3>2, <3>3 DEF Bound, LeftOnce
      <4>2. (p + 1) - 1 = p
        BY <1>2
      <4> QED
        BY <3>3, <4>1, <4>2
    <3>5. Head(h[q]) < Head(h[p + 1])
      BY <3>4 DEF Bound, Newest
    <3>6. s \in Nat
      BY <1>2
    <3> QED
      BY <3>2, <3>5, <3>6
  <2> QED
    BY <1>1, <2>1, <2>2, <2>3 DEF SlotFits, Ready
<1> QED
  BY <1>3, <1>4

LEMMA SlotsPushed ==
  ASSUME NEW h, NEW tr, NEW t, NEW T, Ground(h, tr, t, T), Bound(h, tr, t, T), NEW p, NEW f,
         Enters(tr, p, f), NEW S, NEW a \in Seq(S), NEW x \in S, NEW b, b = << x >> \o a,
         NEW c, NEW d, NEW s \in Nat, c = h[p], d = h[p + 1], s = Head(d), d = << s >> \o c,
         BodySlots(x, t, f), SlotsFit(a, c, tr, t, T, p)
  PROVE SlotsFit(b, d, tr, t, T, p + 1)
<1>1. p \in 1 .. Len(tr) /\ tr \in Seq(TrailStep) /\ tr[p].step = "enter" /\ c \in Seq(Nat)
  BY GroundSteps, GroundChains DEF Ground, Enters, Chain
<1>2. Len(c) \in Nat /\ Len(a) = Len(c)
  BY <1>1 DEF SlotsFit
<1>3. Len(d) = Len(c) + 1 /\ d[1] = s /\ \A i \in 2 .. (Len(c) + 1) : d[i] = c[i - 1]
  BY <1>1, Pushed
<1>4. Len(b) = Len(a) + 1 /\ b[1] = x /\ \A i \in 2 .. (Len(a) + 1) : b[i] = a[i - 1]
  BY Pushed
<1>5. ASSUME NEW i \in 1 .. Len(d), NEW n \in AllNames
      PROVE SlotFits(b[i][n], tr, t, p + 1, Sym(T, d[i], n))
  <2>1. CASE i = 1
    BY <1>3, <1>4, <2>1, BodyFits
  <2>2. CASE i # 1
    <3>1. PICK j : j = i - 1
      OBVIOUS
    <3>2. j \in 1 .. Len(c) /\ d[i] = c[j] /\ b[i] = a[j]
      BY <1>2, <1>3, <1>4, <2>2, <3>1
    <3>3. SlotFits(a[j][n], tr, t, p, Sym(T, c[j], n))
      BY <3>2 DEF SlotsFit
    <3> QED
      BY <1>1, <3>2, <3>3, SlotNext
  <2> QED
    BY <2>1, <2>2
<1> QED
  BY <1>2, <1>3, <1>4, <1>5 DEF SlotsFit

LEMMA SlotsKept ==
  ASSUME NEW h, NEW tr, NEW t, NEW T, Ground(h, tr, t, T), NEW p \in 1 .. Len(tr),
         ~(tr[p].step = "leave" /\ t[tr[p].node].kind = "let"), NEW S, NEW a \in Seq(S),
         NEW c, Chain(c, T), SlotsFit(a, c, tr, t, T, p)
  PROVE SlotsFit(a, c, tr, t, T, p + 1) /\ SlotsFit(Tail(a), Tail(c), tr, t, T, p + 1)
<1>1. tr \in Seq(TrailStep) /\ c \in Seq(Nat) /\ c # << >> /\ Len(c) \in Nat /\ Len(a) = Len(c)
  BY DEF Ground, Chain, SlotsFit
<1>2. ASSUME NEW i \in 1 .. Len(c), NEW n \in AllNames
      PROVE SlotFits(a[i][n], tr, t, p + 1, Sym(T, c[i], n))
  <2>1. SlotFits(a[i][n], tr, t, p, Sym(T, c[i], n))
    BY DEF SlotsFit
  <2> QED
    BY <1>1, <2>1, SlotNext
<1>3. a # << >>
  BY <1>1
<1>4. /\ Len(Tail(c)) = Len(c) - 1 /\ \A i \in 1 .. Len(Tail(c)) : Tail(c)[i] = c[i + 1]
      /\ Len(Tail(a)) = Len(a) - 1 /\ \A i \in 1 .. Len(Tail(a)) : Tail(a)[i] = a[i + 1]
  BY <1>1, <1>3, Tailed
<1>5. ASSUME NEW i \in 1 .. Len(Tail(c)), NEW n \in AllNames
      PROVE SlotFits(Tail(a)[i][n], tr, t, p + 1, Sym(T, Tail(c)[i], n))
  <2>1. i + 1 \in 1 .. Len(c)
    BY <1>1, <1>4
  <2> QED
    BY <1>1, <1>2, <1>4, <2>1
<1> QED
  BY <1>1, <1>2, <1>4, <1>5 DEF SlotsFit

(* The generator is done with a variable: from now on it has a slot.       *)
LEMMA SlotsAdded ==
  ASSUME NEW h, NEW tr, NEW t, NEW T, Ground(h, tr, t, T), Bound(h, tr, t, T), NEW p, NEW m,
         Leaves(tr, p, m), t[m].kind = "let", NEW n, n = t[m].name, NEW c, c = h[p],
         NEW a, NEW b, SlotsFit(a, c, tr, t, T, p), Len(b) = Len(a),
         \A i \in 1 .. Len(a) : \A k \in AllNames :
           b[i][k] = IF i = 1 /\ k = n THEN Slot(m) ELSE a[i][k]
  PROVE SlotsFit(b, c, tr, t, T, p + 1)
<1>1. /\ p \in 1 .. Len(tr) /\ tr \in Seq(TrailStep) /\ Chain(c, T) /\ TablesFit(t, T)
      /\ n \in AllNames /\ Len(a) = Len(c)
  BY GroundSteps, GroundChains DEF Ground, Leaves, SlotsFit
<1>2. Len(c) \in Nat /\ 1 \in 1 .. Len(c) /\ Head(c) = c[1]
  BY <1>1, ChainHead DEF Chain
<1>3. Sym(T, c[1], n) = m /\ m \in 1 .. Len(t) /\ m # 0
  <2>1. m \in 1 .. Len(t) /\ Sym(T, Head(h[p]), t[m].name) = m
    BY GroundSteps DEF Bound, LetsPlaced
  <2> QED
    BY <1>2, <2>1
<1>4. ASSUME NEW i \in 1 .. Len(c), NEW k \in AllNames, Sym(T, c[i], k) = m PROVE i = 1 /\ k = n
  <2>1. IsSym(T, c[i], k, m)
    BY <1>1, <1>3, <1>4 DEF IsSym, Chain
  <2>2. PICK q : Leaves(tr, q, m) /\ Head(h[q]) = c[i]
    BY <2>1 DEF Bound, LetsFound
  <2>3. q = p
    BY <2>2 DEF Bound, LeftOnce
  <2>4. c[i] = c[1]
    BY <1>2, <2>2, <2>3
  <2>5. ASSUME i # 1 PROVE FALSE
    <3>1. 1 < i
      BY <2>5
    <3>2. c[i] < c[1]
      BY <1>1, <1>2, <3>1, ChainDescends
    <3>3. c[1] \in Nat
      BY <1>1, <1>2 DEF Chain
    <3> QED
      BY <2>4, <3>2, <3>3
  <2>6. t[m].name = k
    BY <1>1, <2>1, SymNode
  <2> QED
    BY <2>5, <2>6
<1>5. ASSUME NEW i \in 1 .. Len(c), NEW k \in AllNames
      PROVE SlotFits(b[i][k], tr, t, p + 1, Sym(T, c[i], k))
  <2>1. CASE i = 1 /\ k = n
    <3>1. LeftBefore(tr, p + 1, m)
      BY <1>1, LeftNext
    <3>2. Ready(tr, t, p + 1, m)
      BY <1>3, <3>1 DEF Ready
    <3> QED
      BY <1>1, <1>3, <2>1, <3>2 DEF SlotFits
  <2>2. CASE ~(i = 1 /\ k = n)
    <3>1. PICK d : d = Sym(T, c[i], k)
      OBVIOUS
    <3>2. d # m /\ b[i][k] = a[i][k] /\ SlotFits(a[i][k], tr, t, p, d)
      BY <1>1, <1>4, <2>2, <3>1 DEF SlotsFit
    <3>3. Ready(tr, t, p + 1, d) <=> Ready(tr, t, p, d)
      BY <1>1, <3>2, LeftNext DEF Ready, Leaves
    <3> QED
      BY <3>1, <3>2, <3>3 DEF SlotFits
  <2> QED
    BY <2>1, <2>2
<1> QED
  BY <1>1, <1>5 DEF SlotsFit

LEMMA PushBinds ==
  ASSUME BuildInv, PushAddrTable, NEW S, addrTables \in Seq(S), NEW h \in Seq(Seq(Nat)),
         History(h, trail, ast, tables), Bound(h, trail, ast, tables), NEW p, p = position + 1,
         Goes(h[p], Visited, ast, h[p + 1]), Chain(h[p + 1], tables),
         SlotsFit(addrTables, h[p], trail, ast, tables, p), p \in 1 .. Len(trail)
  PROVE SlotsFit(addrTables', h[p + 1], trail, ast, tables, p + 1)
<1>1. PICK f : f = Visited.node
  OBVIOUS
<1>2. Enters(trail, p, f) /\ Opens(Visited)
  BY <1>1 DEF PushAddrTable, Generates, Visited, Enters, Opens
<1>3. PICK x : x = [n \in AllNames |->
                      IF Subject.kind = "fn" /\ \E i \in 1 .. Len(Subject.kids) : ast[Kid(i)].name = n
                      THEN Slot(CHOOSE k \in 1 .. Len(ast) :
                                  ast[k].name = n /\ \E i \in 1 .. Len(Subject.kids) : Kid(i) = k)
                      ELSE Frame!NoSlot]
  OBVIOUS
<1>4. addrTables' = << x >> \o addrTables
  BY <1>3 DEF PushAddrTable
<1>5. BodySlots(x, ast, f)
  BY <1>1, <1>3 DEF BodySlots, Subject, Kid
<1>6. PICK c, d : c = h[p] /\ d = h[p + 1]
  OBVIOUS
<1>7. PICK s : s = Head(d)
  OBVIOUS
<1>8. s \in Nat /\ d = << s >> \o c
  BY <1>2, <1>6, <1>7, ChainHead DEF Goes
<1>9. PICK R : R = S \cup {x}
  OBVIOUS
<1>10. addrTables \in Seq(R) /\ x \in R
  BY <1>9
<1>11. Ground(h, trail, ast, tables)
  BY GroundHolds
<1>12. \A b : b = addrTables' => SlotsFit(b, d, trail, ast, tables, p + 1)
  BY <1>2, <1>4, <1>5, <1>6, <1>7, <1>8, <1>10, <1>11, SlotsPushed
<1> QED
  BY <1>6, <1>12

LEMMA AddBinds ==
  ASSUME BuildInv, AddAddrEntry, NEW S, addrTables \in Seq([AllNames -> S]),
         ~Frame!Resolves(addrTables, Subject.name), NEW h \in Seq(Seq(Nat)),
         History(h, trail, ast, tables), Bound(h, trail, ast, tables), NEW p, p = position + 1,
         SlotsFit(addrTables, h[p], trail, ast, tables, p), p \in 1 .. Len(trail),
         Chain(h[p], tables)
  PROVE SlotsFit(addrTables', h[p], trail, ast, tables, p + 1)
<1>1. PICK m : m = Visited.node
  OBVIOUS
<1>2. Leaves(trail, p, m) /\ ast[m].kind = "let" /\ Subject.name = ast[m].name
  BY <1>1 DEF AddAddrEntry, Generates, Visited, Subject, Leaves
<1>3. PICK c, a, b, n : c = h[p] /\ a = addrTables /\ b = addrTables' /\ n = ast[m].name
  OBVIOUS
<1>4. Len(c) \in Nat \ {0} /\ Len(a) = Len(c) /\ a \in Seq([AllNames -> S])
  BY <1>3, ChainHead DEF SlotsFit
<1>5. Ground(h, trail, ast, tables)
  BY GroundHolds
<1>6. n \in AllNames
  BY <1>2, <1>3, <1>5, GroundSteps
<1>7. 1 \in 1 .. Len(a) /\ a[1] \in [AllNames -> S] /\ a[1][n] = Frame!NoSlot
  <2>1. 1 \in 1 .. Len(a)
    BY <1>4
  <2> QED
    BY <1>2, <1>3, <1>4, <2>1 DEF Frame!Resolves, Frame!Declares
<1>8. PICK slot : slot = Slot(m)
  OBVIOUS
<1>9. PICK x : x = [a[1] EXCEPT ![n] = slot]
  OBVIOUS
<1>10. b = [a EXCEPT ![1] = x]
  BY <1>1, <1>2, <1>3, <1>7, <1>8, <1>9 DEF AddAddrEntry, Frame!WithEntry
<1>11. \A k \in AllNames : x[k] = IF k = n THEN slot ELSE a[1][k]
  BY <1>6, <1>7, <1>9
<1>12. PICK R : R = [AllNames -> S] \cup {x}
  OBVIOUS
<1>13. a \in Seq(R) /\ x \in R
  BY <1>4, <1>12
<1>14. Len(b) = Len(a) /\ b[1] = x /\ \A i \in 1 .. Len(a) : i # 1 => b[i] = a[i]
  BY <1>7, <1>10, <1>13, Replaced
<1>15. \A i \in 1 .. Len(a) : \A k \in AllNames :
         b[i][k] = IF i = 1 /\ k = n THEN Slot(m) ELSE a[i][k]
  BY <1>8, <1>11, <1>14
<1>16. SlotsFit(a, c, trail, ast, tables, p)
  BY <1>3
<1>17. SlotsFit(b, c, trail, ast, tables, p + 1)
  BY <1>2, <1>3, <1>5, <1>14, <1>15, <1>16, SlotsAdded
<1> QED
  BY <1>3, <1>17

LEMMA OtherBinds ==
  ASSUME BuildInv, Generate, phase' = "generating", ~PushAddrTable, ~AddAddrEntry,
         NEW S, addrTables \in Seq(S), NEW h \in Seq(Seq(Nat)), History(h, trail, ast, tables),
         NEW p, p = position + 1, p \in 1 .. Len(trail), Chain(h[p], tables),
         Goes(h[p], Visited, ast, h[p + 1]), SlotsFit(addrTables, h[p], trail, ast, tables, p)
  PROVE SlotsFit(addrTables', h[p + 1], trail, ast, tables, p + 1)
<1>1. PICK c, a : c = h[p] /\ a = addrTables
  OBVIOUS
<1>2. ~(trail[p].step = "leave" /\ ast[trail[p].node].kind = "let") /\ Visited = trail[p]
  BY DEF Generate, PopAddrTable, FindAddrEntry, GenerateOther, EndGenerate, Generates, Visited,
     Subject
<1>3. SlotsFit(a, c, trail, ast, tables, p + 1) /\ SlotsFit(Tail(a), Tail(c), trail, ast, tables, p + 1)
  <2>1. Ground(h, trail, ast, tables) /\ Chain(c, tables) /\ a \in Seq(S)
        /\ SlotsFit(a, c, trail, ast, tables, p)
    BY <1>1, GroundHolds
  <2> QED
    BY <1>2, <2>1, SlotsKept
<1>4. CASE PopAddrTable
  <2>1. Closes(Visited, ast) /\ addrTables' = Tail(a)
    BY <1>1, <1>4 DEF PopAddrTable, Generates, Closes, Subject, BodyKinds
  <2>2. h[p + 1] = Tail(c)
    BY <1>1, <2>1 DEF Goes
  <2> QED
    BY <1>3, <2>1, <2>2
<1>5. CASE ~PopAddrTable
  <2>1. ~Opens(Visited) /\ ~Closes(Visited, ast) /\ addrTables' = a
    BY <1>1, <1>5 DEF Generate, FindAddrEntry, GenerateOther, EndGenerate,
       Generates, Opens, Closes, Subject, BodyKinds
  <2>2. h[p + 1] = c
    BY <1>1, <2>1 DEF Goes
  <2> QED
    BY <1>3, <2>1, <2>2
<1> QED
  BY <1>4, <1>5

-----------------------------------------------------------------------------
(* The invariant.                                                          *)

LEMMA ParseBinds ==
  ASSUME BuildInv, BindingInv, Parse, addrTables' = addrTables PROVE BindingInv'
<1>1. PICK h \in Seq(Seq(Nat)) :
        /\ History(h, trail, ast, tables) /\ Open(h) /\ Bound(h, trail, ast, tables)
        /\ FindsFit(h, trail, defered)
        /\ phase \in {"parsing", "resolving", "checking"} =>
             addrTables = << Frame!EmptyScope(AllNames) >>
  BY DEF BindingInv
<1>2. PICK g : Follows(h, g)
  BY <1>1, ParseFollows
<1>3. FindsFit(g, trail', defered')
  BY <1>1, <1>2, ParseFinds DEF History
<1>4. phase = "parsing" /\ phase' \in {"parsing", "resolving", "threw"}
  BY ParsesWhen
<1>5. addrTables' = << Frame!EmptyScope(AllNames) >>
  BY <1>1, <1>4
<1> QED
  BY <1>2, <1>3, <1>4, <1>5 DEF BindingInv, Follows

(* After the parse neither the trail nor the scopes change.                *)
Stays(h) ==
  /\ History(h, trail', ast', tables') /\ Open(h)' /\ Bound(h, trail', ast', tables')
  /\ FindsFit(h, trail', defered')

LEMMA LaterStays ==
  ASSUME BuildInv, Later, NEW h \in Seq(Seq(Nat)), History(h, trail, ast, tables), Open(h),
         Bound(h, trail, ast, tables), FindsFit(h, trail, defered)
  PROVE Stays(h)
<1>1. /\ Extends(ast, ast') /\ trail' = trail /\ tables' = tables /\ defered' = defered
      /\ \A m \in 1 .. Len(ast) : ast'[m].kids = ast[m].kids
  BY DEF Later, SyntaxKept
<1>2. SameScopes(tables, tables) /\ TrailInv
  BY DEF BuildInv, TablesInv, TablesFit, SameScopes
<1>3. History(h, trail, ast', tables)
  BY <1>1, <1>2, TrailNodes, HistoryKept
<1>4. Open(h)'
  BY DEF Later, Open
<1>5. SameKids(ast, ast')
  BY <1>1 DEF SameKids
<1>6. Bound(h, trail, ast', tables)
  BY <1>1, <1>5, GroundHolds, BoundSame
<1> QED
  BY <1>1, <1>3, <1>4, <1>6 DEF Stays

LEMMA ResolveBinds ==
  ASSUME BuildInv, PhaseInv, ResolvedInv, BindingInv, Resolve, addrTables' = addrTables
  PROVE BindingInv'
<1>1. PICK h \in Seq(Seq(Nat)) :
        /\ History(h, trail, ast, tables) /\ Open(h) /\ Bound(h, trail, ast, tables)
        /\ FindsFit(h, trail, defered)
        /\ phase \in {"parsing", "resolving", "checking"} =>
             addrTables = << Frame!EmptyScope(AllNames) >>
  BY DEF BindingInv
<1>2. Later /\ phase = "resolving" /\ phase' \in {"threw", "undefined", "resolving", "checking"}
  BY ResolveLater, ResolveSteps
<1>3. Stays(h)
  BY <1>1, <1>2, LaterStays
<1>4. addrTables' = << Frame!EmptyScope(AllNames) >>
  BY <1>1, <1>2
<1> QED
  BY <1>2, <1>3, <1>4 DEF BindingInv, Stays

LEMMA CheckBinds ==
  ASSUME BuildInv, PhaseInv, ResolvedInv, BindingInv, Check PROVE BindingInv'
<1>1. PICK h \in Seq(Seq(Nat)) :
        /\ History(h, trail, ast, tables) /\ Open(h) /\ Bound(h, trail, ast, tables)
        /\ FindsFit(h, trail, defered)
        /\ phase \in {"parsing", "resolving", "checking"} =>
             addrTables = << Frame!EmptyScope(AllNames) >>
  BY DEF BindingInv
<1>2. Later /\ phase = "checking" /\ phase' \in {"checking", "generating", "threw", "undefined"}
  BY CheckLater
<1>3. addrTables' = addrTables /\ (phase' = "generating" => position' = 0)
  BY CheckVisits, CheckSteps
<1>4. Stays(h)
  BY <1>1, <1>2, LaterStays
<1>5. addrTables' = << Frame!EmptyScope(AllNames) >>
  BY <1>1, <1>2, <1>3
<1>6. PICK a, c : a = addrTables' /\ c = << 1 >>
  OBVIOUS
<1>7. Len(a) = 1 /\ Len(c) = 1 /\ c[1] = 1 /\ \A n \in AllNames : a[1][n] = Frame!NoSlot
  BY <1>5, <1>6 DEF Frame!EmptyScope
<1>8. ASSUME NEW n \in AllNames
      PROVE SlotFits(a[1][n], trail', ast', 1, Sym(tables', 1, n))
  <2>1. PICK d : d = Sym(tables', 1, n)
    OBVIOUS
  <2>2. 1 \in 1 .. Len(tables')
    <3>1. TablesFit(ast, tables) /\ tables' = tables
      BY <1>2 DEF BuildInv, TablesInv, Later
    <3> QED
      BY <3>1 DEF TablesFit
  <2>3. d # 0 => ast'[d].kind = "fn"
    BY <1>4, <2>1, <2>2 DEF Stays, Bound, Outermost, IsSym
  <2>4. ~Ready(trail', ast', 1, d)
    BY <2>3 DEF Ready
  <2> QED
    BY <1>7, <2>1, <2>4 DEF SlotFits
<1>9. SlotsFit(a, c, trail', ast', tables', 1)
  BY <1>7, <1>8 DEF SlotsFit
<1>10. h[1] = c
  BY <1>1, <1>6 DEF History
<1>11. phase' = "generating" =>
         SlotsFit(addrTables', h[position' + 1], trail', ast', tables', position' + 1)
  <2>1. PICK q : q = position' + 1
    OBVIOUS
  <2>2. phase' = "generating" => q = 1
    BY <1>3, <2>1
  <2> QED
    BY <1>6, <1>9, <1>10, <2>1, <2>2
<1> QED
  BY <1>2, <1>4, <1>5, <1>11 DEF BindingInv, Stays

LEMMA GenerateBinds == ASSUME FrontInv, BindingInv, Generate PROVE BindingInv'
<1>1. PICK h \in Seq(Seq(Nat)) :
        /\ History(h, trail, ast, tables) /\ Open(h) /\ Bound(h, trail, ast, tables)
        /\ FindsFit(h, trail, defered)
        /\ phase = "generating" =>
             SlotsFit(addrTables, h[position + 1], trail, ast, tables, position + 1)
  BY DEF BindingInv
<1>2. BuildInv /\ PhaseInv /\ TrailInv /\ HistoryInv
  BY DEF FrontInv, BuildInv
<1>3. /\ Later /\ phase = "generating" /\ ast' = ast /\ trail' = trail /\ tables' = tables
      /\ \/ phase' \in {"done", "aborted"}
         \/ phase' = "generating" /\ position < Len(trail) /\ position' = position + 1
  BY <1>2, GenerateLater, GenerateSteps DEF treeVars, scopeVars
<1>4. Stays(h)
  BY <1>1, <1>2, <1>3, LaterStays
<1>5. CASE phase' \in {"done", "aborted"}
  BY <1>4, <1>5 DEF BindingInv, Stays
<1>6. CASE phase' = "generating" /\ position < Len(trail) /\ position' = position + 1
  <2>1. PICK p : p = position + 1
    OBVIOUS
  <2>2. /\ p \in 1 .. Len(trail) /\ Chain(h[p + 1], tables) /\ Chain(h[p], tables)
        /\ Goes(h[p], Visited, ast, h[p + 1])
    BY <1>1, <1>2, <1>3, <1>6, <2>1, VisitGoes
  <2>3. SlotsFit(addrTables, h[p], trail, ast, tables, p)
    BY <1>1, <1>3, <2>1
  <2>4. addrTables \in Seq([AllNames -> Entries])
    BY <1>2 DEF HistoryInv, AddrFits
  <2>5. SlotsFit(addrTables', h[p + 1], trail, ast, tables, p + 1)
    <3>1. CASE PushAddrTable
      BY <1>1, <1>2, <2>1, <2>2, <2>3, <2>4, <3>1, PushBinds
    <3>2. CASE AddAddrEntry
      <4>1. Generates("leave", {"let"}) /\ ~Opens(Visited) /\ ~Closes(Visited, ast)
        BY <3>2 DEF AddAddrEntry, Generates, Opens, Closes, Subject, BodyKinds
      <4>2. ~Frame!Resolves(addrTables, Subject.name)
        BY <1>3, <1>6, <4>1, AgreeSafe DEF BindingsAgree
      <4>3. h[p + 1] = h[p]
        BY <2>2, <4>1 DEF Goes
      <4>4. SlotsFit(addrTables', h[p], trail, ast, tables, p + 1)
        BY <1>1, <1>2, <2>1, <2>2, <2>3, <2>4, <3>2, <4>2, AddBinds
      <4> QED
        BY <4>3, <4>4
    <3>3. CASE ~PushAddrTable /\ ~AddAddrEntry
      BY <1>1, <1>2, <1>6, <2>1, <2>2, <2>3, <2>4, <3>3, OtherBinds
    <3> QED
      BY <3>1, <3>2, <3>3
  <2>6. SlotsFit(addrTables', h[position' + 1], trail', ast', tables', position' + 1)
    BY <1>3, <1>6, <2>1, <2>5
  <2> QED
    BY <1>4, <1>6, <2>6 DEF BindingInv, Stays
<1> QED
  BY <1>3, <1>5, <1>6

LEMMA BindingStep == ASSUME FrontInv, BindingInv, [FrontNext]_vars PROVE BindingInv'
<1>1. BuildInv /\ PhaseInv /\ ResolvedInv
  BY DEF FrontInv
<1>2. CASE Parse /\ UNCHANGED << errors, addrTables >>
  BY <1>1, <1>2, ParseBinds
<1>3. CASE Resolve /\ UNCHANGED << errors, addrTables >>
  BY <1>1, <1>3, ResolveBinds
<1>4. CASE UNCHANGED vars
  <2>1. UNCHANGED << phase, ast, trail, tables, currentScope, addrTables, position, defered >>
    BY <1>4 DEF vars, parserState
  <2> QED
    BY <2>1 DEF BindingInv, Open
<1> QED
  BY <1>1, <1>2, <1>3, <1>4, CheckBinds, GenerateBinds, StepCases

LEMMA BindingInit == FrontInit => BindingInv
<1> SUFFICES ASSUME FrontInit PROVE BindingInv
  OBVIOUS
<1>1. /\ phase = "parsing" /\ trail = << >> /\ tables = << EmptyTable(0, AllNames) >>
      /\ currentScope = 1 /\ addrTables = << Frame!EmptyScope(AllNames) >> /\ defered = << >>
  BY DEF FrontInit, Init
<1>2. PICK c : c = << 1 >>
  OBVIOUS
<1>3. c \in Seq(Nat) /\ c # << >> /\ Len(c) = 1 /\ c[1] = 1 /\ Head(c) = 1
  BY <1>2
<1>4. Chain(c, tables)
  BY <1>1, <1>3 DEF Chain
<1>5. PICK h : h = << c >>
  OBVIOUS
<1>6. h \in Seq(Seq(Nat)) /\ Len(h) = 1 /\ h[1] = c
  BY <1>3, <1>5
<1>7. History(h, trail, ast, tables) /\ Open(h)
  BY <1>1, <1>2, <1>3, <1>4, <1>6 DEF History, Open
<1>8. \A p, n : ~Leaves(trail, p, n) /\ ~Enters(trail, p, n)
  BY <1>1 DEF Leaves, Enters
<1>9. \A s, n, d : ~IsSym(tables, s, n, d)
  <2>1. Len(tables) = 1 /\ \A n \in AllNames : tables[1].symbols[n] = 0
    BY <1>1 DEF EmptyTable
  <2> QED
    BY <2>1 DEF IsSym, Sym
<1>10. Bound(h, trail, ast, tables)
  BY <1>8, <1>9 DEF Bound, LeftOnce, LetsPlaced, LetsFound, ArgsPlaced, ArgsFound, Outermost,
     Newest, Shadow
<1>11. FindsFit(h, trail, defered)
  BY <1>1 DEF FindsFit, IsCall
<1> QED
  BY <1>1, <1>6, <1>7, <1>10, <1>11 DEF BindingInv

(* The parser looks a name up in its scopes as they are at the end of the  *)
(* file, the generator in its address tables as they are where it walks    *)
(* through the code.  However declarations are nested, hidden, put after   *)
(* their uses or repeated: what the generator finds is the declaration     *)
(* that the parser has bound the name to, and whenever it is done with a   *)
(* variable no table has that name, so that no entry is ever dropped.      *)
THEOREM BindingsSafe == FrontSpec => []BindingsAgree
<1>1. FrontInit => FrontInv /\ BindingInv
  <2>1. FrontInit => FrontInv
    <3>1. FrontInit => CheckedInv /\ phase \in Phases
      BY DEF FrontInit, Init, CheckedInv, Phases
    <3> QED
      BY <3>1, BuildInit, HistoryInit DEF FrontInv
  <2> QED
    BY <2>1, BindingInit
<1>2. BindingInv /\ FrontInv /\ [FrontNext]_vars => BindingInv'
  BY BindingStep
<1>3. FrontInv /\ BindingInv => BindingsAgree
  BY AgreeSafe
<1> QED
  BY <1>1, <1>2, <1>3, FrontSafe, PTL DEF FrontSpec

-----------------------------------------------------------------------------
(* The types of expressions.  A node has the type it was made with, or a   *)
(* call that was put off sets it.  The call comes before every call that   *)
(* reads the type, unless a name is used prematurely.                      *)

SetsType(ds, j, n) == j \in 1 .. Len(ds) /\ ds[j].node = n /\ ds[j].what # "callee"

(* The type of n is known once the first k calls have been run.            *)
TypedBy(ds, ty, k, n) == ty[n] # "null" \/ \E j \in 1 .. k : SetsType(ds, j, n)

Awaiting == {"call", "right", "assign", "inferred"}
Awaited(a, n) == \E w \in Awaiting : HeldAs(a, w, n)

(* A type without such a call is awaited by a parser.                      *)
ValuesTyped(a, ds, ty, t) ==
  \A n \in 1 .. Len(t) :
    t[n].kind \in ValueKinds => Awaited(a, n) \/ TypedBy(ds, ty, Len(ds), n)
ExplicitTyped(a, ds, ty) == \A n : HeldAs(a, "explicit", n) => TypedBy(ds, ty, Len(ds), n)

(* What the calls read.                                                    *)
LiteralsRead(ds, ty) ==
  \A i \in 1 .. Len(ds) : ds[i].what = "literal" => TypedBy(ds, ty, i - 1, ds[i].of)
OperandsRead(ds, ty, t) ==
  \A i \in 1 .. Len(ds) :
    ds[i].what \in {"binary", "assign", "let"} => TypedBy(ds, ty, i - 1, t[ds[i].node].kids[1])
LetsRead(ds, ty, t, tr) ==
  \A i, m, q, d :
    /\ IsCall(ds, i, "find", m) /\ Leaves(tr, q, m)
    /\ d \in 1 .. Len(t) /\ t[d].kind = "let" /\ LeftBefore(tr, q, d)
    => TypedBy(ds, ty, i - 1, d)
ArgsRead(ds, ty, t, T) ==
  \A i, m, s, n, d :
    IsCall(ds, i, "find", m) /\ s <= ds[i].of /\ IsSym(T, s, n, d) /\ t[d].kind = "arg" =>
      TypedBy(ds, ty, i - 1, d)

Ordered ==
  /\ ValuesTyped(agenda, defered, types, ast) /\ ExplicitTyped(agenda, defered, types)
  /\ LiteralsRead(defered, types) /\ OperandsRead(defered, types, ast)
  /\ LetsRead(defered, types, ast, trail) /\ ArgsRead(defered, types, ast, tables)

OrderInv == phase = "parsing" \/ (phase = "resolving" /\ ~SomePremature) => Ordered

RunTyped ==
  \A j \in 1 .. position : defered[j].what # "callee" => types[defered[j].node] # "null"
AllTyped == \A n \in 1 .. Len(ast) : ast[n].kind \in ValueKinds => types[n] # "null"

TypedInv ==
  /\ phase = "resolving" /\ ~SomePremature => RunTyped
  /\ Resolved /\ ~SomePremature => AllTyped
  /\ phase \in {"undefined", "aborted"} => SomePremature

(* The theorem's property follows.                                         *)
LEMMA TypedSafe == ASSUME FrontInv, TypedInv PROVE TypesResolved
<1>1. phase \in Phases
  BY DEF FrontInv
<1> QED
  BY <1>1 DEF TypedInv, TypesResolved, Parsed, Phases, Stopped, Resolved, AllTyped

(* Queueing calls at the end loses nothing.                                *)
LEMMA TypedLater ==
  ASSUME NEW cs \in Seq(DeferedCall), NEW ds \in Seq(DeferedCall), NEW es, es = cs \o ds,
         NEW ty, NEW tz, NEW n, tz[n] = ty[n],
         NEW k \in Int, NEW l \in Int, k <= l, TypedBy(cs, ty, k, n)
  PROVE TypedBy(es, tz, l, n)
<1>1. CASE ty[n] # "null"
  BY <1>1 DEF TypedBy
<1>2. CASE \E j \in 1 .. k : SetsType(cs, j, n)
  <2>1. PICK j \in 1 .. k : SetsType(cs, j, n)
    BY <1>2
  <2>2. j \in 1 .. l
    OBVIOUS
  <2>3. j \in 1 .. Len(es) /\ es[j] = cs[j]
    BY <2>1 DEF SetsType
  <2>4. SetsType(es, j, n)
    BY <2>1, <2>3 DEF SetsType
  <2> QED
    BY <2>2, <2>4 DEF TypedBy
<1> QED
  BY <1>1, <1>2 DEF TypedBy

LEMMA TypedNow ==
  ASSUME NEW cs \in Seq(DeferedCall), NEW ds \in Seq(DeferedCall), NEW es, es = cs \o ds,
         NEW tz, NEW n, NEW i \in 1 .. Len(ds), SetsType(ds, i, n)
  PROVE TypedBy(es, tz, Len(es), n)
<1>1. Len(es) = Len(cs) + Len(ds) /\ Len(cs) \in Nat /\ Len(ds) \in Nat
  OBVIOUS
<1>2. Len(cs) + i \in 1 .. Len(es)
  BY <1>1
<1>3. es[Len(cs) + i] = ds[i]
  BY <1>1
<1>4. SetsType(es, Len(cs) + i, n)
  BY <1>2, <1>3 DEF SetsType
<1> QED
  BY <1>2, <1>4 DEF TypedBy

-----------------------------------------------------------------------------
(* What an action of the parser does to the types and the queue.           *)

TypesStay == \A n \in 1 .. Len(ast) : ast[n].kind # "ret" => types'[n] = types[n]

LEMMA AddedStay ==
  ASSUME NodesInv, ast \in Seq(TreeNode), NEW x, NEW t \in NodeTypes, NEW b,
         AddNodes(<< x >>, << t >>, b)
  PROVE TypesStay /\ types'[Len(ast) + 1] = t
<1>1. types \in Seq(NodeTypes) /\ Len(types) = Len(ast)
  BY DEF NodesInv
<1>2. types' = types \o << t >>
  BY DEF AddNodes
<1>3. PICK ts : ts = types \o << t >>
  OBVIOUS
<1>4. ts[Len(types) + 1] = t /\ \A i \in 1 .. Len(types) : ts[i] = types[i]
  BY <1>1, <1>3
<1> QED
  BY <1>1, <1>2, <1>3, <1>4 DEF TypesStay

Joins(ds) ==
  ds \in Seq(DeferedCall) /\ defered \in Seq(DeferedCall) /\ defered' = defered \o ds /\ TypesStay

LEMMA JoinsTyped ==
  ASSUME NEW ds, Joins(ds), NEW n \in 1 .. Len(ast), ast[n].kind # "ret",
         NEW k \in Int, NEW l \in Int, k <= l, TypedBy(defered, types, k, n)
  PROVE TypedBy(defered', types', l, n)
<1>1. types'[n] = types[n]
  BY DEF Joins, TypesStay
<1> QED
  BY <1>1, TypedLater DEF Joins

LEMMA JoinsSet ==
  ASSUME NEW ds, Joins(ds), NEW n, \E i : SetsType(ds, i, n)
  PROVE TypedBy(defered', types', Len(defered'), n)
<1>1. PICK i : SetsType(ds, i, n)
  OBVIOUS
<1>2. i \in 1 .. Len(ds)
  BY <1>1 DEF SetsType
<1> QED
  BY <1>1, <1>2, TypedNow DEF Joins

LEMMA JoinsAt ==
  ASSUME NEW ds, Joins(ds), NEW i \in 1 .. Len(defered')
  PROVE \/ i \in 1 .. Len(defered) /\ defered'[i] = defered[i]
        \/ \E j \in 1 .. Len(ds) : i = Len(defered) + j /\ defered'[i] = ds[j]
<1>1. /\ Len(defered') = Len(defered) + Len(ds) /\ Len(defered) \in Nat /\ Len(ds) \in Nat
      /\ i \in Nat
  BY DEF Joins
<1>2. CASE i <= Len(defered)
  BY <1>1, <1>2 DEF Joins
<1>3. CASE i > Len(defered)
  <2>1. i - Len(defered) \in 1 .. Len(ds)
    BY <1>1, <1>3
  <2>2. defered'[i] = ds[i - Len(defered)]
    BY <1>1, <1>3, <2>1 DEF Joins
  <2>3. i = Len(defered) + (i - Len(defered))
    BY <1>1
  <2> QED
    BY <2>1, <2>2, <2>3
<1> QED
  BY <1>1, <1>2, <1>3

LEMMA JoinsLen ==
  ASSUME NEW ds, Joins(ds)
  PROVE Len(defered) \in Int /\ Len(defered') \in Int /\ Len(defered) <= Len(defered')
BY DEF Joins

AwaitsOn(ds) == \A n : Awaited(agenda, n) => Awaited(agenda', n) \/ \E i : SetsType(ds, i, n)
AddsTyped(ds) ==
  \A n \in 1 .. Len(ast') : n \notin 1 .. Len(ast) /\ ast'[n].kind \in ValueKinds =>
    Awaited(agenda', n) \/ types'[n] # "null" \/ \E i : SetsType(ds, i, n)
ExplicitOn(ds) ==
  \A n : HeldAs(agenda', "explicit", n) =>
    HeldAs(agenda, "explicit", n) \/ \E i : SetsType(ds, i, n)

(* What is read by a call put off now has its type by now.                 *)
Settles(n) == n \in 1 .. Len(ast) /\ ast[n].kind \in ValueKinds /\ ~Awaited(agenda, n)
ReadsOn(ds) ==
  \A i \in 1 .. Len(ds) :
    /\ ds[i].what = "literal" => HeldAs(agenda, "explicit", ds[i].of)
    /\ ds[i].what \in {"binary", "assign", "let"} => Settles(ast'[ds[i].node].kids[1])
    /\ ds[i].what = "find" => tables' = tables
ArgsStay ==
  \A s \in 1 .. Len(tables) : \A n, d :
    IsSym(tables', s, n, d) => IsSym(tables, s, n, d) \/ ast'[d].kind # "arg"

LEMMA ValuesKept ==
  ASSUME NEW ds, Joins(ds), AwaitsOn(ds), AddsTyped(ds), Extends(ast, ast'),
         ValuesTyped(agenda, defered, types, ast)
  PROVE ValuesTyped(agenda', defered', types', ast')
<1>1. ASSUME NEW n \in 1 .. Len(ast'), ast'[n].kind \in ValueKinds
      PROVE Awaited(agenda', n) \/ TypedBy(defered', types', Len(defered'), n)
  <2>1. CASE n \notin 1 .. Len(ast)
    <3>1. Awaited(agenda', n) \/ types'[n] # "null" \/ \E i : SetsType(ds, i, n)
      BY <1>1, <2>1 DEF AddsTyped
    <3>2. types'[n] # "null" => TypedBy(defered', types', Len(defered'), n)
      BY DEF TypedBy
    <3> QED
      BY <3>1, <3>2, JoinsSet
  <2>2. CASE n \in 1 .. Len(ast)
    <3>1. ast[n].kind \in ValueKinds
      BY <1>1, <2>2 DEF Extends
    <3>2. ast[n].kind # "ret"
      BY <3>1 DEF ValueKinds
    <3>3. Awaited(agenda, n) \/ TypedBy(defered, types, Len(defered), n)
      BY <2>2, <3>1 DEF ValuesTyped
    <3>4. CASE Awaited(agenda, n)
      <4>1. Awaited(agenda', n) \/ \E i : SetsType(ds, i, n)
        BY <3>4 DEF AwaitsOn
      <4> QED
        BY <4>1, JoinsSet
    <3>5. CASE TypedBy(defered, types, Len(defered), n)
      BY <2>2, <3>2, <3>5, JoinsTyped, JoinsLen
    <3> QED
      BY <3>3, <3>4, <3>5
  <2> QED
    BY <2>1, <2>2
<1> QED
  BY <1>1 DEF ValuesTyped

LEMMA ExplicitHolds ==
  ASSUME Syntax, NEW n, HeldAs(agenda, "explicit", n)
  PROVE n \in 1 .. Len(ast) /\ ast[n].kind = "let"
<1>1. PICK i \in 1 .. Len(agenda) : agenda[i].what = "explicit" /\ agenda[i].node = n
  BY DEF HeldAs
<1>2. ItemFits(ast, agenda[i])
  BY DEF Syntax, AgendaFits
<1> QED
  BY <1>1, <1>2 DEF ItemFits, Levelled, IsNode, KindOf

LEMMA ExplicitKept ==
  ASSUME Syntax, NEW ds, Joins(ds), ExplicitOn(ds), ExplicitTyped(agenda, defered, types)
  PROVE ExplicitTyped(agenda', defered', types')
<1>1. ASSUME NEW n, HeldAs(agenda', "explicit", n)
      PROVE TypedBy(defered', types', Len(defered'), n)
  <2>1. CASE HeldAs(agenda, "explicit", n)
    <3>1. n \in 1 .. Len(ast) /\ ast[n].kind # "ret"
      BY <2>1, ExplicitHolds
    <3>2. TypedBy(defered, types, Len(defered), n)
      BY <2>1 DEF ExplicitTyped
    <3> QED
      BY <3>1, <3>2, JoinsTyped, JoinsLen
  <2> QED
    BY <1>1, <2>1, JoinsSet DEF ExplicitOn
<1> QED
  BY <1>1 DEF ExplicitTyped

LEMMA LiteralsKept ==
  ASSUME Syntax, CallsInv, NEW ds, Joins(ds), ReadsOn(ds), ExplicitTyped(agenda, defered, types),
         LiteralsRead(defered, types)
  PROVE LiteralsRead(defered', types')
<1>1. ASSUME NEW i \in 1 .. Len(defered'), defered'[i].what = "literal"
      PROVE TypedBy(defered', types', i - 1, defered'[i].of)
  <2>1. i \in Int /\ i - 1 <= i - 1 /\ i - 1 \in Int
    BY DEF Joins
  <2>2. CASE i \in 1 .. Len(defered) /\ defered'[i] = defered[i]
    <3>1. CallFits(defered[i], ast, tables)
      BY <2>2 DEF CallsInv
    <3>2. defered[i].of \in 1 .. Len(ast) /\ ast[defered[i].of].kind # "ret"
      BY <1>1, <2>2, <3>1 DEF CallFits, IsNode
    <3>3. TypedBy(defered, types, i - 1, defered[i].of)
      BY <1>1, <2>2 DEF LiteralsRead
    <3> QED
      BY <2>1, <2>2, <3>2, <3>3, JoinsTyped
  <2>3. ASSUME NEW j \in 1 .. Len(ds), i = Len(defered) + j, defered'[i] = ds[j]
        PROVE TypedBy(defered', types', i - 1, defered'[i].of)
    <3>1. HeldAs(agenda, "explicit", ds[j].of)
      BY <1>1, <2>3 DEF ReadsOn
    <3>2. ds[j].of \in 1 .. Len(ast) /\ ast[ds[j].of].kind # "ret"
      BY <3>1, ExplicitHolds
    <3>3. TypedBy(defered, types, Len(defered), ds[j].of)
      BY <3>1 DEF ExplicitTyped
    <3>4. Len(defered) \in Int /\ Len(defered) <= i - 1
      BY <2>3, JoinsLen
    <3> QED
      BY <2>1, <2>3, <3>2, <3>3, <3>4, JoinsTyped
  <2> QED
    BY <2>2, <2>3, JoinsAt
<1> QED
  BY <1>1 DEF LiteralsRead

LEMMA OperandsReadOn ==
  ASSUME Syntax, CallsInv, Steady, NEW ds, Joins(ds), ReadsOn(ds),
         ValuesTyped(agenda, defered, types, ast), OperandsRead(defered, types, ast)
  PROVE OperandsRead(defered', types', ast')
<1>1. ASSUME NEW i \in 1 .. Len(defered'), defered'[i].what \in {"binary", "assign", "let"}
      PROVE TypedBy(defered', types', i - 1, ast'[defered'[i].node].kids[1])
  <2>1. i \in Int /\ i - 1 <= i - 1 /\ i - 1 \in Int
    BY DEF Joins
  <2>2. CASE i \in 1 .. Len(defered) /\ defered'[i] = defered[i]
    <3>1. CallFits(defered[i], ast, tables)
      BY <2>2 DEF CallsInv
    <3>2. PICK n : n = defered[i].node
      OBVIOUS
    <3>3. n \in 1 .. Len(ast) /\ Len(ast[n].kids) > 0 /\ ast[n].kind \in {"binary", "assign", "let"}
      BY <1>1, <2>2, <3>1, <3>2 DEF CallFits, CallKinds
    <3>4. ast \in Seq(TreeNode) /\ KidsFit(ast, n)
      BY <3>3 DEF Syntax, TreeFits, NodeFits
    <3>5. ast[n].kids \in Seq(Nat)
      <4>1. ast[n] \in TreeNode
        BY <3>3, <3>4
      <4> QED
        BY <4>1 DEF TreeNode
    <3>6. 1 \in 1 .. Len(ast[n].kids)
      BY <3>3, <3>5
    <3>7. PICK k : k = ast[n].kids[1]
      OBVIOUS
    <3>8. k \in 1 .. Len(ast) /\ ast[k].kind # "ret"
      BY <3>3, <3>4, <3>6, <3>7 DEF KidsFit, Operands
    <3>9. ast'[n].kids[1] = k
      BY <3>3, <3>6, <3>7 DEF Steady
    <3>10. TypedBy(defered, types, i - 1, k)
      BY <1>1, <2>2, <3>2, <3>7 DEF OperandsRead
    <3>11. TypedBy(defered', types', i - 1, k)
      BY <2>1, <3>8, <3>10, JoinsTyped
    <3> QED
      BY <2>2, <3>2, <3>9, <3>11
  <2>3. ASSUME NEW j \in 1 .. Len(ds), i = Len(defered) + j, defered'[i] = ds[j]
        PROVE TypedBy(defered', types', i - 1, ast'[defered'[i].node].kids[1])
    <3>1. PICK k : k = ast'[ds[j].node].kids[1]
      OBVIOUS
    <3>2. Settles(k)
      BY <1>1, <2>3, <3>1 DEF ReadsOn
    <3>3. k \in 1 .. Len(ast) /\ ast[k].kind \in ValueKinds /\ ~Awaited(agenda, k)
      BY <3>2 DEF Settles
    <3>4. TypedBy(defered, types, Len(defered), k) /\ ast[k].kind # "ret"
      BY <3>3 DEF ValuesTyped, ValueKinds
    <3>5. Len(defered) \in Int /\ Len(defered) <= i - 1
      BY <2>3, JoinsLen
    <3>6. TypedBy(defered', types', i - 1, k)
      BY <2>1, <3>3, <3>4, <3>5, JoinsTyped
    <3> QED
      BY <2>3, <3>1, <3>6
  <2> QED
    BY <2>2, <2>3, JoinsAt
<1> QED
  BY <1>1 DEF OperandsRead

LEMMA SymbolKind ==
  ASSUME Syntax, TablesInv, NEW s, NEW n, NEW d, IsSym(tables, s, n, d)
  PROVE d \in 1 .. Len(ast) /\ (ast[d].kind = "arg" => ~Awaited(agenda, d))
<1>1. d \in 1 .. Len(ast)
  BY SymNode DEF TablesInv
<1>2. ASSUME ast[d].kind = "arg", NEW w \in Awaiting, HeldAs(agenda, w, d) PROVE FALSE
  <2>1. PICK i \in 1 .. Len(agenda) : agenda[i].what = w /\ agenda[i].node = d
    BY <1>2 DEF HeldAs
  <2>2. ItemFits(ast, agenda[i])
    BY DEF Syntax, AgendaFits
  <2>3. ast[d].kind = KindOf(w)
    BY <2>1, <2>2 DEF ItemFits, Levelled, IsNode, Awaiting
  <2> QED
    BY <1>2, <2>3 DEF KindOf, Awaiting
<1> QED
  BY <1>1, <1>2 DEF Awaited

LEMMA ArgsKept ==
  ASSUME Syntax, TablesInv, CallsInv, Extends(ast, ast'), NEW ds, Joins(ds), ReadsOn(ds), ArgsStay,
         ValuesTyped(agenda, defered, types, ast), ArgsRead(defered, types, ast, tables)
  PROVE ArgsRead(defered', types', ast', tables')
<1>1. ASSUME NEW i, NEW m, NEW s, NEW n, NEW d, IsCall(defered', i, "find", m),
             s <= defered'[i].of, IsSym(tables', s, n, d), ast'[d].kind = "arg"
      PROVE TypedBy(defered', types', i - 1, d)
  <2>1. i \in 1 .. Len(defered') /\ defered'[i].what = "find" /\ defered'[i].node = m
    BY <1>1 DEF IsCall
  <2>2. i \in Int /\ i - 1 <= i - 1 /\ i - 1 \in Int
    BY <2>1 DEF Joins
  <2>3. ASSUME IsSym(tables, s, n, d)
        PROVE d \in 1 .. Len(ast) /\ ast[d].kind = "arg" /\ ast[d].kind # "ret" /\ ~Awaited(agenda, d)
    <3>1. d \in 1 .. Len(ast)
      BY <2>3, SymNode DEF TablesInv
    <3>2. ast[d].kind = "arg"
      BY <1>1, <3>1 DEF Extends
    <3> QED
      BY <2>3, <3>1, <3>2, SymbolKind
  <2>4. CASE i \in 1 .. Len(defered) /\ defered'[i] = defered[i]
    <3>1. CallFits(defered[i], ast, tables)
      BY <2>4 DEF CallsInv
    <3>2. defered[i].of \in 1 .. Len(tables)
      BY <2>1, <2>4, <3>1 DEF CallFits
    <3>3. s \in 1 .. Len(tables')  BY <1>1 DEF IsSym
    <3>4. s \in 1 .. Len(tables) 
      <4>1. Len(tables) \in Nat
        BY DEF TablesInv, TablesFit
      <4>2. s \in Int /\ 1 <= s
        BY <3>3
      <4>3. s <= defered[i].of
        BY <1>1, <2>4
      <4> QED
        BY <3>2, <4>1, <4>2, <4>3
    <3>5. IsSym(tables, s, n, d)
      BY <1>1, <3>4 DEF ArgsStay
    <3>6. IsCall(defered, i, "find", m)
      BY <2>1, <2>4 DEF IsCall
    <3>7. s <= defered[i].of
      BY <1>1, <2>4
    <3>8. TypedBy(defered, types, i - 1, d)
      BY <2>3, <3>5, <3>6, <3>7 DEF ArgsRead
    <3> QED
      BY <2>2, <2>3, <3>5, <3>8, JoinsTyped
  <2>5. ASSUME NEW j \in 1 .. Len(ds), i = Len(defered) + j, defered'[i] = ds[j]
        PROVE TypedBy(defered', types', i - 1, d)
    <3>1. tables' = tables
      BY <2>1, <2>5 DEF ReadsOn
    <3>2. IsSym(tables, s, n, d)
      BY <1>1, <3>1
    <3>3. TypedBy(defered, types, Len(defered), d)
      BY <2>3, <3>2 DEF ValuesTyped, ValueKinds
    <3>4. Len(defered) \in Int /\ Len(defered) <= i - 1
      BY <2>5, JoinsLen
    <3> QED
      BY <2>2, <2>3, <3>2, <3>3, <3>4, JoinsTyped
  <2> QED
    BY <2>1, <2>4, <2>5, JoinsAt
<1> QED
  BY <1>1 DEF ArgsRead

(* The calls that look names up are put off in the order of the trail.     *)
LEMMA LetsKept ==
  ASSUME Syntax, TrailInv, Extends(ast, ast'), NEW ds, Joins(ds),
         trail' = trail \/ \E e : trail' = Append(trail, e),
         \A i, m : IsCall(defered, i, "find", m) => \E q : Leaves(trail, q, m), LeftOnce(trail'),
         ValuesTyped(agenda, defered, types, ast), LetsRead(defered, types, ast, trail)
  PROVE LetsRead(defered', types', ast', trail')
<1>1. /\ Len(trail) \in Nat /\ Len(trail') \in {Len(trail), Len(trail) + 1}
      /\ \A p \in 1 .. Len(trail) : trail'[p] = trail[p]
  BY DEF TrailInv
<1>2. ASSUME NEW q, NEW n, Leaves(trail, q, n) PROVE Leaves(trail', q, n)
  BY <1>1, <1>2 DEF Leaves
<1>3. ASSUME NEW q \in 1 .. Len(trail'), NEW n, LeftBefore(trail', q, n)
      PROVE \E r \in 1 .. Len(trail) : r < q /\ Leaves(trail, r, n)
  <2>1. PICK r \in 1 .. (q - 1) : Leaves(trail', r, n)
    BY <1>3 DEF LeftBefore
  <2>2. r \in 1 .. Len(trail) /\ r < q
    BY <1>1, <2>1
  <2>3. Leaves(trail, r, n)
    BY <1>1, <2>1, <2>2 DEF Leaves
  <2> QED
    BY <2>2, <2>3
<1>4. ASSUME NEW i, NEW m, NEW q, NEW d, IsCall(defered', i, "find", m), Leaves(trail', q, m),
             d \in 1 .. Len(ast'), ast'[d].kind = "let", LeftBefore(trail', q, d)
      PROVE TypedBy(defered', types', i - 1, d)
  <2>1. i \in 1 .. Len(defered') /\ defered'[i].what = "find" /\ defered'[i].node = m
    BY <1>4 DEF IsCall
  <2>2. i \in Int /\ i - 1 <= i - 1 /\ i - 1 \in Int
    BY <2>1 DEF Joins
  <2>3. q \in 1 .. Len(trail')
    BY <1>4 DEF Leaves
  <2>4. PICK r \in 1 .. Len(trail) : r < q /\ Leaves(trail, r, d)
    BY <1>3, <1>4, <2>3
  <2>5. StepFits(trail[r])
    BY DEF TrailInv
  <2>6. d \in 1 .. Len(ast) /\ ~Held(agenda, d)
    BY <2>4, <2>5 DEF StepFits, Leaves
  <2>7. ast[d].kind = "let" /\ ast[d].kind # "ret"
    BY <1>4, <2>6 DEF Extends
  <2>8. CASE i \in 1 .. Len(defered) /\ defered'[i] = defered[i]
    <3>1. IsCall(defered, i, "find", m)
      BY <2>1, <2>8 DEF IsCall
    <3>2. PICK p : Leaves(trail, p, m)
      BY <3>1
    <3>3. p = q
      BY <1>2, <1>4, <3>2 DEF LeftOnce
    <3>4. LeftBefore(trail, q, d)
      <4>1. r \in 1 .. (q - 1)
        BY <1>1, <2>3, <2>4
      <4> QED
        BY <2>4, <4>1 DEF LeftBefore
    <3>5. TypedBy(defered, types, i - 1, d)
      BY <2>6, <2>7, <3>1, <3>2, <3>3, <3>4 DEF LetsRead
    <3> QED
      BY <2>2, <2>6, <2>7, <3>5, JoinsTyped
  <2>9. ASSUME NEW j \in 1 .. Len(ds), i = Len(defered) + j, defered'[i] = ds[j]
        PROVE TypedBy(defered', types', i - 1, d)
    <3>1. ~Awaited(agenda, d)
      BY <2>6 DEF Awaited, Awaiting, Held, Holders, Enders
    <3>2. TypedBy(defered, types, Len(defered), d)
      BY <2>6, <2>7, <3>1 DEF ValuesTyped, ValueKinds
    <3>3. Len(defered) \in Int /\ Len(defered) <= i - 1
      BY <2>9, JoinsLen
    <3> QED
      BY <2>2, <2>6, <2>7, <3>2, <3>3, JoinsTyped
  <2> QED
    BY <2>1, <2>8, <2>9, JoinsAt
<1> QED
  BY <1>4 DEF LetsRead

LEMMA KidsStay ==
  ASSUME Syntax, EndArgument \/ EndInfix \/ EndVarDecl \/ EndRet \/ ParseIfBody
  PROVE TypesStay
<1>1. CASE EndArgument \/ EndInfix \/ EndVarDecl \/ ParseIfBody
  BY <1>1 DEF EndArgument, EndInfix, EndVarDecl, ParseIfBody, TypesStay, Throw, StopAs, treeVars
<1>2. CASE EndRet
  <2>1. PICK n : n = Head(agenda).node
    OBVIOUS
  <2>2. ast[n].kind = "ret"
    BY <1>2, <2>1, HeadNode DEF EndRet, Doing, Levelled, KindOf
  <2>3. types' = [types EXCEPT ![n] = types[value]]
    BY <1>2, <2>1 DEF EndRet
  <2> QED
    BY <2>2, <2>3 DEF TypesStay
<1> QED
  BY <1>1, <1>2

LEMMA SameStay == types' = types => TypesStay
BY DEF TypesStay

LEMMA FunctionStays == ASSUME Syntax, NodesInv, BeginFunction PROVE TypesStay
<1>1. PICK h \in Headers : ParseFunction(h.name, h.params, h.ret, h.ext)
  BY DEF BeginFunction
<1>2. PICK ts : ts = << "void" >> \o [i \in 1 .. Len(h.params) |-> "null"]
  OBVIOUS
<1>3. Throw \/ types' = types \o ts
  BY <1>1, <1>2 DEF ParseFunction, AddNodes
<1>4. ts \in Seq(NodeTypes)
  <2> DEFINE a == [i \in 1 .. Len(h.params) |-> "null"]
  <2>1. Len(h.params) \in Nat
    BY HeadersAssumption
  <2>2. a \in Seq(NodeTypes)
    BY <2>1, WordTypes
  <2> HIDE DEF a
  <2> QED
    BY <1>2, <2>2, WordTypes, Pushed DEF a
<1>5. types \in Seq(NodeTypes) /\ Len(types) = Len(ast)
  BY DEF NodesInv
<1>6. CASE types' = types \o ts
  <2>1. PICK us : us = types \o ts
    OBVIOUS
  <2>2. \A i \in 1 .. Len(types) : us[i] = types[i]
    BY <1>4, <1>5, <2>1
  <2> QED
    BY <1>5, <1>6, <2>1, <2>2 DEF TypesStay
<1>7. CASE Throw
  BY <1>7 DEF Throw, StopAs, treeVars, TypesStay
<1> QED
  BY <1>3, <1>6, <1>7

(* An action that adds one node of type t to the tree.                     *)
AddsOf(x, t) == t \in NodeTypes /\ \E b : AddNodes(<< x >>, << t >>, b)

LEMMA AddsOfStays ==
  ASSUME Syntax, NodesInv, NEW x, NEW t, AddsOf(x, t)
  PROVE /\ TypesStay /\ types'[NewId] = t
        /\ \A n \in 1 .. Len(ast') : n \notin 1 .. Len(ast) => n = NewId /\ ast'[n] = x
<1>1. PICK b : AddNodes(<< x >>, << t >>, b)
  BY DEF AddsOf
<1>2. ast \in Seq(TreeNode)
  BY DEF Syntax
<1>3. TypesStay /\ types'[Len(ast) + 1] = t
  BY <1>1, <1>2, AddedStay DEF AddsOf
<1>4. ast' = ast \o << x >>
  BY <1>1 DEF AddNodes
<1>5. \A n \in 1 .. Len(ast') : n \notin 1 .. Len(ast) => n = NewId /\ ast'[n] = x
  BY <1>2, <1>4, NewNode
<1> QED
  BY <1>3, <1>5 DEF NewId

LEMMA ParseAddsOf ==
  /\ ParseInteger =>
       AddsOf(Node("literal", "none"), IF explicitTypes = << >> THEN "i64" ELSE "null")
  /\ ParseOtherLiteral => \E t : t # "null" /\ AddsOf(Node("literal", "none"), t)
  /\ ParseIdentifier => \E n : AddsOf(Node("identifier", n), "null")
  /\ BeginCall => \E f : AddsOf(Node("call", f), "null")
  /\ ParseOperator => \E x : x.kind = "binary" /\ AddsOf(x, "null")
  /\ ParseAssignment => Throw \/ \E x : x.kind = "assign" /\ AddsOf(x, "null")
  /\ BeginExplicit \/ BeginInferred => \E n : AddsOf(Node("let", n), "null")
  /\ BeginRet => \E x : x.kind = "ret" /\ AddsOf(x, "null")
  /\ BeginIf => AddsOf(Node("if", "none"), "void")
<1>1. ASSUME ParseInteger
      PROVE AddsOf(Node("literal", "none"), IF explicitTypes = << >> THEN "i64" ELSE "null")
  BY <1>1, WordTypes DEF ParseInteger, AddsOf
<1>2. ASSUME ParseOtherLiteral PROVE \E t : t # "null" /\ AddsOf(Node("literal", "none"), t)
  <2>1. PICK t \in Types \cap {"bool", "str"} : AddNodes(<< Node("literal", "none") >>, << t >>, FALSE)
    BY <1>2 DEF ParseOtherLiteral
  <2>2. t # "null"
    OBVIOUS
  <2> QED
    BY <2>1, <2>2, WordTypes DEF AddsOf
<1>3. ASSUME ParseIdentifier PROVE \E n : AddsOf(Node("identifier", n), "null")
  BY <1>3, WordTypes DEF ParseIdentifier, AddsOf
<1>4. ASSUME BeginCall PROVE \E f : AddsOf(Node("call", f), "null")
  BY <1>4, WordTypes DEF BeginCall, AddsOf
<1>5. ASSUME ParseOperator PROVE \E x : x.kind = "binary" /\ AddsOf(x, "null")
  <2>1. PICK x : x = [Node("binary", "none") EXCEPT !.word = token, !.kids = << value >>]
    OBVIOUS
  <2>2. x.kind = "binary"
    BY <2>1 DEF Node
  <2>3. AddNodes(<< x >>, << "null" >>, FALSE)
    BY <1>5, <2>1 DEF ParseOperator
  <2> QED
    BY <2>2, <2>3, WordTypes DEF AddsOf
<1>6. ASSUME ParseAssignment PROVE Throw \/ \E x : x.kind = "assign" /\ AddsOf(x, "null")
  <2>1. PICK x : x = [Node("assign", "none") EXCEPT !.kids = << value >>]
    OBVIOUS
  <2>2. x.kind = "assign"
    BY <2>1 DEF Node
  <2>3. Throw \/ AddNodes(<< x >>, << "null" >>, FALSE)
    BY <1>6, <2>1 DEF ParseAssignment
  <2> QED
    BY <2>2, <2>3, WordTypes DEF AddsOf
<1>7. ASSUME BeginExplicit \/ BeginInferred PROVE \E n : AddsOf(Node("let", n), "null")
  <2>1. PICK n \in VarNames, b \in Muts : AddNodes(<< Node("let", n) >>, << "null" >>, b)
    BY <1>7 DEF BeginExplicit, BeginInferred
  <2> QED
    BY <2>1, WordTypes DEF AddsOf
<1>8. ASSUME BeginRet PROVE \E x : x.kind = "ret" /\ AddsOf(x, "null")
  <2>1. PICK x : x = [Node("ret", "none") EXCEPT !.fn = agenda[Len(agenda)].node]
    OBVIOUS
  <2>2. x.kind = "ret"
    BY <2>1 DEF Node
  <2>3. AddNodes(<< x >>, << "null" >>, FALSE)
    BY <1>8, <2>1 DEF BeginRet
  <2> QED
    BY <2>2, <2>3, WordTypes DEF AddsOf
<1>9. ASSUME BeginIf PROVE AddsOf(Node("if", "none"), "void")
  BY <1>9, WordTypes DEF BeginIf, AddsOf
<1> QED
  BY <1>1, <1>2, <1>3, <1>4, <1>5, <1>6, <1>7, <1>8, <1>9

LEMMA TypesStays == ASSUME Syntax, NodesInv, Parse PROVE TypesStay
<1>1. CASE EndFunction \/ ParseArgument \/ EndCall \/ EndExpression \/ EndIf
           \/ BeginExprStatement \/ EndOfFile
  BY <1>1, SameStay DEF EndFunction, ParseArgument, EndCall, EndExpression, EndIf,
     BeginExprStatement, EndOfFile, treeVars
<1>2. CASE ParseInteger \/ ParseOtherLiteral \/ ParseIdentifier \/ BeginCall
  BY <1>2, ParseAddsOf, AddsOfStays
<1>3. CASE ParseOperator \/ ParseAssignment \/ BeginExplicit \/ BeginInferred \/ BeginRet \/ BeginIf
  <2>1. Throw => TypesStay
    BY DEF Throw, StopAs, treeVars, TypesStay
  <2> QED
    BY <1>3, <2>1, ParseAddsOf, AddsOfStays
<1> QED
  BY <1>1, <1>2, <1>3, KidsStay, FunctionStays DEF Parse

-----------------------------------------------------------------------------
(* Actions that leave the queue alone, or put one call into it.            *)

Orders(ds) == Joins(ds) /\ AwaitsOn(ds) /\ AddsTyped(ds) /\ ExplicitOn(ds) /\ ReadsOn(ds)

LEMMA AwaitedHead ==
  ASSUME Parse, agenda # << >>, Head(agenda).what \in {"right", "assign", "inferred"}
  PROVE EndInfix \/ EndVarDecl
<1>1. ~BeginFunction
  BY DEF BeginFunction, ParseFunction
<1>2. ~(EndFunction \/ ParseInteger \/ ParseOtherLiteral \/ ParseIdentifier \/ BeginCall
        \/ ParseArgument \/ EndArgument \/ EndCall \/ ParseOperator \/ ParseAssignment \/ EndExpression)
  BY DEF EndFunction, ParseInteger, ParseOtherLiteral, ParseIdentifier, BeginCall, ParseArgument,
         EndArgument, EndCall, ParseOperator, ParseAssignment, EndExpression, Doing
<1>3. ~(BeginExplicit \/ BeginInferred \/ BeginRet \/ EndRet \/ BeginIf \/ ParseIfBody \/ EndIf
        \/ BeginExprStatement \/ EndOfFile)
  BY DEF BeginExplicit, BeginInferred, BeginRet, EndRet, BeginIf, ParseIfBody, EndIf,
         BeginExprStatement, EndOfFile, InBody, Doing, BodyKinds
<1> QED
  BY <1>1, <1>2, <1>3, Zenon DEF Parse

LEMMA AwaitedStays ==
  ASSUME Syntax, Parse, ~EndCall, ~EndInfix, ~EndVarDecl, NEW n, Awaited(agenda, n)
  PROVE Awaited(agenda', n)
<1>1. PICK w \in Awaiting : HeldAs(agenda, w, n)
  BY DEF Awaited
<1>2. CASE w = "call"
  <2>1. HeldAs(agenda', "call", n)
    BY <1>1, <1>2, ParseMoves DEF Moves
  <2> QED
    BY <2>1 DEF Awaited, Awaiting
<1>3. CASE w \in {"right", "assign", "inferred"}
  <2>1. PICK a : /\ Rest(a)
                 /\ \/ agenda' = a
                    \/ \E x : Fresh(x) /\ agenda' = << x >> \o a
                    \/ \E x, y : Fresh(x) /\ Fresh(y) /\ agenda' = << x, y >> \o a
    BY ParseTurns DEF Turns
  <2>2. a \in Seq(Item) /\ agenda \in Seq(Item)
    BY <2>1 DEF Rest, Syntax
  <2>3. HeldAs(a, w, n)
    <3>1. CASE a = agenda
      BY <1>1, <3>1
    <3>2. CASE agenda # << >> /\ a = Tail(agenda)
      <4>1. Head(agenda).what # w
        BY <1>3, <3>2, AwaitedHead
      <4> QED
        BY <1>1, <2>2, <3>2, <4>1, HeldTail
    <3> QED
      BY <2>1, <3>1, <3>2 DEF Rest
  <2>4. ASSUME NEW x, Fresh(x), NEW b \in Seq(Item), HeldAs(b, w, n)
        PROVE HeldAs(<< x >> \o b, w, n) /\ << x >> \o b \in Seq(Item)
    <3>1. x \in Item
      BY <2>4 DEF Fresh
    <3> QED
      BY <2>4, <3>1, HeldPush, Pushed
  <2>5. HeldAs(agenda', w, n)
    <3>1. CASE agenda' = a
      BY <2>3, <3>1
    <3>2. CASE \E x : Fresh(x) /\ agenda' = << x >> \o a
      BY <2>2, <2>3, <2>4, <3>2
    <3>3. CASE \E x, y : Fresh(x) /\ Fresh(y) /\ agenda' = << x, y >> \o a
      <4>1. PICK x, y : Fresh(x) /\ Fresh(y) /\ agenda' = << x, y >> \o a
        BY <3>3
      <4>2. agenda' = << x >> \o (<< y >> \o a)
        BY <2>2, <4>1, PushedTwo DEF Fresh
      <4> QED
        BY <2>2, <2>3, <2>4, <4>1, <4>2
    <3> QED
      BY <2>1, <3>1, <3>2, <3>3
  <2> QED
    BY <1>3, <2>5 DEF Awaited, Awaiting
<1> QED
  BY <1>2, <1>3 DEF Awaiting

NewTyped(d) ==
  \A n \in 1 .. Len(ast') : n \notin 1 .. Len(ast) /\ ast'[n].kind \in ValueKinds =>
    Awaited(agenda', n) \/ types'[n] # "null" \/ n = d

LEMMA EmptyOrders ==
  ASSUME BuildInv, Parse, defered' = defered, NewTyped(0),
         \A n : Awaited(agenda, n) => Awaited(agenda', n),
         \A n : HeldAs(agenda', "explicit", n) => HeldAs(agenda, "explicit", n)
  PROVE \E ds : Orders(ds)
<1> DEFINE ds == << >>
<1>0. Syntax /\ NodesInv /\ CallsInv
  BY DEF BuildInv
<1>1. defered \in Seq(DeferedCall)
  BY <1>0 DEF CallsInv
<1>2. Joins(ds)
  BY <1>0, <1>1, TypesStays DEF Joins
<1>3. AwaitsOn(ds)
  BY DEF AwaitsOn
<1>4. AddsTyped(ds)
  <2>1. \A n \in 1 .. Len(ast') : n \notin 1 .. Len(ast) => n # 0
    OBVIOUS
  <2> QED
    BY <2>1 DEF AddsTyped, NewTyped
<1>5. ExplicitOn(ds)
  BY DEF ExplicitOn
<1>6. ReadsOn(ds)
  BY DEF ReadsOn
<1> QED
  BY <1>2, <1>3, <1>4, <1>5, <1>6 DEF Orders

LEMMA NoneOrdered ==
  ASSUME BuildInv, Parse, ~EndCall, ~EndInfix, ~BeginExplicit, ~EndVarDecl, defered' = defered,
         NewTyped(0)
  PROVE \E ds : Orders(ds)
<1>1. Syntax
  BY DEF BuildInv
<1>2. \A n : Awaited(agenda, n) => Awaited(agenda', n)
  BY <1>1, AwaitedStays
<1>3. \A n : HeldAs(agenda', "explicit", n) => HeldAs(agenda, "explicit", n)
  BY <1>1, QuietHeld, ParseTurns
<1> QED
  BY <1>2, <1>3, EmptyOrders

Reads(d) ==
  /\ d.what = "literal" => HeldAs(agenda, "explicit", d.of)
  /\ d.what \in {"binary", "assign", "let"} => Settles(ast'[d.node].kids[1])
  /\ d.what = "find" => tables' = tables

LEMMA OneOrdered ==
  ASSUME BuildInv, Parse, NEW d \in DeferedCall, d.what # "callee", defered' = defered \o << d >>,
         \A n : Awaited(agenda, n) => Awaited(agenda', n) \/ n = d.node, NewTyped(d.node),
         \A n : HeldAs(agenda', "explicit", n) => HeldAs(agenda, "explicit", n) \/ n = d.node,
         Reads(d)
  PROVE \E ds : Orders(ds)
<1>1. PICK ds : ds = << d >>
  OBVIOUS
<1>0. Syntax /\ NodesInv /\ CallsInv
  BY DEF BuildInv
<1>2. /\ ds \in Seq(DeferedCall) /\ Len(ds) = 1 /\ ds[1] = d /\ defered \in Seq(DeferedCall)
      /\ defered' = defered \o ds
  BY <1>0, <1>1 DEF CallsInv
<1>3. SetsType(ds, 1, d.node)
  BY <1>2 DEF SetsType
<1>4. Joins(ds)
  BY <1>0, <1>2, TypesStays DEF Joins
<1>5. AwaitsOn(ds)
  BY <1>3 DEF AwaitsOn
<1>6. AddsTyped(ds)
  BY <1>3 DEF AddsTyped, NewTyped
<1>7. ExplicitOn(ds)
  BY <1>3 DEF ExplicitOn
<1>8. ReadsOn(ds)
  <2>1. \A i \in 1 .. Len(ds) : ds[i] = d
    BY <1>2
  <2> QED
    BY <2>1 DEF ReadsOn, Reads
<1> QED
  BY <1>4, <1>5, <1>6, <1>7, <1>8 DEF Orders

(* Most actions put off no call.                                           *)
LEMMA QuietActions ==
  ASSUME BuildInv, defered' = defered PROVE ~BeginExplicit /\ ~EndCall /\ ~EndInfix
<1>1. Syntax /\ defered \in Seq(DeferedCall)
  BY DEF BuildInv, CallsInv
<1>2. ASSUME NEW x, defered' = defered \o << x >> PROVE FALSE
  <2>1. Len(defered \o << x >>) = Len(defered) + 1
    BY <1>1, AppendedAny
  <2> QED
    BY <1>1, <1>2, <2>1
<1>3. ~BeginExplicit
  BY <1>2 DEF BeginExplicit, Defer
<1>4. ~EndInfix
  BY <1>2 DEF EndInfix, Defer
<1>5. ASSUME EndCall PROVE FALSE
  <2>0. PICK c, d : c = Call("callee", Head(agenda).node) /\ d = Call("call", Head(agenda).node)
    OBVIOUS
  <2>1. Head(agenda).node \in Nat
    BY <1>1, <1>5, HeadNode DEF EndCall, Doing, Levelled
  <2>2. c \in DeferedCall /\ d \in DeferedCall
    BY <2>0, <2>1, CallForms, Zenon
  <2>3. defered' = defered \o << c, d >>
    BY <1>5, <2>0 DEF EndCall, Defer
  <2>4. Len(defered \o << c, d >>) = Len(defered) + 2
    BY <1>1, <2>2
  <2> QED
    BY <1>1, <2>3, <2>4
<1> QED
  BY <1>3, <1>4, <1>5

LEMMA QuietOrders ==
  ASSUME BuildInv, Parse, ~Doing({"explicit", "inferred"}), defered' = defered, NewTyped(0)
  PROVE \E ds : Orders(ds)
<1>1. ~EndVarDecl
  BY DEF EndVarDecl
<1> QED
  BY <1>1, QuietActions, NoneOrdered

(* Actions that make no node and put off no call.                          *)
LEMMA PlainOrders ==
  ASSUME BuildInv, EndFunction \/ ParseArgument \/ EndArgument \/ EndExpression \/ EndRet
                   \/ ParseIfBody \/ EndIf \/ BeginExprStatement \/ EndOfFile
  PROVE \E ds : Orders(ds)
<1>1. Parse /\ defered' = defered
  BY DEF Parse, EndFunction, ParseArgument, EndArgument, EndExpression, EndRet, ParseIfBody,
     EndIf,
         BeginExprStatement, EndOfFile
<1>2. ast' = ast \/ \E n : AddKid(n)
  BY DEF EndFunction, ParseArgument, EndArgument, EndExpression, EndRet, ParseIfBody, EndIf,
         BeginExprStatement, EndOfFile, treeVars
<1>3. Len(ast') = Len(ast)
  <2>1. ast \in Seq(TreeNode)
    BY DEF BuildInv, Syntax
  <2> QED
    BY <1>2, <2>1 DEF AddKid
<1>4. NewTyped(0)
  BY <1>3 DEF NewTyped
<1>5. ~Doing({"explicit", "inferred"})
  BY DEF EndFunction, ParseArgument, EndArgument, EndExpression, EndRet, ParseIfBody, EndIf,
         BeginExprStatement, EndOfFile, Doing, InBody, BodyKinds
<1> QED
  BY <1>1, <1>4, <1>5, QuietOrders

LEMMA TopHeld ==
  ASSUME NEW a \in Seq(Item), NEW x \in Item, NEW y \in Item, NEW b, b = << x, y >> \o a
  PROVE HeldAs(b, x.what, x.node) /\ HeldAs(b, y.what, y.node)
<1>1. b = << x >> \o (<< y >> \o a) /\ << y >> \o a \in Seq(Item)
  BY PushedTwo
<1> QED
  BY <1>1, HeldPush

(* A node that comes with the parser that awaits its type.                 *)
LEMMA AwaitedNew ==
  ASSUME Syntax,
         \/ BeginCall
         \/ ParseOperator
         \/ ParseAssignment /\ phase' # "threw"
         \/ BeginInferred
  PROVE Awaited(agenda', NewId)
<1>1. agenda \in Seq(Item)
  BY DEF Syntax
<1>2. \A w \in Awaiting : NodeItem(w, NewId) \in Item /\ NodeItem(w, NewId).what = w
                          /\ NodeItem(w, NewId).node = NewId
  <2>1. NewId \in Nat
    BY DEF Syntax, NewId
  <2> QED
    BY <2>1 DEF NodeItem, Item, HolderItem, Awaiting
<1>3. \A l \in 0 .. 10 : ExprItem(l) \in Item /\ InfixItem(l) \in Item
  BY DEF ExprItem, InfixItem, Item, LevelItem
<1>4. CASE BeginCall
  <2>1. agenda # << >> /\ Head(agenda).what = "expr"
    BY <1>4 DEF BeginCall, Doing
  <2>2. Head(agenda).level \in 0 .. 10 /\ Tail(agenda) \in Seq(Item)
    <3>1. Head(agenda) \in Item
      BY <1>1, <2>1
    <3>2. Head(agenda) \notin HolderItem
      BY <2>1 DEF HolderItem, BodyKinds
    <3> QED
      BY <1>1, <2>1, <3>1, <3>2 DEF Item, LevelItem
  <2>3. agenda' = << NodeItem("call", NewId), InfixItem(Head(agenda).level) >> \o Tail(agenda)
    BY <1>4 DEF BeginCall, Replace
  <2>4. PICK x, y : x = NodeItem("call", NewId) /\ y = InfixItem(Head(agenda).level)
    OBVIOUS
  <2>5. x \in Item /\ y \in Item /\ x.what = "call" /\ x.node = NewId
    BY <1>2, <1>3, <2>2, <2>4 DEF Awaiting
  <2>6. HeldAs(agenda', "call", NewId)
    BY <2>2, <2>3, <2>4, <2>5, TopHeld
  <2> QED
    BY <2>6 DEF Awaited, Awaiting
<1>5. ASSUME NEW l \in 0 .. 10, NEW w \in Awaiting,
             agenda' = << ExprItem(l), NodeItem(w, NewId) >> \o agenda
      PROVE Awaited(agenda', NewId)
  <2>1. PICK x, y : x = ExprItem(l) /\ y = NodeItem(w, NewId)
    OBVIOUS
  <2>2. x \in Item /\ y \in Item /\ y.what = w /\ y.node = NewId
    BY <1>2, <1>3, <2>1
  <2>3. HeldAs(agenda', w, NewId)
    BY <1>1, <1>5, <2>1, <2>2, TopHeld
  <2> QED
    BY <2>3 DEF Awaited
<1>6. CASE ParseOperator
  <2>1. agenda' = << ExprItem(Precedence(token)), NodeItem("right", NewId) >> \o agenda
    BY <1>6 DEF ParseOperator, Enter
  <2>2. Precedence(token) \in 0 .. 10
    BY DEF Precedence
  <2> QED
    BY <1>5, <2>1, <2>2 DEF Awaiting
<1>7. CASE ParseAssignment /\ phase' # "threw"
  <2>1. agenda' = << ExprItem(Precedence(token)), NodeItem("assign", NewId) >> \o agenda
    BY <1>7 DEF ParseAssignment, Enter, Throw, StopAs
  <2>2. Precedence(token) \in 0 .. 10
    BY DEF Precedence
  <2> QED
    BY <1>5, <2>1, <2>2 DEF Awaiting
<1>8. CASE BeginInferred
  <2>1. agenda' = << ExprItem(0), NodeItem("inferred", NewId) >> \o agenda
    BY <1>8 DEF BeginInferred, Enter
  <2> QED
    BY <1>5, <2>1 DEF Awaiting
<1> QED
  BY <1>4, <1>6, <1>7, <1>8

(* Actions that make a node and put off no call.                           *)
LEMMA MakingOrders ==
  ASSUME BuildInv, phase' # "threw",
         \/ ParseInteger /\ explicitTypes = << >>
         \/ ParseOtherLiteral \/ BeginCall \/ ParseOperator \/ ParseAssignment
         \/ BeginInferred \/ BeginRet \/ BeginIf
  PROVE \E ds : Orders(ds)
<1>0. Syntax /\ NodesInv
  BY DEF BuildInv
<1>1. Parse /\ defered' = defered
  BY DEF Parse, ParseInteger, ParseOtherLiteral, BeginCall, ParseOperator, ParseAssignment,
         BeginInferred, BeginRet, BeginIf, Throw, StopAs
<1>2. ~Doing({"explicit", "inferred"})
  BY DEF ParseInteger, ParseOtherLiteral, BeginCall, ParseOperator, ParseAssignment,
         BeginInferred, BeginRet, BeginIf, Doing, InBody, BodyKinds
<1>3. CASE ParseInteger /\ explicitTypes = << >>
  <2>1. AddsOf(Node("literal", "none"), "i64")
    BY <1>3, ParseAddsOf
  <2>2. NewTyped(0)
    BY <1>0, <2>1, AddsOfStays DEF NewTyped
  <2> QED
    BY <1>1, <1>2, <2>2, QuietOrders
<1>4. CASE ParseOtherLiteral
  <2>1. PICK t : t # "null" /\ AddsOf(Node("literal", "none"), t)
    BY <1>4, ParseAddsOf
  <2>2. NewTyped(0)
    BY <1>0, <2>1, AddsOfStays DEF NewTyped
  <2> QED
    BY <1>1, <1>2, <2>2, QuietOrders
<1>5. CASE BeginCall \/ ParseOperator \/ ParseAssignment \/ BeginInferred
  <2>1. \E x, t : AddsOf(x, t)
    <3>1. ~Throw
      BY DEF Throw, StopAs
    <3> QED
      BY <1>5, <3>1, ParseAddsOf
  <2>2. NewTyped(0)
    BY <1>0, <1>5, <2>1, AddsOfStays, AwaitedNew DEF NewTyped
  <2> QED
    BY <1>1, <1>2, <2>2, QuietOrders
<1>6. CASE BeginRet \/ BeginIf
  <2>1. Node("if", "none").kind = "if"
    BY DEF Node
  <2>2. \E x, t : AddsOf(x, t) /\ x.kind \notin ValueKinds
    BY <1>6, <2>1, ParseAddsOf DEF ValueKinds
  <2>3. NewTyped(0)
    BY <1>0, <2>2, AddsOfStays DEF NewTyped
  <2> QED
    BY <1>1, <1>2, <2>3, QuietOrders
<1> QED
  BY <1>3, <1>4, <1>5, <1>6

-----------------------------------------------------------------------------
(* Actions that put calls off.                                             *)

LEMMA LeavesOrder ==
  ASSUME BuildInv, (ParseInteger /\ explicitTypes # << >>) \/ ParseIdentifier
  PROVE \E ds : Orders(ds)
<1>0. Syntax /\ NodesInv /\ ExplicitInv
  BY DEF BuildInv
<1>1. Parse /\ Doing({"expr"})
  BY DEF Parse, ParseInteger, ParseIdentifier
<1>2. ~EndCall /\ ~EndInfix /\ ~EndVarDecl /\ ~BeginExplicit
  BY <1>1 DEF EndCall, EndInfix, EndVarDecl, BeginExplicit, InBody, Doing, BodyKinds
<1>3. \A n : Awaited(agenda, n) => Awaited(agenda', n)
  BY <1>0, <1>1, <1>2, AwaitedStays
<1>4. \A n : HeldAs(agenda', "explicit", n) => HeldAs(agenda, "explicit", n)
  BY <1>0, <1>1, <1>2, QuietHeld, ParseTurns
<1>5. NewId \in Nat
  BY <1>0 DEF Syntax, NewId
<1>6. CASE ParseInteger /\ explicitTypes # << >>
  <2>1. PICK d : d = CallWith("literal", NewId, Head(explicitTypes))
    OBVIOUS
  <2>2. defered' = defered \o << d >>
    BY <1>6, <2>1 DEF ParseInteger, Defer
  <2>3. Head(explicitTypes) \in Nat
    BY <1>0, <1>6, ExplicitLet
  <2>4. d \in DeferedCall /\ d.what = "literal" /\ d.node = NewId /\ d.of = Head(explicitTypes)
    BY <1>5, <2>1, <2>3, CallForms
  <2>5. PICK n : HeldAs(agenda, "explicit", n)
    BY <1>0, <1>6 DEF ExplicitInv, ExplicitFits
  <2>6. explicitTypes = << n >>
    BY <1>0, <2>5 DEF ExplicitInv, ExplicitFits
  <2>7. Reads(d)
    BY <2>4, <2>5, <2>6 DEF Reads
  <2>8. NewTyped(d.node)
    BY <1>0, <1>6, <2>4, ParseAddsOf, AddsOfStays DEF NewTyped
  <2> QED
    BY <1>1, <1>3, <1>4, <2>2, <2>4, <2>7, <2>8, OneOrdered
<1>7. CASE ParseIdentifier
  <2>1. PICK d : d = CallWith("find", NewId, currentScope)
    OBVIOUS
  <2>2. defered' = defered \o << d >> /\ tables' = tables
    BY <1>7, <2>1 DEF ParseIdentifier, Defer, scopeVars
  <2>3. currentScope \in Nat
    BY DEF BuildInv, ScopesInv, TablesInv, TablesFit
  <2>4. d \in DeferedCall /\ d.what = "find" /\ d.node = NewId
    BY <1>5, <2>1, <2>3, CallForms
  <2>5. Reads(d)
    BY <2>2, <2>4 DEF Reads
  <2>6. NewTyped(d.node)
    BY <1>0, <1>7, <2>4, ParseAddsOf, AddsOfStays DEF NewTyped
  <2> QED
    BY <1>1, <1>3, <1>4, <2>2, <2>4, <2>5, <2>6, OneOrdered
<1> QED
  BY <1>6, <1>7

LEMMA ExplicitOrders == ASSUME BuildInv, BeginExplicit PROVE \E ds : Orders(ds)
<1>0. Syntax /\ NodesInv
  BY DEF BuildInv
<1>1. Parse /\ Doing(BodyKinds)
  BY DEF Parse, BeginExplicit, InBody
<1>2. ~EndCall /\ ~EndInfix /\ ~EndVarDecl
  BY <1>1 DEF EndCall, EndInfix, EndVarDecl, Doing, BodyKinds
<1>3. \A n : Awaited(agenda, n) => Awaited(agenda', n)
  BY <1>0, <1>1, <1>2, AwaitedStays
<1>5. NewId \in Nat /\ agenda \in Seq(Item)
  BY <1>0 DEF Syntax, NewId
<1>6. PICK t \in Types : defered' = defered \o << CallType(NewId, t) >>
  BY DEF BeginExplicit, Defer
<1>7. PICK d : d = CallType(NewId, t)
  OBVIOUS
<1>8. d \in DeferedCall /\ d.what = "parse_type" /\ d.node = NewId
  BY <1>5, <1>7, CallForms
<1>9. Reads(d)
  BY <1>8 DEF Reads
<1>10. NewTyped(d.node)
  BY <1>0, <1>8, ParseAddsOf, AddsOfStays DEF NewTyped
<1>11. ASSUME NEW n, HeldAs(agenda', "explicit", n)
       PROVE HeldAs(agenda, "explicit", n) \/ n = d.node
  <2>1. agenda' = << ExprItem(0), NodeItem("explicit", NewId) >> \o agenda
    BY DEF BeginExplicit, Enter
  <2>2. PICK x, y : x = ExprItem(0) /\ y = NodeItem("explicit", NewId)
    OBVIOUS
  <2>3. x \in Item /\ y \in Item /\ x.what = "expr" /\ y.node = NewId
    BY <1>5, <2>2 DEF ExprItem, NodeItem, Item, LevelItem, HolderItem
  <2>4. agenda' = << x >> \o (<< y >> \o agenda) /\ << y >> \o agenda \in Seq(Item)
    BY <1>5, <2>1, <2>2, <2>3, PushedTwo
  <2>5. HeldAs(<< y >> \o agenda, "explicit", n)
    BY <1>11, <2>3, <2>4, HeldPush
  <2> QED
    BY <1>5, <1>8, <2>3, <2>5, HeldPush
<1> QED
  BY <1>1, <1>3, <1>6, <1>7, <1>8, <1>9, <1>10, <1>11, OneOrdered

(* A parser that ends answers for its own node only.                       *)
LEMMA EndsHeld ==
  ASSUME Syntax, agenda # << >>, agenda' = << >> \o Tail(agenda), NEW n
  PROVE /\ Awaited(agenda, n) =>
             Awaited(agenda', n) \/ (n = Head(agenda).node /\ Head(agenda).what \in Awaiting)
        /\ HeldAs(agenda', "explicit", n) => HeldAs(agenda, "explicit", n)
<1>1. agenda \in Seq(Item)
  BY DEF Syntax
<1>2. Tail(agenda) \in Seq(Item)
  BY <1>1
<1>3. agenda' = Tail(agenda)
  BY <1>2, PushedNone
<1>4. ASSUME Awaited(agenda, n)
      PROVE Awaited(agenda', n) \/ (n = Head(agenda).node /\ Head(agenda).what \in Awaiting)
  <2>1. PICK w \in Awaiting : HeldAs(agenda, w, n)
    BY <1>4 DEF Awaited
  <2>2. (Head(agenda).what = w /\ Head(agenda).node = n) \/ HeldAs(Tail(agenda), w, n)
    BY <1>1, <2>1, HeldTail
  <2> QED
    BY <1>3, <2>1, <2>2 DEF Awaited
<1>5. HeldAs(agenda', "explicit", n) => HeldAs(agenda, "explicit", n)
  BY <1>1, <1>3, HeldTail
<1> QED
  BY <1>4, <1>5

LEMMA AwaitedFree == ASSUME Syntax, NEW n, Awaited(agenda, n) PROVE Free(ast, n)
<1>1. PICK w \in Awaiting : HeldAs(agenda, w, n)
  BY DEF Awaited
<1>2. PICK i \in 1 .. Len(agenda) : agenda[i].what = w /\ agenda[i].node = n
  BY <1>1 DEF HeldAs
<1>3. ItemFits(ast, agenda[i])
  BY DEF Syntax, AgendaFits
<1> QED
  BY <1>2, <1>3 DEF ItemFits, Levelled, Awaiting

LEMMA ValueSettled ==
  ASSUME Syntax, agenda # << >>, Head(agenda).what \in Enders PROVE Settles(value)
<1>1. value \in 1 .. Len(ast) /\ ast[value].kind \in Operands /\ Older(agenda, value)
  BY ValueReady
<1>2. ~Held(agenda, value)
  BY <1>1, NotHeld
<1> QED
  BY <1>1, <1>2 DEF Settles, Operands, ValueKinds, Awaited, Awaiting, Held, Holders, Enders

LEMMA KidSettled ==
  ASSUME Syntax, NEW n \in 1 .. Len(ast), ast[n].kind # "fn", Len(ast[n].kids) > 0
  PROVE Settles(ast[n].kids[1])
<1>1. ast[n] \in TreeNode /\ KidsFit(ast, n)
  BY DEF Syntax, TreeFits, NodeFits
<1>2. ast[n].kids \in Seq(Nat)
  BY <1>1 DEF TreeNode
<1>3. 1 \in 1 .. Len(ast[n].kids)
  BY <1>2
<1>4. PICK k : k = ast[n].kids[1]
  OBVIOUS
<1>5. k \in 1 .. Len(ast) /\ ast[k].kind \in Operands
  BY <1>1, <1>3, <1>4 DEF KidsFit
<1>6. IsKid(ast, k, n, 1)
  BY <1>3, <1>4 DEF IsKid
<1>7. ~Awaited(agenda, k)
  BY <1>6, AwaitedFree DEF Free
<1> QED
  BY <1>4, <1>5, <1>7 DEF Settles, Operands, ValueKinds

LEMMA GivenNow ==
  ASSUME Syntax, NodesInv, EndInfix \/ (EndVarDecl /\ phase' # "threw")
  PROVE Given(ast, ast', Head(agenda).node, value) /\ NewTyped(0)
<1>1. AddsKid(Head(agenda).node)
  BY DEF EndInfix, EndVarDecl, Throw, StopAs, Doing, AddsKid, Enders
<1>2. Given(ast, ast', Head(agenda).node, value)
  BY <1>1, KidFitted
<1> QED
  BY <1>2 DEF Given, NewTyped

LEMMA InfixOrders == ASSUME BuildInv, EndInfix PROVE \E ds : Orders(ds)
<1>0. Syntax /\ NodesInv
  BY DEF BuildInv
<1>1. /\ Parse /\ agenda # << >> /\ Head(agenda).what \in {"right", "assign"}
      /\ agenda' = << >> \o Tail(agenda)
  BY DEF Parse, EndInfix, Doing, Replace
<1>2. PICK n : n = Head(agenda).node
  OBVIOUS
<1>3. n \in Nat /\ n \in 1 .. Len(ast) /\ ast[n].kind \in {"binary", "assign"}
  BY <1>0, <1>1, <1>2, HeadNode DEF Levelled, KindOf
<1>4. PICK d : d = Call(ast[n].kind, n)
  OBVIOUS
<1>5. defered' = defered \o << d >>
  BY <1>2, <1>4 DEF EndInfix, Defer
<1>6. d \in DeferedCall /\ d.what \in {"binary", "assign"} /\ d.node = n
  BY <1>3, <1>4, CallForms
<1>7. Given(ast, ast', n, value) /\ NewTyped(0)
  BY <1>0, <1>2, GivenNow
<1>8. Len(ast[n].kids) = 1
  <2>1. agenda \in Seq(Item) /\ 1 \in 1 .. Len(agenda) /\ Head(agenda) = agenda[1]
    BY <1>0, <1>1 DEF Syntax
  <2>2. ItemFits(ast, agenda[1])
    BY <1>0, <2>1 DEF Syntax, AgendaFits
  <2> QED
    BY <1>1, <1>2, <2>1, <2>2 DEF ItemFits, Levelled
<1>9. ast'[n].kids[1] = ast[n].kids[1]
  <2>1. ast[n] \in TreeNode
    BY <1>0, <1>3 DEF Syntax
  <2>2. ast[n].kids \in Seq(Nat)
    BY <2>1 DEF TreeNode
  <2>3. PICK ks : ks = ast[n].kids \o << value >>
    OBVIOUS
  <2>4. ks[1] = ast[n].kids[1]
    <3>1. 1 \in 1 .. Len(ast[n].kids)
      BY <1>8
    <3> QED
      BY <2>2, <2>3, <3>1, AppendedAny
  <2> QED
    BY <1>7, <2>3, <2>4 DEF Given
<1>10. Settles(ast'[d.node].kids[1])
  BY <1>0, <1>3, <1>6, <1>8, <1>9, KidSettled
<1>11. Reads(d)
  BY <1>6, <1>10 DEF Reads
<1>12. NewTyped(d.node)
  BY <1>7 DEF NewTyped, Given
<1>13. \A k : Awaited(agenda, k) => Awaited(agenda', k) \/ k = d.node
  BY <1>0, <1>1, <1>2, <1>6, EndsHeld
<1>14. \A k : HeldAs(agenda', "explicit", k) => HeldAs(agenda, "explicit", k) \/ k = d.node
  BY <1>0, <1>1, EndsHeld
<1> QED
  BY <1>1, <1>5, <1>6, <1>11, <1>12, <1>13, <1>14, OneOrdered

LEMMA VarDeclOrders ==
  ASSUME BuildInv, EndVarDecl, phase' # "threw" PROVE \E ds : Orders(ds)
<1>0. Syntax /\ NodesInv
  BY DEF BuildInv
<1>1. /\ Parse /\ agenda # << >> /\ Head(agenda).what \in {"explicit", "inferred"}
      /\ agenda' = << >> \o Tail(agenda)
  BY DEF Parse, EndVarDecl, Throw, StopAs, Doing, Replace
<1>2. PICK n : n = Head(agenda).node
  OBVIOUS
<1>3. n \in Nat /\ n \in 1 .. Len(ast) /\ ast[n].kind = "let"
  BY <1>0, <1>1, <1>2, HeadNode DEF Levelled, KindOf
<1>7. Given(ast, ast', n, value) /\ NewTyped(0)
  BY <1>0, <1>2, GivenNow
<1>8. \A k : /\ Awaited(agenda, k) => Awaited(agenda', k) \/ (k = n /\ Head(agenda).what \in Awaiting)
             /\ HeldAs(agenda', "explicit", k) => HeldAs(agenda, "explicit", k)
  BY <1>0, <1>1, <1>2, EndsHeld
<1>9. CASE Head(agenda).what = "explicit"
  <2>1. defered' = defered
    BY <1>9 DEF EndVarDecl, Throw, StopAs
  <2> QED
    BY <1>1, <1>7, <1>8, <1>9, <2>1, EmptyOrders DEF Awaiting
<1>10. CASE Head(agenda).what = "inferred"
  <2>1. PICK d : d = Call("let", n)
    OBVIOUS
  <2>2. defered' = defered \o << d >>
    BY <1>2, <1>10, <2>1 DEF EndVarDecl, Defer, Throw, StopAs
  <2>3. d \in DeferedCall /\ d.what = "let" /\ d.node = n
    BY <1>3, <2>1, CallForms
  <2>4. ast[n].kids = << >>
    <3>1. agenda \in Seq(Item) /\ 1 \in 1 .. Len(agenda) /\ Head(agenda) = agenda[1]
      BY <1>0, <1>1 DEF Syntax
    <3>2. ItemFits(ast, agenda[1])
      BY <1>0, <3>1 DEF Syntax, AgendaFits
    <3> QED
      BY <1>1, <1>2, <3>1, <3>2 DEF ItemFits, Levelled
  <2>5. ast'[n].kids[1] = value
    BY <1>7, <2>4, AppendedAny DEF Given
  <2>6. Settles(value)
    BY <1>0, <1>1, ValueSettled DEF Enders
  <2>7. Reads(d)
    BY <2>3, <2>5, <2>6 DEF Reads
  <2>8. NewTyped(d.node)
    BY <1>7 DEF NewTyped, Given
  <2> QED
    BY <1>1, <1>8, <2>2, <2>3, <2>7, <2>8, OneOrdered
<1> QED
  BY <1>1, <1>9, <1>10

LEMMA CallOrders == ASSUME BuildInv, EndCall PROVE \E ds : Orders(ds)
<1>0. Syntax /\ NodesInv /\ CallsInv
  BY DEF BuildInv
<1>1. /\ Parse /\ agenda # << >> /\ Head(agenda).what = "call" /\ agenda' = << >> \o Tail(agenda)
      /\ ast' = ast
  BY DEF Parse, EndCall, Doing, Replace
<1>2. PICK n : n = Head(agenda).node
  OBVIOUS
<1>3. n \in Nat
  BY <1>0, <1>1, <1>2, HeadNode DEF Levelled
<1>4. PICK c, d : c = Call("callee", n) /\ d = Call("call", n)
  OBVIOUS
<1>5. c \in DeferedCall /\ d \in DeferedCall /\ c.what = "callee" /\ d.what = "call" /\ d.node = n
  BY <1>3, <1>4, CallForms, Zenon
<1>6. PICK ds : ds = << c, d >>
  OBVIOUS
<1>7. /\ ds \in Seq(DeferedCall) /\ defered \in Seq(DeferedCall) /\ Len(ds) = 2
      /\ ds[1] = c /\ ds[2] = d
  BY <1>0, <1>5, <1>6 DEF CallsInv
<1>8. defered' = defered \o ds
  BY <1>2, <1>4, <1>6 DEF EndCall, Defer
<1>9. SetsType(ds, 2, n)
  BY <1>5, <1>7 DEF SetsType
<1>10. Joins(ds)
  BY <1>0, <1>1, <1>7, <1>8, TypesStays DEF Joins
<1>11. AwaitsOn(ds)
  BY <1>0, <1>1, <1>2, <1>9, EndsHeld DEF AwaitsOn
<1>12. AddsTyped(ds)
  BY <1>1 DEF AddsTyped
<1>13. ExplicitOn(ds)
  BY <1>0, <1>1, EndsHeld DEF ExplicitOn
<1>14. ReadsOn(ds)
  <2>1. \A i \in 1 .. Len(ds) : ds[i] \in {c, d}
    BY <1>7
  <2> QED
    BY <1>5, <2>1 DEF ReadsOn
<1> QED
  BY <1>10, <1>11, <1>12, <1>13, <1>14 DEF Orders

LEMMA FunctionOrders ==
  ASSUME BuildInv, BeginFunction, phase' # "threw" PROVE \E ds : Orders(ds)
<1>0. Syntax /\ NodesInv /\ CallsInv
  BY DEF BuildInv
<1>1. PICK h \in Headers : ParseFunction(h.name, h.params, h.ret, h.ext)
  BY DEF BeginFunction
<1>2. PICK p : p = h.params
  OBVIOUS
<1>3. PICK ds : ds = [i \in 1 .. Len(p) |-> CallType(NewId + i, p[i][2])]
  OBVIOUS
<1>4. AddsFunction(h) /\ defered' = defered \o ds /\ agenda = << >>
  BY <1>1, <1>2, <1>3 DEF ParseFunction, AddsFunction, Defer, Throw, StopAs
<1>5. Planted(ast, ast', h.name, p, h.ret)
  BY <1>0, <1>2, <1>4, FunctionFitted
<1>6. /\ p \in Seq(VarNames \X Types) /\ Len(p) \in Nat /\ Len(ast) \in Nat /\ NewId = Len(ast) + 1
      /\ defered \in Seq(DeferedCall)
  BY <1>0, <1>2, HeadersAssumption DEF Syntax, NewId, CallsInv
<1>7. \A i \in 1 .. Len(p) : NewId + i \in Nat /\ p[i][2] \in Types
  BY <1>6
<1>8. /\ ds \in Seq(DeferedCall) /\ Len(ds) = Len(p)
      /\ \A i \in 1 .. Len(p) : ds[i] = CallType(NewId + i, p[i][2])
  <2> DEFINE es == [i \in 1 .. Len(p) |-> CallType(NewId + i, p[i][2])]
  <2>1. /\ es \in Seq(DeferedCall) /\ Len(es) = Len(p)
        /\ \A i \in 1 .. Len(p) : es[i] = CallType(NewId + i, p[i][2])
    BY <1>6, <1>7, CallForms
  <2> QED
    BY <1>3, <2>1
<1>9. \A i \in 1 .. Len(p) : ds[i].what = "parse_type" /\ ds[i].node = NewId + i
  BY <1>7, <1>8, CallForms
<1>10. Joins(ds)
  BY <1>0, <1>4, <1>6, <1>8, TypesStays DEF Joins, Parse
<1>11. AwaitsOn(ds)
  <2>1. Len(agenda) = 0
    BY <1>4
  <2>2. \A n : ~Awaited(agenda, n)
    BY <2>1 DEF Awaited, HeldAs
  <2> QED
    BY <2>2 DEF AwaitsOn
<1>12. AddsTyped(ds)
  <2>1. ASSUME NEW n \in 1 .. Len(ast'), n \notin 1 .. Len(ast), ast'[n].kind \in ValueKinds
        PROVE \E i : SetsType(ds, i, n)
    <3>1. n \in 1 .. (Len(ast) + 1 + Len(p))
      BY <1>5, <2>1 DEF Planted
    <3>2. n = Len(ast) + 1 \/ \E i \in 1 .. Len(p) : n = Len(ast) + 1 + i
      BY <1>6, <2>1, <3>1, Split
    <3>3. n # Len(ast) + 1
      BY <1>5, <2>1 DEF Planted, ValueKinds
    <3>4. PICK i \in 1 .. Len(p) : n = Len(ast) + 1 + i
      BY <3>2, <3>3
    <3>5. ds[i].what # "callee" /\ ds[i].node = n
      BY <1>6, <1>9, <3>4
    <3> QED
      BY <1>8, <3>4, <3>5 DEF SetsType
  <2> QED
    BY <2>1 DEF AddsTyped
<1>13. ExplicitOn(ds)
  <2>1. Parse /\ ~BeginExplicit /\ ~EndVarDecl
    BY <1>4 DEF Parse, BeginExplicit, EndVarDecl, InBody, Doing
  <2> QED
    BY <1>0, <2>1, QuietHeld, ParseTurns DEF ExplicitOn
<1>14. ReadsOn(ds)
  BY <1>8, <1>9 DEF ReadsOn
<1> QED
  BY <1>10, <1>11, <1>12, <1>13, <1>14 DEF Orders

LEMMA ParseOrders ==
  ASSUME BuildInv, Parse, phase' # "threw" PROVE \E ds : Orders(ds)
<1>1. CASE EndFunction \/ ParseArgument \/ EndArgument \/ EndExpression \/ EndRet
           \/ ParseIfBody \/ EndIf \/ BeginExprStatement \/ EndOfFile
  BY <1>1, PlainOrders
<1>2. CASE ParseOtherLiteral \/ BeginCall \/ ParseOperator \/ ParseAssignment
           \/ BeginInferred \/ BeginRet \/ BeginIf
  BY <1>2, MakingOrders
<1>3. CASE ParseInteger \/ ParseIdentifier
  BY <1>3, MakingOrders, LeavesOrder
<1> QED
  BY <1>1, <1>2, <1>3, ExplicitOrders, InfixOrders, VarDeclOrders, CallOrders, FunctionOrders
         DEF Parse

(* Parameters are in a table from the start.                               *)

(* Parameters are in a table from the start.                               *)
LEMMA SymOr ==
  ASSUME NEW T \in Seq(Table), NEW s, NEW n, NEW d, NEW U, U = WithSymbol(T, s, n, d),
         NEW r \in 1 .. Len(T), NEW m \in AllNames
  PROVE Sym(U, r, m) = Sym(T, r, m) \/ Sym(U, r, m) = d
<1>1. T[r] \in Table
  OBVIOUS
<1>2. U = [T EXCEPT ![s].symbols[n] = d]
  BY DEF WithSymbol
<1>3. CASE r # s
  <2>1. U[r] = T[r]
    BY <1>2, <1>3
  <2> QED
    BY <2>1 DEF Sym
<1>4. CASE r = s
  <2>1. U[r] = [T[r] EXCEPT !.symbols[n] = d]
    BY <1>2, <1>4
  <2>2. U[r].symbols = [T[r].symbols EXCEPT ![n] = d]
    BY <1>1, <2>1 DEF Table
  <2>3. T[r].symbols \in [AllNames -> Nat]
    BY <1>1 DEF Table
  <2>4. U[r].symbols[m] = T[r].symbols[m] \/ U[r].symbols[m] = d
    BY <2>2, <2>3
  <2> QED
    BY <2>4 DEF Sym
<1> QED
  BY <1>3, <1>4

LEMMA AppendKeeps ==
  ASSUME NEW S, NEW T \in Seq(S), NEW x
  PROVE \A r \in 1 .. Len(T) : Append(T, x)[r] = T[r]
<1>1. PICK R : R = S \cup {x}
  OBVIOUS
<1>2. T \in Seq(R) /\ x \in R
  BY <1>1
<1> QED
  BY <1>2

LEMMA ArgsStayBy ==
  ASSUME NEW d, ast'[d].kind # "arg",
         \A r \in 1 .. Len(tables) : \A m \in AllNames :
           Sym(tables', r, m) = Sym(tables, r, m) \/ Sym(tables', r, m) = d
  PROVE ArgsStay
<1>1. ASSUME NEW r \in 1 .. Len(tables), NEW n, NEW k, IsSym(tables', r, n, k), ast'[k].kind = "arg"
      PROVE IsSym(tables, r, n, k)
  <2>1. Sym(tables', r, n) = k /\ n \in AllNames /\ k # 0
    BY <1>1 DEF IsSym
  <2>2. k # d
    BY <1>1
  <2> QED
    BY <2>1, <2>2 DEF IsSym
<1> QED
  BY <1>1 DEF ArgsStay

LEMMA ArgsStays == ASSUME BuildInv, Parse, phase' # "threw" PROVE ArgsStay
<1>0. Syntax /\ NodesInv /\ tables \in Seq(Table)
  BY DEF BuildInv, TablesInv, TablesFit
<1>1. CASE tables' = tables
  BY <1>1 DEF ArgsStay
<1>2. CASE EndFunction
  <2>1. PICK n : n = Head(agenda).node
    OBVIOUS
  <2>2. ast[n].kind = "fn" /\ ast' = ast
    BY <1>0, <1>2, <2>1, HeadNode DEF EndFunction, Doing, Levelled, KindOf
  <2>3. tables' = WithSymbol(tables, tables[currentScope].parent, ast[n].name, n)
    BY <1>2, <2>1 DEF EndFunction
  <2>4. ast'[n].kind # "arg"
    BY <2>2
  <2> QED
    BY <1>0, <2>3, <2>4, SymOr, ArgsStayBy
<1>3. CASE EndVarDecl
  <2>1. PICK n : n = Head(agenda).node
    OBVIOUS
  <2>2. n \in 1 .. Len(ast) /\ ast[n].kind = "let"
    BY <1>0, <1>3, <2>1, HeadNode DEF EndVarDecl, Doing, Levelled, KindOf
  <2>3. tables' = WithSymbol(tables, currentScope, ast[n].name, n)
    BY <1>3, <2>1 DEF EndVarDecl, Throw, StopAs
  <2>4. ast'[n].kind # "arg"
    <3>1. Given(ast, ast', n, value)
      BY <1>0, <1>3, <2>1, GivenNow
    <3> QED
      BY <2>2, <3>1 DEF Given, Extends
  <2> QED
    BY <1>0, <2>3, <2>4, SymOr, ArgsStayBy
<1>4. CASE ParseIfBody
  <2>1. PICK x : tables' = Append(tables, x)
    BY <1>4 DEF ParseIfBody
  <2>2. \A r \in 1 .. Len(tables) : \A m : Sym(tables', r, m) = Sym(tables, r, m)
    <3>0. \A r \in 1 .. Len(tables) : Append(tables, x)[r] = tables[r]
      BY <1>0, AppendKeeps, Zenon
    <3>1. \A r \in 1 .. Len(tables) : tables'[r] = tables[r]
      BY <2>1, <3>0, Zenon
    <3> QED
      BY <3>1 DEF Sym
  <2> QED
    BY <2>2 DEF ArgsStay, IsSym
<1>5. CASE BeginFunction
  <2>1. PICK h \in Headers : ParseFunction(h.name, h.params, h.ret, h.ext)
    BY <1>5 DEF BeginFunction
  <2>2. AddsFunction(h)
    BY <2>1 DEF ParseFunction, AddsFunction, Throw, StopAs
  <2>3. Planted(ast, ast', h.name, h.params, h.ret)
    BY <1>0, <2>2, FunctionFitted
  <2>4. ast'[NewId].kind # "arg"
    BY <2>3 DEF Planted, NewId
  <2>5. PICK T : /\ T = tables \/ T = WithSymbol(tables, currentScope, h.name, NewId)
                 /\ tables' = Append(T, ParameterTable(h.params))
    BY <2>1 DEF ParseFunction, Throw, StopAs
  <2>6. Len(T) = Len(tables) /\ \E S : T \in Seq(S)
    <3>1. CASE T = tables
      BY <1>0, <3>1
    <3>2. CASE T = WithSymbol(tables, currentScope, h.name, NewId)
      <4>1. T \in Seq({T[r] : r \in 1 .. Len(tables)})
        BY <1>0, <3>2, SymbolScopes
      <4>2. Len(T) = Len(tables)
        BY <1>0, <3>2 DEF WithSymbol
      <4> QED
        BY <4>1, <4>2
    <3> QED
      BY <2>5, <3>1, <3>2
  <2>7. ASSUME NEW r \in 1 .. Len(tables), NEW m \in AllNames
        PROVE Sym(tables', r, m) = Sym(tables, r, m) \/ Sym(tables', r, m) = NewId
    <3>1. Sym(tables', r, m) = Sym(T, r, m)
      <4>1. r \in 1 .. Len(T)
        BY <2>6
      <4>5. \A x : Append(T, x)[r] = T[r]
        BY <2>6, <4>1, AppendKeeps, Zenon
      <4>2. tables'[r] = T[r]
        BY <2>5, <4>5, Zenon
      <4> QED
        BY <4>2 DEF Sym
    <3> QED
      BY <1>0, <2>5, <3>1, SymOr
  <2> QED
    BY <2>4, <2>7, ArgsStayBy
<1>6. BeginFunction \/ ParseIfBody \/ EndFunction \/ EndVarDecl \/ tables' = tables
  <2>1. Syntax /\ TrailInv
    BY DEF BuildInv
  <2> QED
    BY <2>1, ParseForms DEF LeavesOther
<1> QED
  BY <1>1, <1>2, <1>3, <1>4, <1>5, <1>6

LEMMA ParseOrdered ==
  ASSUME BuildInv, BindingInv, BindingInv', Parse, phase' # "threw", Ordered PROVE Ordered'
<1>1. PICK ds : Orders(ds)
  BY ParseOrders
<1>2. Joins(ds) /\ AwaitsOn(ds) /\ AddsTyped(ds) /\ ExplicitOn(ds) /\ ReadsOn(ds)
  BY <1>1 DEF Orders
<1>3. /\ Syntax /\ NodesInv /\ TrailInv /\ TablesInv /\ CallsInv
  BY DEF BuildInv
<1>4. Extends(ast, ast') /\ Steady
  BY <1>3, ParseSafe, ParseNodes DEF SyntaxKept
<1>5. ArgsStay
  BY ArgsStays
<1>6. trail' = trail \/ \E e : trail' = Append(trail, e)
  BY <1>3, ParseTrails DEF Trails
<1>7. \A i, m : IsCall(defered, i, "find", m) => \E q : Leaves(trail, q, m)
  BY DEF BindingInv, FindsFit
<1>8. LeftOnce(trail')
  BY DEF BindingInv, Bound
<1>9. /\ ValuesTyped(agenda, defered, types, ast) /\ ExplicitTyped(agenda, defered, types)
      /\ LiteralsRead(defered, types) /\ OperandsRead(defered, types, ast)
      /\ LetsRead(defered, types, ast, trail) /\ ArgsRead(defered, types, ast, tables)
  BY DEF Ordered
<1>10. ValuesTyped(agenda', defered', types', ast')
  BY <1>2, <1>4, <1>9, ValuesKept
<1>11. ExplicitTyped(agenda', defered', types')
  BY <1>2, <1>3, <1>9, ExplicitKept
<1>12. LiteralsRead(defered', types')
  BY <1>2, <1>3, <1>9, LiteralsKept
<1>13. OperandsRead(defered', types', ast')
  BY <1>2, <1>3, <1>4, <1>9, OperandsReadOn
<1>14. LetsRead(defered', types', ast', trail')
  BY <1>2, <1>3, <1>4, <1>6, <1>7, <1>8, <1>9, LetsKept
<1>15. ArgsRead(defered', types', ast', tables')
  BY <1>2, <1>3, <1>4, <1>5, <1>9, ArgsKept
<1> QED
  BY <1>10, <1>11, <1>12, <1>13, <1>14, <1>15 DEF Ordered

-----------------------------------------------------------------------------
(* A name that is looked up is found in a table.                           *)
LEMMA FoundIn ==
  ASSUME NEW t, NEW T, TablesFit(t, T), NEW n \in AllNames, NEW s \in 1 .. Len(T),
         find_base(T, s, n) # 0
  PROVE \E r \in 1 .. s : IsSym(T, r, n, find_base(T, s, n))
<1> DEFINE F(x) == find_base(T, x, n)
            In(x) == \E r \in 1 .. x : IsSym(T, r, n, F(x))
            Bad == {x \in 1 .. Len(T) : F(x) # 0 /\ ~In(x)}
<1>1. Len(T) \in Nat
  BY DEF TablesFit
<1>2. CASE Bad # {}
  <2>1. PICK x \in Bad : \A y \in Bad : x <= y
    <3>1. Bad \subseteq Nat
      BY <1>1
    <3> HIDE DEF Bad
    <3> QED
      BY <1>2, <3>1, LeastScope
  <2>2. x \in 1 .. Len(T) /\ F(x) # 0 /\ ~In(x)
    OBVIOUS
  <2>3. PICK y : y = T[x].parent
    OBVIOUS
  <2>4. y \in 0 .. (x - 1) /\ y \in 0 .. Len(T)
    BY <2>2, <2>3, TableRange
  <2>5. F(x) = (IF T[x].symbols[n] # 0 THEN T[x].symbols[n] ELSE F(y))
    BY <1>1, <2>2, <2>3, LooksUp
  <2>6. CASE T[x].symbols[n] # 0
    <3>1. IsSym(T, x, n, F(x))
      BY <2>2, <2>5, <2>6 DEF IsSym, Sym
    <3>2. x \in 1 .. x
      BY <1>1, <2>2
    <3> QED
      BY <2>2, <3>1, <3>2
  <2>7. CASE T[x].symbols[n] = 0
    <3>1. F(x) = F(y)
      BY <2>5, <2>7
    <3>2. F(0) = 0
      BY <1>1, LooksUp
    <3>3. y # 0
      BY <2>2, <3>1, <3>2
    <3>4. y \in 1 .. Len(T) /\ y < x
      BY <1>1, <2>2, <2>4, <3>3
    <3>5. y \notin Bad
      BY <1>1, <2>1, <2>2, <3>4
    <3>6. In(y)
      BY <2>2, <3>1, <3>4, <3>5
    <3>7. PICK r \in 1 .. y : IsSym(T, r, n, F(y))
      BY <3>6
    <3>8. r \in 1 .. x
      BY <1>1, <2>2, <3>4, <3>7
    <3>9. IsSym(T, r, n, F(x))
      BY <3>1, <3>7
    <3> QED
      BY <2>2, <3>8, <3>9
  <2> QED
    BY <2>6, <2>7
<1>3. CASE Bad = {}
  <2>1. s \notin Bad
    BY <1>3
  <2> QED
    BY <2>1
<1> QED
  BY <1>2, <1>3

(* Where an identifier is looked up, and what it means.                    *)
LEMMA NodeMeant ==
  ASSUME BuildInv, NEW n \in 1 .. Len(ast), ast[n].kind = "identifier"
  PROVE \E i : /\ IsCall(defered, i, "find", n) /\ Binding(n) = Meant(i)
               /\ Meant(i) = find_base(tables, defered[i].of, ast[n].name)
               /\ defered[i].of \in 1 .. Len(tables) /\ ast[n].name \in AllNames
               /\ Binding(n) \in 0 .. Len(ast)
<1>1. CallsInv /\ NodesInv
  BY DEF BuildInv
<1>2. PICK i : IsCall(defered, i, "find", n)
  BY <1>1 DEF CallsInv
<1>3. i \in 1 .. Len(defered) /\ defered[i].node = n /\ defered[i].what = "find"
  BY <1>2 DEF IsCall
<1>4. CallFits(defered[i], ast, tables)
  BY <1>1, <1>3 DEF CallsInv
<1>5. defered[i].of \in 1 .. Len(tables)
  BY <1>3, <1>4 DEF CallFits
<1>6. ast[n].name \in AllNames
  BY <1>1 DEF NodesInv, NameFits
<1>7. Binding(n) = Meant(i)
  BY <1>2, BindingFound
<1>8. Meant(i) = find_base(tables, defered[i].of, ast[n].name)
  BY <1>3 DEF Meant
<1>9. Meant(i) \in 0 .. Len(ast)
  <2>1. Meant(i) \in Nat /\ (Meant(i) # 0 => Meant(i) \in 1 .. Len(ast))
    BY <1>5, <1>6, <1>8, NameFound
  <2>2. Len(ast) \in Nat
    BY DEF BuildInv, Syntax
  <2> QED
    BY <2>1, <2>2
<1> QED
  BY <1>2, <1>5, <1>6, <1>7, <1>8, <1>9

(* After the parse it does not change which names are premature.           *)
LEMMA PrematureSame == ASSUME BuildInv, Later PROVE SomePremature' <=> SomePremature
<1>1. /\ Extends(ast, ast') /\ Len(ast') = Len(ast) /\ trail' = trail /\ tables' = tables
      /\ defered' = defered
  BY DEF Later, SyntaxKept
<1>2. NodesOf("identifier")' = NodesOf("identifier")
  BY <1>1 DEF NodesOf, Extends
<1>3. ASSUME NEW n \in NodesOf("identifier") PROVE Premature(n)' <=> Premature(n)
  <2>1. n \in 1 .. Len(ast) /\ ast[n].kind = "identifier"
    BY DEF NodesOf
  <2>2. Binding(n) \in 0 .. Len(ast)
    BY <2>1, NodeMeant
  <2>3. LookedUpIn(n)' = LookedUpIn(n)
    BY <1>1 DEF LookedUpIn
  <2>4. ast'[n].name = ast[n].name
    BY <1>1, <2>1 DEF Extends
  <2>5. Binding(n)' = Binding(n)
    BY <1>1, <2>3, <2>4 DEF Binding
  <2>7. CASE Binding(n) = 0
    BY <2>5, <2>7 DEF Premature
  <2>8. CASE Binding(n) \in 1 .. Len(ast)
    <3>1. ast'[Binding(n)].kind = ast[Binding(n)].kind
      BY <1>1, <2>8 DEF Extends
    <3>2. LeftAt(Binding(n))' = LeftAt(Binding(n)) /\ LeftAt(n)' = LeftAt(n)
      BY <1>1, <2>5 DEF LeftAt
    <3> QED
      BY <2>5, <3>1, <3>2, Zenon DEF Premature
  <2> QED
    BY <2>2, <2>7, <2>8
<1> QED
  BY <1>2, <1>3 DEF SomePremature

(* What a name means that is not premature: a parameter, or a variable     *)
(* that is left before the name is.                                        *)
LEMMA MeantReady ==
  ASSUME BuildInv, BindingInv, ~SomePremature, NEW i, NEW n, IsCall(defered, i, "find", n)
  PROVE /\ Meant(i) \in 1 .. Len(ast) /\ ast[Meant(i)].kind \in {"let", "arg"}
        /\ Meant(i) = find_base(tables, defered[i].of, ast[n].name)
        /\ \E r \in 1 .. defered[i].of : IsSym(tables, r, ast[n].name, Meant(i))
        /\ ast[Meant(i)].kind = "let" =>
             \E q : Leaves(trail, q, n) /\ LeftBefore(trail, q, Meant(i))
<1>1. CallsInv /\ NodesInv /\ TablesFit(ast, tables)
  BY DEF BuildInv, TablesInv
<1>2. i \in 1 .. Len(defered) /\ defered[i].node = n /\ defered[i].what = "find"
  BY DEF IsCall
<1>3. CallFits(defered[i], ast, tables)
  BY <1>1, <1>2 DEF CallsInv
<1>4. n \in 1 .. Len(ast) /\ ast[n].kind = "identifier" /\ defered[i].of \in 1 .. Len(tables)
  BY <1>2, <1>3 DEF CallFits, CallKinds
<1>5. ast[n].name \in AllNames
  BY <1>1, <1>4 DEF NodesInv, NameFits
<1>6. PICK d : d = Meant(i)
  OBVIOUS
<1>7. d = Binding(n)
  BY <1>6, BindingFound
<1>8. d = find_base(tables, defered[i].of, ast[n].name)
  BY <1>2, <1>6 DEF Meant
<1>9. ~Premature(n)
  BY <1>4 DEF SomePremature, NodesOf
<1>10. d # 0 /\ ast[d].kind # "fn" /\ ~(ast[d].kind = "let" /\ LeftAt(d) > LeftAt(n))
  BY <1>7, <1>9, Zenon DEF Premature
<1>11. PICK r \in 1 .. defered[i].of : IsSym(tables, r, ast[n].name, d)
  BY <1>1, <1>4, <1>5, <1>8, <1>10, FoundIn
<1>12. d \in 1 .. Len(ast) /\ ast[d].kind \in {"fn", "arg", "let"}
  BY <1>1, <1>11, SymNode
<1>13. ASSUME ast[d].kind = "let"
       PROVE \E q : Leaves(trail, q, n) /\ LeftBefore(trail, q, d)
  <2>1. PICK h : Bound(h, trail, ast, tables) /\ FindsFit(h, trail, defered)
    BY DEF BindingInv
  <2>2. PICK q : Leaves(trail, q, n)
    BY <2>1 DEF FindsFit
  <2>3. LeftOnce(trail) /\ LetsFound(h, trail, ast, tables)
    BY <2>1 DEF Bound
  <2>4. PICK p : Leaves(trail, p, d)
    BY <1>11, <1>13, <2>3 DEF LetsFound
  <2>5. \A m, k : Leaves(trail, k, m) => LeftAt(m) = k
    <3>1. ASSUME NEW m, NEW k, Leaves(trail, k, m) PROVE LeftAt(m) = k
      <4>1. \A j : j \in 1 .. Len(trail) /\ trail[j].step = "leave" /\ trail[j].node = m <=> j = k
        BY <2>3, <3>1 DEF LeftOnce, Leaves
      <4> QED
        BY <4>1 DEF LeftAt
    <3> QED
      BY <3>1
  <2>6. LeftAt(d) = p /\ LeftAt(n) = q
    BY <2>2, <2>4, <2>5
  <2>7. ~(p > q)
    BY <1>10, <1>13, <2>6
  <2>8. p # q
    BY <1>4, <1>13, <2>2, <2>4 DEF Leaves
  <2>9. p \in 1 .. Len(trail) /\ q \in 1 .. Len(trail) /\ Len(trail) \in Nat
    BY <1>1, <2>2, <2>4 DEF Leaves, BuildInv, TrailInv
  <2>10. p \in 1 .. (q - 1)
    BY <2>7, <2>8, <2>9
  <2> QED
    BY <2>2, <2>4, <2>10 DEF LeftBefore
<1> QED
  BY <1>6, <1>8, <1>10, <1>11, <1>12, <1>13

-----------------------------------------------------------------------------
(* A step of the loop over the calls.                                      *)

(* No type is lost.                                                        *)
Keeps == \A n \in 1 .. Len(ast) : types[n] # "null" => types'[n] # "null"

LEMMA TypedKeeps ==
  ASSUME Keeps, NEW n \in 1 .. Len(ast), NEW k, TypedBy(defered, types, k, n)
  PROVE TypedBy(defered, types', k, n)
BY DEF Keeps, TypedBy

LEMMA OrderedKept ==
  ASSUME BuildInv, Later, agenda = << >>, Keeps, Ordered PROVE Ordered'
<1>1. /\ Extends(ast, ast') /\ Len(ast') = Len(ast) /\ trail' = trail /\ tables' = tables
      /\ defered' = defered /\ agenda' = agenda
      /\ \A m \in 1 .. Len(ast) : ast'[m].kids = ast[m].kids
  BY DEF Later, SyntaxKept, parserVars
<1>2. /\ CallsInv /\ NodesInv /\ TablesFit(ast, tables) /\ TreeFits(ast) /\ Len(ast) \in Nat
  BY DEF BuildInv, TablesInv, Syntax
<1>3. \A n \in 1 .. Len(ast) : ast'[n].kind = ast[n].kind
  BY <1>1 DEF Extends
<1>4. ASSUME NEW i \in 1 .. Len(defered) PROVE CallFits(defered[i], ast, tables)
  BY <1>2 DEF CallsInv
<1>5. ValuesTyped(agenda', defered', types', ast')
  <2>1. ASSUME NEW n \in 1 .. Len(ast), ast[n].kind \in ValueKinds
        PROVE Awaited(agenda, n) \/ TypedBy(defered, types', Len(defered), n)
    <3>1. Awaited(agenda, n) \/ TypedBy(defered, types, Len(defered), n)
      BY <2>1 DEF Ordered, ValuesTyped
    <3> QED
      BY <3>1, TypedKeeps
  <2> QED
    BY <1>1, <1>3, <2>1 DEF ValuesTyped
<1>6. ExplicitTyped(agenda', defered', types')
  BY <1>1 DEF ExplicitTyped, HeldAs
<1>7. LiteralsRead(defered', types')
  <2>1. ASSUME NEW i \in 1 .. Len(defered), defered[i].what = "literal"
        PROVE TypedBy(defered, types', i - 1, defered[i].of)
    <3>1. defered[i].of \in 1 .. Len(ast)
      BY <1>4, <2>1 DEF CallFits, IsNode
    <3>2. TypedBy(defered, types, i - 1, defered[i].of)
      BY <2>1 DEF Ordered, LiteralsRead
    <3> QED
      BY <3>1, <3>2, TypedKeeps
  <2> QED
    BY <1>1, <2>1 DEF LiteralsRead
<1>8. OperandsRead(defered', types', ast')
  <2>1. ASSUME NEW i \in 1 .. Len(defered), defered[i].what \in {"binary", "assign", "let"}
        PROVE TypedBy(defered, types', i - 1, ast'[defered[i].node].kids[1])
    <3>1. defered[i].node \in 1 .. Len(ast) /\ Len(ast[defered[i].node].kids) > 0
      BY <1>4, <2>1 DEF CallFits
    <3>2. ast[defered[i].node].kids[1] \in 1 .. Len(ast)
      BY <3>1, FirstKid
    <3>3. TypedBy(defered, types, i - 1, ast[defered[i].node].kids[1])
      BY <2>1 DEF Ordered, OperandsRead
    <3>4. ast'[defered[i].node].kids = ast[defered[i].node].kids
      BY <1>1, <3>1
    <3> QED
      BY <3>2, <3>3, <3>4, TypedKeeps
  <2> QED
    BY <1>1, <2>1 DEF OperandsRead
<1>9. LetsRead(defered', types', ast', trail')
  <2>1. ASSUME NEW i, NEW m, NEW q, NEW d, IsCall(defered, i, "find", m), Leaves(trail, q, m),
               d \in 1 .. Len(ast), ast[d].kind = "let", LeftBefore(trail, q, d)
        PROVE TypedBy(defered, types', i - 1, d)
    <3>1. LetsRead(defered, types, ast, trail)
      BY DEF Ordered
    <3>2. TypedBy(defered, types, i - 1, d)
      BY <2>1, <3>1 DEF LetsRead
    <3> QED
      BY <2>1, <3>2, TypedKeeps
  <2> QED
    BY <1>1, <1>3, <2>1 DEF LetsRead
<1>10. ArgsRead(defered', types', ast', tables')
  <2>1. ASSUME NEW i, NEW m, NEW s, NEW n, NEW d, IsCall(defered, i, "find", m),
               s <= defered[i].of, IsSym(tables, s, n, d), ast'[d].kind = "arg"
        PROVE TypedBy(defered, types', i - 1, d)
    <3>1. ArgsRead(defered, types, ast, tables)
      BY DEF Ordered
    <3>2. d \in 1 .. Len(ast)
      BY <1>2, <2>1, SymNode
    <3>3. ast[d].kind = "arg"
      BY <1>3, <2>1, <3>2
    <3>4. TypedBy(defered, types, i - 1, d)
      BY <2>1, <3>1, <3>3 DEF ArgsRead
    <3> QED
      BY <3>2, <3>4, TypedKeeps
  <2> QED
    BY <1>1, <2>1 DEF ArgsRead
<1> QED
  BY <1>5, <1>6, <1>7, <1>8, <1>9, <1>10 DEF Ordered

(* What the calls that have been run set is there to be read.              *)
LEMMA ReadNow ==
  ASSUME RunTyped, PhaseInv, NEW n, TypedBy(defered, types, (position + 1) - 1, n)
  PROVE types[n] # "null"
<1>1. (position + 1) - 1 = position
  BY DEF PhaseInv
<1> QED
  BY <1>1 DEF RunTyped, TypedBy, SetsType

(* The call that is run sets a type.                                       *)
Runs == \E t : t # "null" /\ SetType(t) /\ CallDone /\ RunsCall({Running.what})

LEMMA RunsTypes ==
  ASSUME FrontInv, RunTyped, Ordered, RunParseType \/ RunLiteral \/ RunBinary \/ RunLetOrAssign
  PROVE Runs
<1>1. BuildInv /\ PhaseInv
  BY DEF FrontInv
<1>2. PICK i : i = position + 1
  OBVIOUS
<1>3. phase = "resolving" /\ position < Len(defered)
  BY DEF RunParseType, RunLiteral, RunBinary, RunLetOrAssign, RunsCall
<1>4. /\ i \in 1 .. Len(defered) /\ CallFits(Running, ast, tables) /\ Running = defered[i]
  BY <1>1, <1>2, <1>3, RunsOne DEF Running
<1>5. \A n : TypedBy(defered, types, i - 1, n) => types[n] # "null"
  BY <1>1, <1>2, ReadNow
<1>6. RunsCall({Running.what})
  BY <1>3 DEF RunsCall
<1>7. CASE RunParseType
  <2>1. Running.word \in Types /\ "null" \notin Types
    BY <1>4, <1>7, ParserAssumption DEF RunParseType, RunsCall, CallFits, IntegralTypes
  <2>2. SetType(Running.word) /\ CallDone
    BY <1>7 DEF RunParseType
  <2>3. Running.word # "null"
    BY <2>1
  <2> QED
    BY <1>6, <2>2, <2>3 DEF Runs
<1>8. CASE RunLiteral
  <2>1. Running.what = "literal"
    BY <1>8 DEF RunLiteral, RunsCall
  <2>2. types[Running.of] # "null"
    BY <1>4, <1>5, <2>1 DEF Ordered, LiteralsRead
  <2>3. PICK t : t = types[Running.of]
    OBVIOUS
  <2>4. SetType(IF TypeId(t) \in IntegralTypes THEN TypeId(t) ELSE "i64") /\ CallDone
    BY <1>8, <2>2, <2>3 DEF RunLiteral
  <2>5. (IF TypeId(t) \in IntegralTypes THEN TypeId(t) ELSE "i64") # "null"
    BY DEF IntegralTypes
  <2> QED
    BY <1>6, <2>4, <2>5 DEF Runs
<1>9. CASE RunBinary \/ RunLetOrAssign
  <2>1. Running.what \in {"binary", "let", "assign"}
    BY <1>9 DEF RunBinary, RunLetOrAssign, RunsCall
  <2>2. PICK t : t = types[ast[Running.node].kids[1]]
    OBVIOUS
  <2>3. t # "null"
    BY <1>4, <1>5, <2>1, <2>2 DEF Ordered, OperandsRead
  <2>4. (SetType("bool") \/ SetType(t)) /\ CallDone
    BY <1>9, <2>2 DEF RunBinary, RunLetOrAssign
  <2> QED
    BY <1>6, <2>3, <2>4 DEF Runs
<1> QED
  BY <1>7, <1>8, <1>9

LEMMA RunsFind ==
  ASSUME FrontInv, BindingInv, ~SomePremature, RunTyped, Ordered, RunFind PROVE Runs
<1>1. BuildInv /\ PhaseInv
  BY DEF FrontInv
<1>2. PICK i : i = position + 1
  OBVIOUS
<1>3. phase = "resolving" /\ position < Len(defered) /\ Running.what = "find"
  BY DEF RunFind, RunsCall
<1>4. i \in 1 .. Len(defered) /\ Running = defered[i]
  BY <1>1, <1>2, <1>3, RunsOne DEF Running
<1>5. PICK n : n = Running.node
  OBVIOUS
<1>6. IsCall(defered, i, "find", n)
  BY <1>3, <1>4, <1>5 DEF IsCall
<1>7. PICK d : d = Meant(i)
  OBVIOUS
<1>8. /\ d \in 1 .. Len(ast) /\ ast[d].kind \in {"let", "arg"}
      /\ d = find_base(tables, Running.of, ast[Running.node].name)
  BY <1>1, <1>4, <1>5, <1>6, <1>7, MeantReady
<1>9. TypedBy(defered, types, i - 1, d)
  <2>1. CASE ast[d].kind = "let"
    <3>1. PICK q : Leaves(trail, q, n) /\ LeftBefore(trail, q, d)
      BY <1>1, <1>6, <1>7, <2>1, MeantReady
    <3>2. LetsRead(defered, types, ast, trail)
      BY DEF Ordered
    <3> QED
      BY <1>6, <1>8, <2>1, <3>1, <3>2 DEF LetsRead
  <2>2. CASE ast[d].kind = "arg"
    <3>1. PICK r \in 1 .. defered[i].of : IsSym(tables, r, ast[n].name, d)
      BY <1>1, <1>6, <1>7, MeantReady
    <3>2. ArgsRead(defered, types, ast, tables)
      BY DEF Ordered
    <3>3. CallFits(Running, ast, tables)
      BY <1>1, <1>3, RunsOne
    <3>4. r <= defered[i].of
      BY <1>3, <1>4, <3>1, <3>3 DEF CallFits, DeferedCall
    <3> QED
      BY <1>6, <2>2, <3>1, <3>2, <3>4 DEF ArgsRead
  <2> QED
    BY <1>8, <2>1, <2>2
<1>10. types[d] # "null"
  BY <1>1, <1>2, <1>9, ReadNow
<1>11. d # 0
  BY <1>8
<1>12. SetType(types[d]) /\ CallDone
  BY <1>8, <1>11 DEF RunFind
<1>13. RunsCall({Running.what})
  BY <1>3 DEF RunsCall
<1> QED
  BY <1>10, <1>12, <1>13 DEF Runs

LEMMA RunsCallType == ASSUME FrontInv, RunCall PROVE Runs
<1>1. BuildInv /\ PhaseInv /\ ResolvedInv
  BY DEF FrontInv
<1>2. phase = "resolving" /\ position < Len(defered) /\ Running.what = "call"
  BY DEF RunCall, RunsCall
<1>3. /\ position + 1 \in 1 .. Len(defered) /\ position \in Nat /\ Paired(defered, position + 1)
      /\ Running.node \in 1 .. Len(ast) /\ NodeFits(ast, Running.node)
  BY <1>1, <1>2, RunsOne
<1>4. IsCall(defered, position, "callee", Running.node)
  <2>1. position + 1 > 1 /\ IsCall(defered, (position + 1) - 1, "callee", Running.node)
    BY <1>2, <1>3 DEF Paired, Running
  <2>2. (position + 1) - 1 = position
    BY <1>3
  <2> QED
    BY <2>1, <2>2
<1>5. RunFits(position)
  BY <1>1, <1>2, <1>3, <1>4 DEF ResolvedInv, Done, IsCall
<1>6. ast[Running.node].fn # 0
  BY <1>4, <1>5 DEF RunFits, IsCall
<1>7. IsNode(ast, ast[Running.node].fn, "fn")
  BY <1>3, <1>6 DEF NodeFits
<1>8. NodeFits(ast, ast[Running.node].fn)
  BY <1>1, <1>7 DEF BuildInv, Syntax, TreeFits, IsNode
<1>9. ast[ast[Running.node].fn].word # "null"
  BY <1>7, <1>8 DEF NodeFits, IsNode
<1>10. SetType(ast[ast[Running.node].fn].word) /\ CallDone
  BY DEF RunCall
<1>11. RunsCall({Running.what})
  BY <1>2 DEF RunsCall
<1> QED
  BY <1>9, <1>10, <1>11 DEF Runs

(* The type that is set stays set, and those set before do.                *)
LEMMA RunsKeep ==
  ASSUME FrontInv, RunTyped, Runs
  PROVE Keeps /\ RunTyped' /\ phase' = "resolving"
<1>1. BuildInv /\ PhaseInv
  BY DEF FrontInv
<1>2. PICK t : t # "null" /\ SetType(t) /\ CallDone
  BY DEF Runs
<1>3. phase = "resolving" /\ position < Len(defered)
  BY DEF Runs, RunsCall
<1>4. /\ position + 1 \in 1 .. Len(defered) /\ position \in Nat /\ Running.node \in 1 .. Len(ast)
  BY <1>1, <1>3, RunsOne
<1>5. types \in Seq(NodeTypes) /\ Len(types) = Len(ast)
  BY <1>1 DEF BuildInv, NodesInv
<1>6. PICK n : n = Running.node
  OBVIOUS
<1>7. types'[n] = t /\ \A m \in 1 .. Len(ast) : m # n => types'[m] = types[m]
  BY <1>2, <1>4, <1>5, <1>6 DEF SetType
<1>8. Keeps
  BY <1>2, <1>7 DEF Keeps
<1>9. position' = position + 1 /\ defered' = defered /\ phase' = "resolving"
  BY <1>2, <1>3 DEF CallDone
<1>10. ASSUME NEW j \in 1 .. position', defered[j].what # "callee"
       PROVE types'[defered[j].node] # "null"
  <2>1. CASE j = position + 1
    BY <1>2, <1>6, <1>7, <2>1 DEF Running
  <2>2. CASE j # position + 1
    <3>1. j \in 1 .. position
      BY <1>4, <1>9, <2>2
    <3>2. types[defered[j].node] # "null"
      BY <1>10, <3>1 DEF RunTyped
    <3>3. j \in 1 .. Len(defered)
      BY <1>3, <1>4, <3>1
    <3>4. CallFits(defered[j], ast, tables)
      BY <1>1, <3>3 DEF BuildInv, CallsInv
    <3>5. defered[j].node \in 1 .. Len(ast)
      BY <3>4 DEF CallFits
    <3> QED
      BY <1>8, <3>2, <3>5 DEF Keeps
  <2> QED
    BY <2>1, <2>2
<1> QED
  BY <1>8, <1>9, <1>10 DEF RunTyped

LEMMA CalleeKeeps ==
  ASSUME FrontInv, RunTyped, RunCallee, phase' # "threw"
  PROVE Keeps /\ RunTyped' /\ phase' = "resolving"
<1>1. CallDone /\ types' = types
  BY DEF RunCallee, Throw, StopAs
<1>2. phase = "resolving" /\ Running.what = "callee"
  BY DEF RunCallee, RunsCall
<1>3. position \in Nat
  BY DEF FrontInv, PhaseInv
<1>4. position' = position + 1 /\ defered' = defered /\ phase' = "resolving"
  BY <1>1, <1>2 DEF CallDone
<1>5. ASSUME NEW j \in 1 .. position', defered[j].what # "callee"
      PROVE types'[defered[j].node] # "null"
  <2>1. j # position + 1
    BY <1>2, <1>5 DEF Running
  <2>2. j \in 1 .. position
    BY <1>3, <1>4, <2>1
  <2> QED
    BY <1>1, <1>5, <2>2 DEF RunTyped
<1> QED
  BY <1>1, <1>4, <1>5 DEF Keeps, RunTyped

LEMMA EndTyped ==
  ASSUME FrontInv, RunTyped, Ordered, EndParse PROVE AllTyped'
<1>1. /\ phase = "resolving" /\ position = Len(defered) /\ ast' = ast /\ types' = types
  BY DEF EndParse, treeVars
<1>2. agenda = << >>
  BY <1>1 DEF FrontInv, PhaseInv
<1>3. ASSUME NEW n \in 1 .. Len(ast), ast[n].kind \in ValueKinds PROVE types[n] # "null"
  <2>1. Awaited(agenda, n) \/ TypedBy(defered, types, Len(defered), n)
    BY <1>3 DEF Ordered, ValuesTyped
  <2>2. ~Awaited(agenda, n)
    BY <1>2 DEF Awaited, HeldAs
  <2> QED
    BY <1>1, <2>1, <2>2 DEF TypedBy, SetsType, RunTyped
<1> QED
  BY <1>1, <1>3 DEF AllTyped

LEMMA ResolveTyped ==
  ASSUME FrontInv, BindingInv, OrderInv, TypedInv, Resolve PROVE OrderInv' /\ TypedInv'
<1>1. BuildInv /\ PhaseInv /\ ResolvedInv
  BY DEF FrontInv
<1>2. Later
  BY <1>1, ResolveLater
<1>3. SomePremature' <=> SomePremature
  BY <1>1, <1>2, PrematureSame
<1>4. phase = "resolving" /\ phase' \in {"threw", "undefined", "resolving", "checking"}
  BY ResolveSteps
<1>5. agenda = << >>
  BY <1>1, <1>4 DEF PhaseInv
<1>6. CASE SomePremature
  BY <1>3, <1>4, <1>6 DEF OrderInv, TypedInv
<1>7. CASE ~SomePremature
  <2>1. Ordered /\ RunTyped
    BY <1>4, <1>7 DEF OrderInv, TypedInv
  <2>2. CASE Runs \/ (RunCallee /\ phase' # "threw")
    <3>1. Keeps /\ RunTyped' /\ phase' = "resolving"
      BY <2>1, <2>2, RunsKeep, CalleeKeeps
    <3>2. Ordered'
      BY <1>1, <1>2, <1>5, <2>1, <3>1, OrderedKept
    <3> QED
      BY <3>1, <3>2 DEF OrderInv, TypedInv, Resolved
  <2>3. CASE EndParse
    <3>1. AllTyped'
      BY <2>1, <2>3, EndTyped
    <3>2. phase' = "checking"
      BY <2>3 DEF EndParse
    <3> QED
      BY <3>1, <3>2 DEF OrderInv, TypedInv
  <2>4. CASE RunCallee /\ phase' = "threw"
    BY <2>4 DEF OrderInv, TypedInv, Resolved
  <2>5. Runs \/ RunCallee \/ EndParse
    BY <1>7, <2>1, RunsTypes, RunsFind, RunsCallType DEF Resolve
  <2> QED
    BY <2>2, <2>3, <2>4, <2>5
<1> QED
  BY <1>6, <1>7

-----------------------------------------------------------------------------
(* The visitors use no null type, and lose none.                           *)

LEMMA KidTyped ==
  ASSUME FrontInv, AllTyped, NEW n \in 1 .. Len(ast), ast[n].kind # "fn",
         NEW i \in 1 .. Len(ast[n].kids)
  PROVE types[ast[n].kids[i]] # "null"
<1>1. NodeFits(ast, n)
  BY DEF FrontInv, BuildInv, Syntax, TreeFits
<1>2. ast[n].kids[i] \in 1 .. Len(ast) /\ ast[ast[n].kids[i]].kind \in Operands
  BY <1>1 DEF NodeFits, KidsFit
<1>3. Operands \subseteq ValueKinds
  BY DEF Operands, ValueKinds
<1> QED
  BY <1>2, <1>3 DEF AllTyped

LEMMA SubjectTyped ==
  ASSUME FrontInv, AllTyped, position < Len(trail), IsChecked(Visited),
         Subject.kind \in {"binary", "assign", "let", "ret", "if"}
  PROVE /\ types[Kid(1)] # "null" /\ Kid(1) \in 1 .. Len(ast)
        /\ Subject.kind \in {"binary", "assign"} => types[Kid(2)] # "null"
        /\ Subject.kind = "let" => types[Visited.node] # "null"
<1>1. BuildInv /\ PhaseInv
  BY DEF FrontInv
<1>2. StepFits(Visited) /\ Visited.node \in 1 .. Len(ast) /\ Subject = ast[Visited.node]
  BY <1>1, SubjectFits
<1>3. Visited.step = "leave"
  BY DEF IsChecked
<1>4. Complete(ast, Visited.node)
  BY <1>2, <1>3 DEF StepFits
<1>5. Len(Subject.kids) = (IF Subject.kind \in {"binary", "assign"} THEN 2 ELSE 1)
  BY <1>2, <1>4 DEF Complete
<1>6. 1 \in 1 .. Len(Subject.kids)
      /\ (Subject.kind \in {"binary", "assign"} => 2 \in 1 .. Len(Subject.kids))
  BY <1>5
<1>7. Kid(1) \in 1 .. Len(ast)
  BY <1>1, <1>3, OnlyKid
<1>8. Subject.kind # "fn"
  OBVIOUS
<1>9. types[Kid(1)] # "null"
  BY <1>2, <1>6, <1>8, KidTyped DEF Kid
<1>10. Subject.kind \in {"binary", "assign"} => types[Kid(2)] # "null"
  BY <1>2, <1>6, <1>8, KidTyped DEF Kid
<1>11. Subject.kind = "let" => types[Visited.node] # "null"
  BY <1>2 DEF AllTyped, ValueKinds
<1> QED
  BY <1>7, <1>9, <1>10, <1>11

LEMMA RetypedKeeps ==
  ASSUME NEW n, NEW t, types[n] # "null" PROVE Retyped(n, t) # "null"
BY DEF Retyped, Converts, IntegralTypes

(* What a check may do that finds types.                                   *)
Sound == phase' # "undefined" /\ Keeps

LEMMA ReportSound == ASSUME phase = "checking", NEW c, Report(c), Keeps PROVE Sound
BY DEF Report, Sound

LEMMA PlainSound == ASSUME types' = types PROVE Keeps
BY DEF Keeps

LEMMA CheckSound ==
  ASSUME FrontInv, AllTyped, Check PROVE Sound
<1>1. BuildInv /\ PhaseInv
  BY DEF FrontInv
<1>2. types \in Seq(NodeTypes) /\ Len(types) = Len(ast)
  BY <1>1 DEF BuildInv, NodesInv
<1>3. CASE CheckNothing
  BY <1>3, ReportSound, PlainSound DEF CheckNothing, Passes
<1>4. CASE CheckBinary
  <2>1. /\ phase = "checking" /\ position < Len(trail) /\ IsChecked(Visited)
        /\ Subject.kind = "binary"
    BY <1>4 DEF CheckBinary, Checks
  <2>2. types[Kid(1)] # "null" /\ types[Kid(2)] # "null"
    BY <2>1, SubjectTyped
  <2>3. PICK ok : ok = (TypeId(types[Kid(1)]) = TypeId(types[Kid(2)]))
    OBVIOUS
  <2>4. Unless(ok) /\ types' = types
    BY <1>4, <2>2, <2>3 DEF CheckBinary
  <2> QED
    BY <2>1, <2>4, ReportSound, PlainSound DEF Unless
<1>5. CASE CheckAssign
  <2>1. /\ phase = "checking" /\ position < Len(trail) /\ IsChecked(Visited)
        /\ Subject.kind = "assign"
    BY <1>5 DEF CheckAssign, Checks
  <2>2. types[Kid(1)] # "null" /\ types[Kid(2)] # "null"
    BY <2>1, SubjectTyped
  <2>3. Report(AssignErrors) /\ types' = types
    BY <1>5, <2>2 DEF CheckAssign
  <2> QED
    BY <2>1, <2>3, ReportSound, PlainSound
<1>6. CASE CheckVarDecl
  <2>1. /\ phase = "checking" /\ position < Len(trail) /\ IsChecked(Visited)
        /\ Subject.kind = "let"
    BY <1>6 DEF CheckVarDecl, Checks
  <2>2. types[Kid(1)] # "null" /\ types[Visited.node] # "null"
    BY <2>1, SubjectTyped
  <2>3. PICK ok : ok = (types[Visited.node] = types[Kid(1)])
    OBVIOUS
  <2>4. Unless(ok) /\ types' = types
    BY <1>6, <2>2, <2>3 DEF CheckVarDecl
  <2> QED
    BY <2>1, <2>4, ReportSound, PlainSound DEF Unless
<1>7. CASE CheckRet
  <2>1. /\ phase = "checking" /\ position < Len(trail) /\ IsChecked(Visited)
        /\ Subject.kind = "ret"
    BY <1>7 DEF CheckRet, Checks
  <2>2. types[Kid(1)] # "null" /\ Kid(1) \in 1 .. Len(ast)
    BY <2>1, SubjectTyped
  <2>3. PICK k, target : k = Kid(1) /\ target = ast[Subject.fn].word
    OBVIOUS
  <2>4. Unless(Fits(k, target)) /\ types' = [types EXCEPT ![k] = Retyped(k, target)]
    BY <1>7, <2>2, <2>3 DEF CheckRet
  <2>5. Retyped(k, target) # "null"
    BY <2>2, <2>3, RetypedKeeps
  <2>6. Keeps
    BY <1>2, <2>4, <2>5 DEF Keeps
  <2> QED
    BY <2>1, <2>4, <2>6, ReportSound DEF Unless
<1>8. CASE CheckIf
  <2>1. /\ phase = "checking" /\ position < Len(trail) /\ IsChecked(Visited)
        /\ Subject.kind = "if"
    BY <1>8 DEF CheckIf, Checks
  <2>2. types[Kid(1)] # "null"
    BY <2>1, SubjectTyped
  <2>3. PICK ok : ok = (types[Kid(1)] = "bool")
    OBVIOUS
  <2>4. Unless(ok) /\ types' = types
    BY <1>8, <2>2, <2>3 DEF CheckIf
  <2> QED
    BY <2>1, <2>4, ReportSound, PlainSound DEF Unless
<1>9. CASE CheckCall
  <2>1. /\ phase = "checking" /\ position < Len(trail) /\ Subject.kind = "call"
    BY <1>9 DEF CheckCall, Checks
  <2>2. Visited.node \in 1 .. Len(ast) /\ Subject = ast[Visited.node] /\ Subject \in TreeNode
    BY <1>1, <2>1, SubjectFits
  <2>3. \A i \in CheckedArgs : i \in 1 .. Len(Subject.kids)
    <3>1. Len(Subject.kids) \in Nat
      BY <2>2 DEF TreeNode
    <3>2. IsNode(ast, Subject.fn, "fn")
      BY <1>1, <2>1, <2>2, FunctionsKnown DEF Resolved, PhaseInv, FrontInv
    <3>3. Len(ast[Subject.fn].kids) \in Nat
      BY <1>1, <3>2, NodesTyped DEF BuildInv, Syntax, IsNode
    <3> QED
      BY <3>1, <3>3 DEF CheckedArgs
  <2>4. \A i \in CheckedArgs : types[Kid(i)] # "null"
    BY <2>1, <2>2, <2>3, KidTyped DEF Kid
  <2>5. PICK c : /\ Report(c)
                 /\ types' = [n \in 1 .. Len(types) |->
                      IF \E i \in CheckedArgs : Kid(i) = n
                      THEN Retyped(n, Target(CHOOSE i \in CheckedArgs : Kid(i) = n))
                      ELSE types[n]]
    BY <1>9, <2>4, Zenon DEF CheckCall
  <2>6. ASSUME NEW n \in 1 .. Len(ast), types[n] # "null" PROVE types'[n] # "null"
    <3>1. \A t : Retyped(n, t) # "null"
      BY <2>6, RetypedKeeps
    <3> QED
      BY <1>2, <2>5, <2>6, <3>1
  <2> QED
    BY <2>1, <2>5, <2>6, ReportSound DEF Keeps
<1>10. CASE EndCheck
  BY <1>10, PlainSound DEF EndCheck, Sound
<1> QED
  BY <1>3, <1>4, <1>5, <1>6, <1>7, <1>8, <1>9, <1>10 DEF Check

LEMMA CheckTyped ==
  ASSUME FrontInv, OrderInv, TypedInv, Check PROVE OrderInv' /\ TypedInv'
<1>1. BuildInv /\ PhaseInv /\ ResolvedInv
  BY DEF FrontInv
<1>2. /\ Later /\ ast' = ast /\ phase = "checking"
      /\ phase' \in {"checking", "generating", "threw", "undefined"}
  BY <1>1, CheckLater
<1>3. SomePremature' <=> SomePremature
  BY <1>1, <1>2, PrematureSame
<1>4. OrderInv'
  BY <1>2 DEF OrderInv
<1>5. ~SomePremature => AllTyped
  BY <1>2 DEF TypedInv, Resolved
<1>6. AllTyped => Sound
  BY CheckSound
<1>7. AllTyped /\ Sound => AllTyped'
  BY <1>2 DEF AllTyped, Sound, Keeps
<1>8. phase' = "undefined" => SomePremature
  BY <1>5, <1>6 DEF Sound
<1> QED
  BY <1>2, <1>3, <1>4, <1>5, <1>6, <1>7, <1>8 DEF TypedInv

(* The scope in which a name is found is one of those that are open.       *)
LEMMA FoundOpen ==
  ASSUME NEW t, NEW T, TablesFit(t, T), NEW c, Chain(c, T), NEW n \in AllNames,
         find_base(T, c[1], n) # 0
  PROVE \E i \in 1 .. Len(c) : Sym(T, c[i], n) = find_base(T, c[1], n)
<1> DEFINE Has == {i \in 1 .. Len(c) : Sym(T, c[i], n) # 0}
<1>1. /\ c \in Seq(Nat) /\ Len(c) \in Nat \ {0} /\ \A i \in 1 .. Len(c) : c[i] \in 1 .. Len(T)
      /\ c[Len(c)] = 1
  BY ChainHead DEF Chain
<1>2. CASE Has = {}
  <2>1. \A j \in 1 .. Len(c) : Sym(T, c[j], n) = 0
    BY <1>2
  <2>2. Len(c) \in 1 .. Len(c)
    BY <1>1
  <2>3. \A j \in 1 .. (Len(c) - 1) : Sym(T, c[j], n) = 0
    BY <1>1, <2>1
  <2>4. find_base(T, c[1], n) = find_base(T, c[Len(c)], n)
    BY <2>2, <2>3, ChainLooksUp
  <2>5. 1 \in 1 .. Len(T) /\ Len(T) \in Nat
    BY <1>1, <2>2 DEF TablesFit
  <2>6. T[1].parent = 0
    <3>1. T[1].parent \in 0 .. (1 - 1)
      BY <2>5, TableRange
    <3> QED
      BY <3>1
  <2>7. T[1].symbols[n] = 0
    BY <1>1, <2>1, <2>2 DEF Sym
  <2>8. find_base(T, 1, n) = find_base(T, 0, n) /\ find_base(T, 0, n) = 0
    BY <2>5, <2>6, <2>7, LooksUp
  <2> QED
    BY <1>1, <2>4, <2>8
<1>3. CASE Has # {}
  <2>1. Has \subseteq Nat
    BY <1>1
  <2>2. PICK i \in Has : \A j \in Has : i <= j
    <3> HIDE DEF Has
    <3> QED
      BY <1>3, <2>1, LeastScope
  <2>3. i \in 1 .. Len(c) /\ Sym(T, c[i], n) # 0
    OBVIOUS
  <2>4. \A j \in 1 .. (i - 1) : Sym(T, c[j], n) = 0
    <3>1. ASSUME NEW j \in 1 .. (i - 1) PROVE Sym(T, c[j], n) = 0
      <4>1. j \in 1 .. Len(c) /\ ~(i <= j)
        BY <1>1, <2>3
      <4> QED
        BY <2>2, <4>1
    <3> QED
      BY <3>1
  <2>5. find_base(T, c[1], n) = find_base(T, c[i], n)
    BY <2>3, <2>4, ChainLooksUp
  <2>6. c[i] \in 1 .. Len(T) /\ c[i] \in 0 .. Len(T) /\ c[i] # 0
    BY <1>1, <2>3 DEF TablesFit
  <2>7. find_base(T, c[i], n) = Sym(T, c[i], n)
    BY <2>3, <2>6, LooksUp DEF Sym
  <2> QED
    BY <2>3, <2>5, <2>7
<1> QED
  BY <1>2, <1>3

(* The generator finds every name.                                         *)
LEMMA NamesResolve ==
  ASSUME FrontInv, BindingInv, ~SomePremature, Generates("leave", {"identifier"})
  PROVE Frame!Resolves(addrTables, Subject.name)
<1>1. BuildInv /\ PhaseInv
  BY DEF FrontInv
<1>2. /\ phase = "generating" /\ position < Len(trail)
      /\ Visited.step = "leave" /\ Subject.kind = "identifier"
  BY DEF Generates
<1>3. /\ position + 1 \in 1 .. Len(trail) /\ Visited = trail[position + 1]
      /\ Visited.node \in 1 .. Len(ast) /\ Subject = ast[Visited.node]
  BY <1>1, <1>2, SubjectFits
<1>4. PICK h \in Seq(Seq(Nat)) :
        /\ History(h, trail, ast, tables) /\ Bound(h, trail, ast, tables)
        /\ FindsFit(h, trail, defered)
        /\ SlotsFit(addrTables, h[position + 1], trail, ast, tables, position + 1)
  BY <1>2 DEF BindingInv
<1>5. PICK p, n : p = position + 1 /\ n = Visited.node
  OBVIOUS
<1>6. Leaves(trail, p, n)
  BY <1>2, <1>3, <1>5 DEF Leaves
<1>7. PICK i : /\ IsCall(defered, i, "find", n) /\ ast[n].name \in AllNames
  BY <1>1, <1>2, <1>3, <1>5, NodeMeant
<1>8. \A q : Leaves(trail, q, n) => q = p
  BY <1>4, <1>6 DEF Bound, LeftOnce
<1>9. defered[i].of = Head(h[p])
  BY <1>4, <1>7, <1>8 DEF FindsFit
<1>10. PICK d : d = Meant(i)
  OBVIOUS
<1>11. /\ d \in 1 .. Len(ast) /\ ast[d].kind \in {"let", "arg"}
       /\ d = find_base(tables, defered[i].of, ast[n].name)
       /\ ast[d].kind = "let" => LeftBefore(trail, p, d)
  BY <1>1, <1>7, <1>8, <1>10, MeantReady
<1>12. Ready(trail, ast, p, d)
  BY <1>11 DEF Ready
<1>13. PICK c : c = h[p]
  OBVIOUS
<1>14. Chain(c, tables)
  <2>1. Ground(h, trail, ast, tables)
    BY <1>1, <1>4, GroundHolds
  <2>2. p \in 1 .. Len(h)
    BY <1>6, <2>1, GroundSteps
  <2> QED
    BY <1>13, <2>1, <2>2, GroundChains
<1>15. TablesFit(ast, tables)
  BY <1>1 DEF BuildInv, TablesInv
<1>16. d = find_base(tables, c[1], ast[n].name)
  <2>1. Head(c) = c[1]
    BY <1>14, ChainHead
  <2> QED
    BY <1>9, <1>11, <1>13, <2>1
<1>17. d # 0
  BY <1>11
<1>18. PICK k \in 1 .. Len(c) : Sym(tables, c[k], ast[n].name) = d
  BY <1>7, <1>14, <1>15, <1>16, <1>17, FoundOpen
<1>19. SlotsFit(addrTables, c, trail, ast, tables, p)
  BY <1>4, <1>5, <1>13
<1>20. SlotFits(addrTables[k][ast[n].name], trail, ast, p, d) /\ Len(addrTables) = Len(c)
  BY <1>7, <1>18, <1>19 DEF SlotsFit
<1>21. addrTables[k][ast[n].name] = Slot(d)
  BY <1>12, <1>20 DEF SlotFits
<1>22. addrTables[k][ast[n].name] # Frame!NoSlot
  BY <1>21, Slots
<1>23. k \in 1 .. Len(addrTables) /\ Subject.name = ast[n].name
  BY <1>3, <1>5, <1>18, <1>20
<1> QED
  BY <1>22, <1>23 DEF Frame!Resolves, Frame!Declares

LEMMA GenerateTyped ==
  ASSUME FrontInv, BindingInv, OrderInv, TypedInv, Generate PROVE OrderInv' /\ TypedInv'
<1>1. BuildInv /\ PhaseInv
  BY DEF FrontInv
<1>2. Later
  BY <1>1, GenerateLater
<1>3. /\ phase = "generating" /\ ast' = ast /\ types' = types
      /\ phase' \in {"done", "aborted", "generating"}
  BY GenerateSteps DEF treeVars
<1>4. SomePremature' <=> SomePremature
  BY <1>1, <1>2, PrematureSame
<1>5. OrderInv'
  BY <1>3 DEF OrderInv
<1>6. ~SomePremature => AllTyped'
  BY <1>3 DEF TypedInv, Resolved, AllTyped
<1>7. phase' = "aborted" => SomePremature
  <2>1. ASSUME phase' = "aborted", ~SomePremature PROVE FALSE
    <3>1. FindAddrEntry
      BY <1>3, <2>1 DEF Generate, PushAddrTable, PopAddrTable, AddAddrEntry,
      GenerateOther, EndGenerate, generatorRest
    <3>2. Generates("leave", {"identifier"})
      BY <3>1 DEF FindAddrEntry
    <3>3. Frame!Resolves(addrTables, Subject.name)
      BY <2>1, <3>2, NamesResolve
    <3> QED
      BY <1>3, <2>1, <3>1, <3>3 DEF FindAddrEntry, generatorRest
  <2> QED
    BY <2>1
<1> QED
  BY <1>3, <1>4, <1>5, <1>6, <1>7 DEF TypedInv

LEMMA ParseTyped ==
  ASSUME FrontInv, BindingInv, BindingInv', OrderInv, Parse PROVE OrderInv' /\ TypedInv'
<1>1. BuildInv /\ PhaseInv
  BY DEF FrontInv
<1>2. phase = "parsing" /\ phase' \in {"parsing", "resolving", "threw"}
  BY ParsesWhen
<1>3. Ordered
  BY <1>2 DEF OrderInv
<1>4. phase' # "threw" => Ordered'
  BY <1>1, <1>3, ParseOrdered
<1>5. phase' = "resolving" => position' = 0
  <2>1. position = 0
    BY <1>1, <1>2 DEF PhaseInv
  <2>2. Parse /\ phase' = "resolving" => EndOfFile
    BY DEF Parse, BeginFunction, ParseFunction, EndFunction, ParseInteger, ParseOtherLiteral,
       ParseIdentifier, BeginCall, ParseArgument, EndArgument, EndCall, ParseOperator,
       ParseAssignment, EndInfix, EndExpression, BeginExplicit, BeginInferred, EndVarDecl,
       BeginRet, EndRet, BeginIf, ParseIfBody, EndIf, BeginExprStatement,
       InBody, Doing, Throw, StopAs
  <2> QED
    BY <2>1, <2>2 DEF EndOfFile
<1>6. phase' = "resolving" => RunTyped'
  BY <1>5 DEF RunTyped
<1> QED
  BY <1>2, <1>4, <1>6 DEF OrderInv, TypedInv, Resolved

LEMMA TypedStep ==
  ASSUME FrontInv, BindingInv, BindingInv', OrderInv, TypedInv, [FrontNext]_vars
  PROVE OrderInv' /\ TypedInv'
<1>1. CASE Parse
  BY <1>1, ParseTyped
<1>2. CASE Resolve
  BY <1>2, ResolveTyped
<1>3. CASE Check
  BY <1>3, CheckTyped
<1>4. CASE Generate
  BY <1>4, GenerateTyped
<1>5. CASE UNCHANGED vars
  <2>1. UNCHANGED << phase, ast, types, trail, tables, defered, agenda, position >>
    BY <1>5 DEF vars, parserState
  <2>2. SomePremature' <=> SomePremature
    BY <2>1 DEF SomePremature, NodesOf, Premature, Binding, LookedUpIn, LeftAt
  <2>3. Ordered' <=> Ordered
    BY <2>1 DEF Ordered, ValuesTyped, ExplicitTyped, LiteralsRead, OperandsRead, LetsRead,
       ArgsRead
  <2>4. (RunTyped' <=> RunTyped) /\ (AllTyped' <=> AllTyped)
    BY <2>1 DEF RunTyped, AllTyped
  <2> QED
    BY <2>1, <2>2, <2>3, <2>4 DEF OrderInv, TypedInv, Resolved
<1> QED
  BY <1>1, <1>2, <1>3, <1>4, <1>5, StepCases

LEMMA TypedStart == FrontInit => OrderInv /\ TypedInv
<1> SUFFICES ASSUME FrontInit PROVE OrderInv /\ TypedInv
  OBVIOUS
<1>1. phase = "parsing" /\ ast = << >> /\ defered = << >> /\ agenda = << >>
  BY DEF FrontInit, Init
<1>2. Ordered
  BY <1>1 DEF Ordered, ValuesTyped, ExplicitTyped, LiteralsRead, OperandsRead, LetsRead, ArgsRead,
     HeldAs, IsCall
<1> QED
  BY <1>1, <1>2 DEF OrderInv, TypedInv, Resolved

(* However declarations, literals, calls and names follow one another: the *)
(* calls that are put off while parsing run in an order in which every     *)
(* type is set before it is read.  If every name is used after its         *)
(* declaration is complete, no call and no visitor uses a null type, every *)
(* expression has a type after the parse, and the generator finds every    *)
(* name.                                                                   *)
THEOREM TypesSafe == FrontSpec => []TypesResolved
<1>1. FrontInit => FrontInv /\ BindingInv /\ OrderInv /\ TypedInv
  <2>1. FrontInit => FrontInv
    <3>1. FrontInit => CheckedInv /\ phase \in Phases
      BY DEF FrontInit, Init, CheckedInv, Phases
    <3> QED
      BY <3>1, BuildInit, HistoryInit DEF FrontInv
  <2> QED
    BY <2>1, BindingInit, TypedStart
<1>2. BindingInv /\ FrontInv /\ [FrontNext]_vars => BindingInv'
  BY BindingStep
<1>3. FrontInv /\ BindingInv /\ BindingInv' /\ OrderInv /\ TypedInv /\ [FrontNext]_vars
        => OrderInv' /\ TypedInv'
  BY TypedStep
<1>4. FrontInv /\ TypedInv => TypesResolved
  BY TypedSafe
<1> QED
  BY <1>1, <1>2, <1>3, <1>4, FrontSafe, PTL DEF FrontSpec

=============================================================================
