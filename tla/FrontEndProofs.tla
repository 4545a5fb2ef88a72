--------------------------- MODULE FrontEndProofs ---------------------------
(***************************************************************************)
(* Proofs about the parser and the type checker.  In every program, the    *)
(* tree is what precedence says, the scopes are closed in the order they   *)
(* were opened, and nothing ill-typed reaches the code generator.          *)
(***************************************************************************)
EXTENDS FrontEnd, TLAPS, FiniteSetTheorems, SequenceTheorems, WellFoundedInduction

-----------------------------------------------------------------------------
(* The tree: which kinds of nodes are below which.                         *)

Operands == {"literal", "identifier", "call", "binary", "assign"}
IsNode(t, n, kind) == n \in 1 .. Len(t) /\ t[n].kind = kind

KidsFit(t, n) ==
  \A i \in 1 .. Len(t[n].kids) :
    /\ t[n].kids[i] \in 1 .. Len(t)
    /\ t[t[n].kids[i]].kind \in (IF t[n].kind = "fn" THEN {"arg"} ELSE Operands)

NodeFits(t, n) ==
  /\ KidsFit(t, n)
  /\ t[n].fn # 0 => IsNode(t, t[n].fn, "fn")
  /\ t[n].kind = "ret" => t[n].fn # 0
  /\ t[n].kind = "fn" => t[n].word \in NodeTypes \ {"null"}
  /\ t[n].kind \in {"literal", "identifier", "arg"} => t[n].kids = << >>
  /\ t[n].kind = "binary" => t[n].word \in BinaryTokens
  /\ t[n].kind \in {"binary", "assign"} => Len(t[n].kids) \in {1, 2}
  /\ t[n].kind = "assign" => t[t[n].kids[1]].kind = "identifier"
  /\ t[n].kind \in {"let", "ret", "if"} => Len(t[n].kids) \in {0, 1}

(* A node is below one other node at most, and there only once.            *)
IsKid(t, n, m, i) == m \in 1 .. Len(t) /\ i \in 1 .. Len(t[m].kids) /\ t[m].kids[i] = n
Free(t, n) == \A m, i : ~IsKid(t, n, m, i)
Tree(t) == \A n, m, i, k, j : IsKid(t, n, m, i) /\ IsKid(t, n, k, j) => m = k /\ i = j

Level(t, n) == IF t[n].kind = "binary" THEN Precedence(t[n].word) ELSE 11
Ranked(t, n) ==
  t[n].kind = "binary" =>
    /\ Level(t, t[n].kids[1]) >= Level(t, n)
    /\ Len(t[n].kids) = 2 => Level(t, t[n].kids[2]) > Level(t, n)

-----------------------------------------------------------------------------
(* The agenda.                                                             *)

Levelled == {"expr", "infix"}
Enders == {"argument", "right", "assign", "explicit", "inferred", "ret", "condition"}
Parts == {"explicit", "inferred", "ret", "condition"} \cup BodyKinds

KindOf(what) ==
  CASE what \in {"call", "argument"} -> "call"
    [] what = "right" -> "binary"
    [] what = "assign" -> "assign"
    [] what \in {"explicit", "inferred"} -> "let"
    [] what = "ret" -> "ret"
    [] what \in {"condition", "if"} -> "if"
    [] what = "fn" -> "fn"

(* The node of an item has the kids that were there before the item.       *)
ItemFits(t, x) ==
  x.what \notin Levelled =>
    /\ IsNode(t, x.node, KindOf(x.what))
    /\ Free(t, x.node)
    /\ x.what \in {"right", "assign", "if"} => Len(t[x.node].kids) = 1
    /\ x.what \in {"explicit", "inferred", "ret", "condition"} => t[x.node].kids = << >>

(* What may be right above what.                                           *)
Stacked(t, x, y) ==
  /\ x.what # "fn"
  /\ x.what \in Levelled => y.what \in Enders \cup BodyKinds
  /\ x.what = "argument" => y.what = "call" /\ y.node = x.node
  /\ x.what \in {"call", "right", "assign"} => y.what = "infix"
  /\ x.what \in Parts => y.what \in BodyKinds
  /\ y.what = "right" => x.what \in Levelled /\ x.level = Level(t, y.node)
  /\ x.what = "right" => y.level < Level(t, x.node)

(* Items further up have later nodes, and below a body are only bodies.    *)
Above(a, i, j) ==
  /\ a[i].what \in Parts => a[j].what \in BodyKinds
  /\ a[i].what \notin Levelled /\ a[j].what \notin Levelled =>
       \/ a[i].node > a[j].node
       \/ a[i].what = "argument" /\ j = i + 1 /\ a[i].node = a[j].node

AgendaFits(a, t) ==
  /\ \A i \in 1 .. Len(a) : ItemFits(t, a[i])
  /\ \A i \in 1 .. (Len(a) - 1) : Stacked(t, a[i], a[i + 1])
  /\ \A i, j \in 1 .. Len(a) : i < j => Above(a, i, j)
  /\ a # << >> => a[Len(a)].what = "fn"

(* The node that was returned is one that no other node has yet.           *)
ValueFits(a, t, v, tok) ==
  a # << >> /\ Head(a).what \in Enders \cup {"infix"} =>
    /\ v \in 1 .. Len(t) /\ t[v].kind \in Operands /\ Free(t, v)
    /\ \A i \in 1 .. Len(a) : a[i].what \notin Levelled => v > a[i].node
    /\ Head(a).what = "infix" => Level(t, v) > Head(a).level /\ Precedence(tok) <= Level(t, v)
    /\ Head(a).what = "right" =>
         /\ Level(t, v) > Level(t, Head(a).node)
         /\ Precedence(tok) <= Level(t, Head(a).node)

(* A parser of this kind is active for the node.                           *)
HeldAs(a, what, n) == \E i \in 1 .. Len(a) : a[i].what = what /\ a[i].node = n
Holders == Enders \cup BodyKinds \cup {"call"}
Held(a, n) == \E what \in Holders : HeldAs(a, what, n)

(* The declarations whose type literals are to have: one at a time.        *)
ExplicitFits(a, e) ==
  /\ \A n : HeldAs(a, "explicit", n) => e = << n >>
  /\ e # << >> => \E n : HeldAs(a, "explicit", n)
ExplicitInv == ExplicitFits(agenda, explicitTypes)

-----------------------------------------------------------------------------
(* The nodes, their types, and the visitor's way through them.             *)

NameFits(x) ==
  /\ x.kind \in {"fn", "call"} => x.name \in FnNames
  /\ x.kind \in {"let", "arg"} => x.name \in VarNames
  /\ x.kind = "identifier" => x.name \in AllNames

NodesInv ==
  /\ types \in Seq(NodeTypes) /\ muts \in Seq(BOOLEAN)
  /\ Len(types) = Len(ast) /\ Len(muts) = Len(ast)
  /\ value \in 0 .. Len(ast)
  /\ \A n \in 1 .. Len(ast) : NameFits(ast[n])

Complete(t, n) ==
  /\ t[n].kind \in {"binary", "assign"} => Len(t[n].kids) = 2
  /\ t[n].kind \in {"let", "ret", "if"} => Len(t[n].kids) = 1

(* A visitor leaves a node when its parser has left it.                    *)
StepFits(e) ==
  /\ e \in TrailStep
  /\ e.node \in 1 .. Len(ast)
  /\ e.step = "enter" => ast[e.node].kind \in BodyKinds
  /\ e.step = "leave" => Complete(ast, e.node) /\ ~Held(agenda, e.node)

TrailInv == trail \in Seq(TrailStep) /\ \A p \in 1 .. Len(trail) : StepFits(trail[p])

-----------------------------------------------------------------------------
(* The scopes: what a table says, and which scope is open at each item of  *)
(* the agenda and below the last.                                          *)

Outer(s) == tables[s].parent

Declared(t, d, n) ==
  d # 0 => d \in 1 .. Len(t) /\ t[d].name = n /\ t[d].kind \in {"fn", "arg", "let"}

TableFits(t, x, s) ==
  x.parent \in 0 .. (s - 1) /\ \A n \in AllNames : Declared(t, x.symbols[n], n)

TablesFit(t, T) ==
  T \in Seq(Table) /\ Len(T) > 0 /\ \A s \in 1 .. Len(T) : TableFits(t, T[s], s)

FunctionsFit(t, f) ==
  f \in [FnNames -> Nat] /\ \A n \in FnNames : f[n] # 0 => IsNode(t, f[n], "fn")

TablesInv == TablesFit(ast, tables) /\ FunctionsFit(ast, fnTypes)

ScopesFit(sc, a, T, c) ==
  /\ sc \in Seq(Nat) /\ Len(sc) = Len(a) + 1
  /\ \A i \in 1 .. Len(sc) : sc[i] \in 1 .. Len(T)
  /\ \A i \in 1 .. Len(a) :
       sc[i + 1] = IF a[i].what \in BodyKinds THEN T[sc[i]].parent ELSE sc[i]
  /\ sc[1] = c /\ sc[Len(sc)] = 1

ScopesInv ==
  /\ phase \in {"parsing", "resolving"} => \E sc : ScopesFit(sc, agenda, tables, currentScope)
  /\ currentScope \in 0 .. Len(tables)

-----------------------------------------------------------------------------
(* The calls that were put off.                                            *)

IsCall(ds, i, what, n) == i \in 1 .. Len(ds) /\ ds[i].what = what /\ ds[i].node = n

CallKinds(what) ==
  CASE what = "parse_type" -> {"arg", "let"}
    [] what = "find" -> {"identifier"}
    [] what \in {"callee", "call"} -> {"call"}
    [] OTHER -> {what}

CallFits(d, t, T) ==
  /\ d \in DeferedCall
  /\ d.node \in 1 .. Len(t) /\ t[d.node].kind \in CallKinds(d.what)
  /\ d.what = "parse_type" => d.word \in Types
  /\ d.what = "literal" => IsNode(t, d.of, "let")
  /\ d.what = "find" => d.of \in 1 .. Len(T)
  /\ d.what \in {"binary", "assign", "let"} => Len(t[d.node].kids) > 0

(* A call of a function is completed right after its callee is looked up.  *)
Paired(ds, i) == ds[i].what = "call" => i > 1 /\ IsCall(ds, i - 1, "callee", ds[i].node)

CallsInv ==
  /\ defered \in Seq(DeferedCall)
  /\ \A i \in 1 .. Len(defered) : CallFits(defered[i], ast, tables) /\ Paired(defered, i)
  /\ \A i, j, n : IsCall(defered, i, "find", n) /\ IsCall(defered, j, "find", n) => i = j
  /\ \A n \in 1 .. Len(ast) :
       /\ ast[n].kind = "identifier" => \E i : IsCall(defered, i, "find", n)
       /\ ast[n].kind = "call" =>
            HeldAs(agenda, "call", n) \/ \E i : IsCall(defered, i, "callee", n)

-----------------------------------------------------------------------------
(* What the calls that were run have done.                                 *)

Resolved == phase \in {"checking", "generating", "done"}
Done(i) == (phase = "resolving" /\ i <= position) \/ Resolved

Meant(i) == find_base(tables, defered[i].of, ast[defered[i].node].name)
RunFits(i) ==
  /\ defered[i].what = "find" =>
       /\ Meant(i) \in 1 .. Len(ast)
       /\ ast[Meant(i)].kind = "let" => muts[defered[i].node] = muts[Meant(i)]
  /\ defered[i].what = "callee" => ast[defered[i].node].fn # 0

ResolvedInv == \A i \in 1 .. Len(defered) : Done(i) => RunFits(i)

PhaseInv ==
  /\ position \in Nat /\ errors \in Nat
  /\ phase # "parsing" => agenda = << >> \/ phase = "threw"
  /\ phase = "parsing" => position = 0
  /\ phase = "resolving" => position <= Len(defered)
  /\ phase \in {"checking", "generating"} => position <= Len(trail)
  /\ phase = "generating" => errors = 0
  /\ phase \in {"parsing", "resolving"} => errors = 0

CheckedInv ==
  /\ phase = "checking" /\ errors = 0 =>
       \A p \in 1 .. position : IsChecked(trail[p]) => TypedNode(trail[p].node)
  /\ phase = "generating" =>
       \A p \in 1 .. Len(trail) : IsChecked(trail[p]) => TypedNode(trail[p].node)

-----------------------------------------------------------------------------
(* The history of the open scopes, along which the generator goes again.   *)

(* The scopes that are open, from the innermost one outwards.              *)
Chain(c, T) ==
  /\ c \in Seq(Nat) /\ c # << >>
  /\ \A i \in 1 .. Len(c) : c[i] \in 1 .. Len(T)
  /\ \A i \in 1 .. (Len(c) - 1) : T[c[i]].parent = c[i + 1]
  /\ c[Len(c)] = 1

(* The step e of a visitor leads from the chain c to the chain d.          *)
Opens(e) == e.step = "enter"
Closes(e, t) == e.step = "leave" /\ t[e.node].kind \in BodyKinds
Goes(c, e, t, d) ==
  /\ Opens(e) => d = << Head(d) >> \o c
  /\ Closes(e, t) => d = Tail(c)
  /\ ~Opens(e) /\ ~Closes(e, t) => d = c

(* h[p] is the chain before the step p of the trail, the last of h the one *)
(* that is open now.                                                       *)
History(h, tr, t, T) ==
  /\ Len(h) = Len(tr) + 1 /\ h[1] = << 1 >>
  /\ \A p \in 1 .. Len(h) : Chain(h[p], T)
  /\ \A p \in 1 .. Len(tr) : Goes(h[p], tr[p], t, h[p + 1])

Open(h) == phase \in {"parsing", "resolving"} => Head(h[Len(h)]) = currentScope

(* The generator has a table for each scope that is open where it is.      *)
Entries == {Frame!NoSlot} \cup {Slot(n) : n \in 1 .. Len(ast)}
AddrFits(h) ==
  /\ addrTables \in Seq([AllNames -> Entries])
  /\ phase \in {"parsing", "resolving", "checking"} => Len(addrTables) = 1
  /\ phase = "generating" => Len(addrTables) = Len(h[position + 1])

HistoryInv ==
  \E h \in Seq(Seq(Nat)) : History(h, trail, ast, tables) /\ Open(h) /\ AddrFits(h)

-----------------------------------------------------------------------------
(* Sequences, items and precedences.                                       *)

LEMMA Tailed ==
  ASSUME NEW S, NEW a \in Seq(S), a # << >>
  PROVE /\ Tail(a) \in Seq(S) /\ Len(Tail(a)) = Len(a) - 1 /\ Len(a) \in Nat \ {0}
        /\ \A i \in 1 .. Len(Tail(a)) : Tail(a)[i] = a[i + 1]
        /\ Head(a) = a[1] /\ Head(a) \in S
OBVIOUS

LEMMA Pushed ==
  ASSUME NEW S, NEW a \in Seq(S), NEW x \in S
  PROVE /\ << x >> \o a \in Seq(S) /\ Len(<< x >> \o a) = Len(a) + 1
        /\ (<< x >> \o a)[1] = x /\ Head(<< x >> \o a) = x /\ << x >> \o a # << >>
        /\ \A i \in 1 .. Len(a) : (<< x >> \o a)[i + 1] = a[i]
        /\ \A i \in 2 .. (Len(a) + 1) : (<< x >> \o a)[i] = a[i - 1]
OBVIOUS

LEMMA PushedTwo ==
  ASSUME NEW S, NEW a \in Seq(S), NEW x \in S, NEW y \in S
  PROVE << x, y >> \o a = << x >> \o (<< y >> \o a) /\ << y >> \o a \in Seq(S)
<1> DEFINE p == << x, y >> \o a
           q == << x >> \o (<< y >> \o a)
<1>1. << x, y >> \in Seq(S) /\ Len(<< x, y >>) = 2 /\ << y >> \o a \in Seq(S)
  OBVIOUS
<1>2. p \in Seq(S) /\ q \in Seq(S) /\ Len(p) = Len(a) + 2 /\ Len(q) = Len(a) + 2
  BY <1>1, Pushed
<1>3. ASSUME NEW i \in 1 .. (Len(a) + 2) PROVE p[i] = q[i]
  BY <1>1
<1>4. p = q
  BY <1>2, <1>3, SeqEqual
<1> QED
  BY <1>1, <1>4

LEMMA PushedNone == ASSUME NEW S, NEW a \in Seq(S) PROVE << >> \o a = a
OBVIOUS

LEMMA Appended ==
  ASSUME NEW S, NEW s \in Seq(S), NEW e \in S
  PROVE /\ s \o << e >> \in Seq(S) /\ Len(s \o << e >>) = Len(s) + 1
        /\ (s \o << e >>)[Len(s) + 1] = e
        /\ \A i \in 1 .. Len(s) : (s \o << e >>)[i] = s[i]
        /\ Append(s, e) = s \o << e >>
OBVIOUS

LEMMA Replaced ==
  ASSUME NEW S, NEW s \in Seq(S), NEW n \in 1 .. Len(s), NEW e \in S
  PROVE /\ [s EXCEPT ![n] = e] \in Seq(S) /\ Len([s EXCEPT ![n] = e]) = Len(s)
        /\ [s EXCEPT ![n] = e][n] = e
        /\ \A m \in 1 .. Len(s) : m # n => [s EXCEPT ![n] = e][m] = s[m]
OBVIOUS

LEMMA Joined ==
  ASSUME NEW S, NEW s \in Seq(S), NEW u \in Seq(S)
  PROVE /\ s \o u \in Seq(S) /\ Len(s \o u) = Len(s) + Len(u)
        /\ \A i \in 1 .. Len(s) : (s \o u)[i] = s[i]
        /\ \A i \in 1 .. Len(u) : (s \o u)[Len(s) + i] = u[i]
        /\ \A i \in (Len(s) + 1) .. (Len(s) + Len(u)) : (s \o u)[i] = u[i - Len(s)]
OBVIOUS

LEMMA ItemFields ==
  ASSUME NEW x \in Item
  PROVE /\ x.what \in Levelled => x \in LevelItem /\ x.level \in 0 .. 10
        /\ x.what \notin Levelled => x \in HolderItem /\ x.node \in Nat
        /\ x.what \in Levelled \cup Enders \cup BodyKinds \cup {"call"}
BY DEF Item, LevelItem, HolderItem, Levelled, Enders, BodyKinds

LEMMA MadeItems ==
  /\ \A n \in Nat : \A w \in Enders \cup BodyKinds \cup {"call"} :
       /\ NodeItem(w, n) \in Item /\ NodeItem(w, n).what = w /\ NodeItem(w, n).node = n
       /\ w \notin Levelled
  /\ \A l \in 0 .. 10 :
       /\ ExprItem(l) \in Item /\ ExprItem(l).what = "expr" /\ ExprItem(l).level = l
       /\ InfixItem(l) \in Item /\ InfixItem(l).what = "infix" /\ InfixItem(l).level = l
BY DEF Item, LevelItem, HolderItem, Levelled, Enders, BodyKinds, NodeItem, ExprItem, InfixItem

LEMMA Precedences ==
  /\ \A b \in BinaryTokens : Precedence(b) \in 2 .. 10
  /\ Precedence("Equals") = 1 /\ Precedence("none") = 0
BY DEF BinaryTokens, Products, Sums, Equalities, Precedence

LEMMA TokenPrecedence ==
  ASSUME NEW k \in Infix \cup {"none"}
  PROVE Precedence(k) \in 0 .. 10 /\ Precedence(k) < 11
BY ParserAssumption, Precedences DEF InfixTokens

LEMMA Levels ==
  ASSUME NEW t \in Seq(TreeNode), NEW n \in 1 .. Len(t), NodeFits(t, n)
  PROVE Level(t, n) \in 2 .. 11
BY Precedences DEF Level, NodeFits

-----------------------------------------------------------------------------
(* The tree grows: by a node, or by an edge.                               *)

TreeFits(t) == Tree(t) /\ \A n \in 1 .. Len(t) : NodeFits(t, n) /\ Ranked(t, n)

(* The nodes that are there remain what they are.                          *)
Extends(t, u) ==
  /\ Len(t) <= Len(u)
  /\ \A n \in 1 .. Len(t) :
       u[n].kind = t[n].kind /\ u[n].name = t[n].name /\ u[n].word = t[n].word

HasKid(x, n) == x.kids = << n >>

(* A node x, with the kid v or with none, may be added to t.               *)
Addition(t, x) ==
  /\ x \in TreeNode
  /\ x.kind # "fn"
  /\ x.fn # 0 => IsNode(t, x.fn, "fn")
  /\ x.kind = "ret" => x.fn # 0
  /\ \/ x.kids = << >> /\ x.kind \notin {"binary", "assign"}
     \/ \E v \in 1 .. Len(t) :
          /\ x.kids = << v >> /\ x.fn = 0 /\ Free(t, v) /\ t[v].kind \in Operands
          /\ x.kind \in {"binary", "assign"}
          /\ x.kind = "binary" => x.word \in BinaryTokens /\ Level(t, v) >= Precedence(x.word)
          /\ x.kind = "assign" => t[v].kind = "identifier"

LEMMA NodesTyped ==
  ASSUME NEW t \in Seq(TreeNode), NEW n \in 1 .. Len(t)
  PROVE /\ t[n] \in TreeNode /\ t[n].kids \in Seq(Nat) /\ t[n].fn \in Nat
        /\ t[n].kind \in NodeKinds /\ Len(t[n].kids) \in Nat
<1>1. t[n] \in TreeNode
  OBVIOUS
<1> QED
  BY <1>1 DEF TreeNode

LEMMA Kinds ==
  /\ NodeKinds = {"fn", "arg", "literal", "identifier", "call", "binary", "assign", "let",
                  "ret", "if"}
  /\ Operands \subseteq NodeKinds /\ "fn" \notin Operands /\ "arg" \notin Operands
BY DEF NodeKinds, Operands

LEMMA FewKids ==
  ASSUME NEW s
  PROVE /\ Len(s) \in {1, 2} => 1 \in 1 .. Len(s) /\ (Len(s) = 2 => 2 \in 1 .. Len(s))
        /\ Len(s) = 1 => 1 .. Len(s) = {1}
OBVIOUS

(* The fit of a node depends on the kinds, the words and its own kids.     *)
LEMMA FitKept ==
  ASSUME NEW t \in Seq(TreeNode), NEW u \in Seq(TreeNode), Extends(t, u),
         NEW n \in 1 .. Len(t), NodeFits(t, n), u[n] = t[n]
  PROVE NodeFits(u, n)
<1>1. n \in 1 .. Len(u) /\ Len(t) \in Nat /\ Len(u) \in Nat /\ 1 .. Len(t) \subseteq 1 .. Len(u)
  BY DEF Extends
<1>2. KidsFit(u, n)
  <2>1. ASSUME NEW i \in 1 .. Len(t[n].kids)
        PROVE t[n].kids[i] \in 1 .. Len(t) /\ u[t[n].kids[i]].kind = t[t[n].kids[i]].kind
    BY DEF NodeFits, KidsFit, Extends
  <2> QED
    BY <1>1, <2>1 DEF NodeFits, KidsFit
<1>3. t[n].fn # 0 => IsNode(u, t[n].fn, "fn")
  BY <1>1 DEF NodeFits, IsNode, Extends
<1>4. t[n].kind = "assign" => u[t[n].kids[1]].kind = "identifier"
  <2>1. t[n].kind = "assign" => 1 \in 1 .. Len(t[n].kids)
    BY DEF NodeFits
  <2>2. t[n].kind = "assign" => t[n].kids[1] \in 1 .. Len(t)
    BY <2>1 DEF NodeFits, KidsFit
  <2> QED
    BY <2>2 DEF NodeFits, Extends
<1> QED
  BY <1>2, <1>3, <1>4 DEF NodeFits

LEMMA LevelKept ==
  ASSUME NEW t, NEW u, Extends(t, u), NEW n \in 1 .. Len(t)
  PROVE Level(u, n) = Level(t, n)
BY DEF Extends, Level

LEMMA RankKept ==
  ASSUME NEW t \in Seq(TreeNode), NEW u \in Seq(TreeNode), Extends(t, u),
         NEW n \in 1 .. Len(t), NodeFits(t, n), Ranked(t, n), u[n] = t[n]
  PROVE Ranked(u, n)
<1>1. ASSUME t[n].kind = "binary", NEW i \in 1 .. Len(t[n].kids)
      PROVE Level(u, t[n].kids[i]) = Level(t, t[n].kids[i])
  <2>1. t[n].kids[i] \in 1 .. Len(t)
    BY <1>1 DEF NodeFits, KidsFit
  <2> QED
    BY <2>1, LevelKept
<1>2. Level(u, n) = Level(t, n)
  BY LevelKept
<1>3. ASSUME t[n].kind = "binary"
      PROVE 1 \in 1 .. Len(t[n].kids) /\ (Len(t[n].kids) = 2 => 2 \in 1 .. Len(t[n].kids))
  <2>1. Len(t[n].kids) \in {1, 2}
    BY <1>3 DEF NodeFits
  <2> QED
    BY <2>1, FewKids
<1>4. CASE t[n].kind = "binary"
  <2>1. Level(u, t[n].kids[1]) = Level(t, t[n].kids[1])
    BY <1>1, <1>3, <1>4
  <2>2. Len(t[n].kids) = 2 => Level(u, t[n].kids[2]) = Level(t, t[n].kids[2])
    BY <1>1, <1>3, <1>4
  <2> QED
    BY <1>2, <2>1, <2>2 DEF Ranked
<1> QED
  BY <1>4 DEF Ranked

Grown(t, u, x) ==
  /\ u \in Seq(TreeNode) /\ Len(u) = Len(t) + 1 /\ TreeFits(u) /\ Extends(t, u)
  /\ u[Len(t) + 1] = x /\ \A n \in 1 .. Len(t) : u[n] = t[n]
  /\ \A n : Free(t, n) /\ ~HasKid(x, n) => Free(u, n)
  /\ Free(u, Len(t) + 1)

LEMMA TreeGrown ==
  ASSUME NEW t \in Seq(TreeNode), TreeFits(t), NEW x, Addition(t, x),
         NEW u, u = t \o << x >>
  PROVE Grown(t, u, x)
<1>1. x \in TreeNode /\ Len(t) \in Nat
  BY DEF Addition
<1>2. /\ u \in Seq(TreeNode) /\ Len(u) = Len(t) + 1 /\ u[Len(t) + 1] = x
      /\ \A n \in 1 .. Len(t) : u[n] = t[n]
  BY <1>1, Appended
<1>3. Extends(t, u)
  BY <1>1, <1>2 DEF Extends
<1>4. ASSUME NEW n \in 1 .. Len(t) PROVE NodeFits(u, n) /\ Ranked(u, n)
  BY <1>2, <1>3, <1>4, FitKept, RankKept DEF TreeFits
<1>5. NodeFits(u, Len(t) + 1) /\ Ranked(u, Len(t) + 1)
  <2>1. CASE x.kids = << >> /\ x.kind \notin {"binary", "assign"}
    BY <1>1, <1>2, <2>1 DEF Addition, NodeFits, KidsFit, IsNode, Ranked
  <2>2. ASSUME NEW v \in 1 .. Len(t), x.kids = << v >>, x.fn = 0, Free(t, v),
               t[v].kind \in Operands, x.kind \in {"binary", "assign"},
               x.kind = "binary" => x.word \in BinaryTokens /\ Level(t, v) >= Precedence(x.word),
               x.kind = "assign" => t[v].kind = "identifier"
        PROVE NodeFits(u, Len(t) + 1) /\ Ranked(u, Len(t) + 1)
    <3>1. u[v].kind = t[v].kind /\ v \in 1 .. Len(u) /\ Level(u, v) = Level(t, v)
      BY <1>1, <1>2, <1>3, LevelKept
    <3>2. Len(x.kids) = 1 /\ x.kids[1] = v
      BY <2>2
    <3>3. KidsFit(u, Len(t) + 1)
      BY <1>2, <2>2, <3>1, <3>2 DEF KidsFit
    <3> QED
      <4>1. Level(u, Len(t) + 1) = IF x.kind = "binary" THEN Precedence(x.word) ELSE 11
        BY <1>2 DEF Level
      <4>2. Ranked(u, Len(t) + 1)
        BY <1>2, <2>2, <3>1, <3>2, <4>1 DEF Ranked
      <4>3. NodeFits(u, Len(t) + 1)
        BY <1>2, <2>2, <3>1, <3>2, <3>3 DEF NodeFits
      <4> QED
        BY <4>2, <4>3
  <2> QED
    BY <2>1, <2>2 DEF Addition
<1>6. ASSUME NEW n, NEW m, NEW i, IsKid(u, n, m, i)
      PROVE IsKid(t, n, m, i) \/ (m = Len(t) + 1 /\ i = 1 /\ x.kids = << n >>)
  <2>1. CASE m \in 1 .. Len(t)
    <3>1. u[m].kids = t[m].kids
      BY <1>2, <2>1
    <3>2. i \in 1 .. Len(u[m].kids) /\ u[m].kids[i] = n
      BY <1>6 DEF IsKid
    <3>3. i \in 1 .. Len(t[m].kids) /\ t[m].kids[i] = n
      BY <3>1, <3>2
    <3> QED
      BY <2>1, <3>3 DEF IsKid
  <2>2. CASE m = Len(t) + 1
    <3>1. i \in 1 .. Len(x.kids) /\ x.kids[i] = n
      BY <1>2, <1>6, <2>2 DEF IsKid
    <3>2. PICK v : x.kids = << v >>
      BY <3>1 DEF Addition
    <3> QED
      BY <2>2, <3>1, <3>2
  <2> QED
    BY <1>1, <1>2, <1>6, <2>1, <2>2 DEF IsKid
<1>7. \A n : x.kids = << n >> => Free(t, n) /\ n \in 1 .. Len(t)
  BY DEF Addition
<1>8. Tree(u)
  <2> SUFFICES ASSUME NEW n, NEW m, NEW i, NEW k, NEW j, IsKid(u, n, m, i), IsKid(u, n, k, j)
               PROVE m = k /\ i = j
    BY DEF Tree
  <2> QED
    BY <1>6, <1>7 DEF TreeFits, Tree, Free
<1>9. Free(u, Len(t) + 1)
  <2>1. ASSUME NEW m, NEW i, IsKid(u, Len(t) + 1, m, i) PROVE FALSE
    <3>1. IsKid(t, Len(t) + 1, m, i)
      BY <1>1, <1>6, <1>7, <2>1
    <3> QED
      BY <1>1, <3>1 DEF TreeFits, NodeFits, KidsFit, IsKid
  <2> QED
    BY <2>1 DEF Free
<1>10. \A n : Free(t, n) /\ ~HasKid(x, n) => Free(u, n)
  BY <1>6 DEF Free, HasKid
<1>11. TreeFits(u)
  <2>1. ASSUME NEW n \in 1 .. Len(u) PROVE NodeFits(u, n) /\ Ranked(u, n)
    BY <1>1, <1>2, <1>4, <1>5
  <2> QED
    BY <1>8, <2>1 DEF TreeFits
<1> QED
  BY <1>2, <1>3, <1>9, <1>10, <1>11 DEF Grown

(* A node n, the first or the next kid of which may be v.                  *)
Expects(t, n) ==
  \/ t[n].kind = "call"
  \/ t[n].kind \in {"binary", "assign"} /\ Len(t[n].kids) = 1
  \/ t[n].kind \in {"let", "ret", "if"} /\ t[n].kids = << >>

Given(t, u, n, v) ==
  /\ u \in Seq(TreeNode) /\ Len(u) = Len(t) /\ TreeFits(u) /\ Extends(t, u)
  /\ \A m \in 1 .. Len(t) : m # n => u[m] = t[m]
  /\ u[n].kids = t[n].kids \o << v >> /\ u[n].fn = t[n].fn
  /\ \A m : Free(t, m) /\ m # v => Free(u, m)
  /\ Complete(u, n)

LEMMA KidAdded ==
  ASSUME NEW t \in Seq(TreeNode), TreeFits(t),
         NEW n \in 1 .. Len(t), NEW v \in 1 .. Len(t), Expects(t, n),
         Free(t, v), t[v].kind \in Operands,
         t[n].kind = "binary" => Level(t, v) > Level(t, n),
         NEW u, u = [t EXCEPT ![n].kids = Append(@, v)]
  PROVE Given(t, u, n, v)
<1> DEFINE k == t[n].kids
           w == k \o << v >>
           x == [t[n] EXCEPT !.kids = w]
<1>1. t[n] \in TreeNode /\ k \in Seq(Nat) /\ v \in Nat /\ Len(k) \in Nat
  BY NodesTyped
<1>2. /\ w \in Seq(Nat) /\ Len(w) = Len(k) + 1 /\ w[Len(k) + 1] = v
      /\ \A i \in 1 .. Len(k) : w[i] = k[i]
      /\ Append(k, v) = w
  <2> HIDE DEF k
  <2> QED
    BY <1>1, Appended
<1>3. /\ x \in TreeNode /\ x.kids = w
      /\ x.kind = t[n].kind /\ x.name = t[n].name /\ x.word = t[n].word /\ x.fn = t[n].fn
  <2> HIDE DEF w
  <2> QED
    BY <1>1, <1>2 DEF TreeNode
<1>4. u = [t EXCEPT ![n] = x]
  BY <1>2
<1> HIDE DEF w, x
<1>5. /\ u \in Seq(TreeNode) /\ Len(u) = Len(t) /\ u[n] = x
      /\ \A m \in 1 .. Len(t) : m # n => u[m] = t[m]
  <2>1. /\ [t EXCEPT ![n] = x] \in Seq(TreeNode) /\ Len([t EXCEPT ![n] = x]) = Len(t)
        /\ [t EXCEPT ![n] = x][n] = x
        /\ \A m \in 1 .. Len(t) : m # n => [t EXCEPT ![n] = x][m] = t[m]
    BY <1>3, Replaced
  <2> QED
    BY <1>4, <2>1
<1>6. Extends(t, u)
  BY <1>3, <1>5 DEF Extends
<1>7. ASSUME NEW m \in 1 .. Len(t), m # n PROVE NodeFits(u, m) /\ Ranked(u, m)
  BY <1>5, <1>6, <1>7, FitKept, RankKept DEF TreeFits
<1>8. NodeFits(t, n) /\ Ranked(t, n) /\ KidsFit(t, n)
  BY DEF TreeFits, NodeFits
<1>9. t[n].kind \in NodeKinds \ {"fn", "literal", "identifier", "arg"}
  BY <1>1, Kinds DEF Expects
<1>10. KidsFit(u, n)
  <2>1. ASSUME NEW i \in 1 .. Len(w) PROVE w[i] \in 1 .. Len(t) /\ u[w[i]].kind \in Operands
    <3>1. CASE i = Len(k) + 1
      BY <1>2, <1>6, <3>1 DEF Extends
    <3>2. CASE i \in 1 .. Len(k)
      <4>1. k[i] \in 1 .. Len(t) /\ t[k[i]].kind \in Operands
        BY <1>8, <1>9, <3>2 DEF KidsFit
      <4> QED
        BY <1>2, <1>6, <3>2, <4>1 DEF Extends
    <3> QED
      <4> HIDE DEF k
      <4> QED
        BY <1>1, <1>2, <3>1, <3>2
  <2>2. u[n].kids = w /\ u[n].kind # "fn" /\ Len(u) = Len(t)
    BY <1>3, <1>5, <1>9
  <2> QED
    BY <2>1, <2>2 DEF KidsFit
<1>11. /\ t[n].kind \in {"binary", "assign"} => Len(w) = 2 /\ w[1] = k[1] /\ k[1] \in 1 .. Len(t) /\ w[2] = v
       /\ t[n].kind \in {"let", "ret", "if"} => Len(w) = 1
  <2>1. CASE t[n].kind \in {"binary", "assign"}
    <3>1. Len(k) = 1
      BY <2>1 DEF Expects
    <3>2. 1 \in 1 .. Len(k)
      BY <3>1
    <3> QED
      BY <1>2, <1>8, <2>1, <3>1, <3>2 DEF KidsFit
  <2>2. CASE t[n].kind \in {"let", "ret", "if"}
    <3>1. k = << >>
      BY <2>2 DEF Expects
    <3> QED
      BY <1>2, <2>2, <3>1
  <2> QED
    BY <2>1, <2>2
<1>12. NodeFits(u, n)
  <2>1. t[n].fn # 0 => IsNode(u, t[n].fn, "fn")
    BY <1>5, <1>6, <1>8 DEF NodeFits, IsNode, Extends
  <2>2. t[n].kind = "assign" => u[w[1]].kind = "identifier"
    BY <1>6, <1>8, <1>11 DEF NodeFits, Extends
  <2>3. t[n].kind = "binary" => t[n].word \in BinaryTokens
    BY <1>8 DEF NodeFits
  <2>4. t[n].kind = "ret" => t[n].fn # 0
    BY <1>8 DEF NodeFits
  <2> QED
    BY <1>3, <1>5, <1>9, <1>10, <1>11, <2>1, <2>2, <2>3, <2>4 DEF NodeFits
<1>13. Ranked(u, n)
  <2>1. CASE t[n].kind = "binary"
    <3>1. Level(u, n) = Level(t, n) /\ Level(u, w[1]) = Level(t, k[1]) /\ Level(u, w[2]) = Level(t, v)
      BY <1>6, <1>11, <2>1, LevelKept
    <3> QED
      BY <1>3, <1>5, <1>8, <2>1, <3>1 DEF Ranked
  <2>2. CASE t[n].kind # "binary"
    BY <1>3, <1>5, <2>2 DEF Ranked
  <2> QED
    BY <2>1, <2>2
<1>14. ASSUME NEW m, NEW c, NEW i, IsKid(u, m, c, i)
       PROVE IsKid(t, m, c, i) \/ (c = n /\ i = Len(k) + 1 /\ m = v)
  <2>1. CASE c # n
    <3>1. c \in 1 .. Len(t) /\ u[c].kids = t[c].kids
      BY <1>5, <1>14, <2>1 DEF IsKid
    <3>2. i \in 1 .. Len(u[c].kids) /\ u[c].kids[i] = m
      BY <1>14 DEF IsKid
    <3>3. i \in 1 .. Len(t[c].kids) /\ t[c].kids[i] = m
      BY <3>1, <3>2
    <3> QED
      BY <3>1, <3>3 DEF IsKid
  <2>2. CASE c = n
    <3>1. i \in 1 .. Len(w) /\ w[i] = m
      BY <1>3, <1>5, <1>14, <2>2 DEF IsKid
    <3>2. i = Len(k) + 1 \/ (i \in 1 .. Len(k) /\ k[i] = m)
      <4> HIDE DEF k
      <4> QED
        BY <1>1, <1>2, <3>1
    <3> QED
      BY <1>2, <2>2, <3>1, <3>2 DEF IsKid
  <2> QED
    BY <2>1, <2>2
<1>15. Tree(u)
  <2> SUFFICES ASSUME NEW m, NEW c, NEW i, NEW d, NEW j, IsKid(u, m, c, i), IsKid(u, m, d, j)
               PROVE c = d /\ i = j
    BY DEF Tree
  <2>1. ~IsKid(t, v, c, i) /\ ~IsKid(t, v, d, j)
    BY DEF Free
  <2>2. IsKid(t, m, c, i) /\ IsKid(t, m, d, j) => c = d /\ i = j
    BY DEF TreeFits, Tree
  <2>3. IsKid(t, m, c, i) \/ (c = n /\ i = Len(k) + 1 /\ m = v)
    BY <1>14
  <2>4. IsKid(t, m, d, j) \/ (d = n /\ j = Len(k) + 1 /\ m = v)
    BY <1>14
  <2> HIDE DEF k
  <2> QED
    BY <2>1, <2>2, <2>3, <2>4
<1>16. \A m : Free(t, m) /\ m # v => Free(u, m)
  BY <1>14 DEF Free
<1>17. TreeFits(u)
  BY <1>5, <1>7, <1>12, <1>13, <1>15 DEF TreeFits
<1>18. Complete(u, n)
  BY <1>3, <1>5, <1>11 DEF Complete
<1> QED
  BY <1>3, <1>5, <1>6, <1>16, <1>17, <1>18 DEF w, Given

-----------------------------------------------------------------------------
(* The agenda when items are put on it or taken off.                       *)

LEMMA AgendaKept ==
  ASSUME NEW t, NEW u, NEW a \in Seq(Item), AgendaFits(a, t), Extends(t, u),
         \A i \in 1 .. Len(a) :
           a[i].what \notin Levelled =>
             /\ a[i].what = "call" \/ u[a[i].node].kids = t[a[i].node].kids
             /\ Free(u, a[i].node)
  PROVE AgendaFits(a, u)
<1>1. ASSUME NEW i \in 1 .. Len(a) PROVE ItemFits(u, a[i])
  <2>1. ItemFits(t, a[i])
    BY DEF AgendaFits
  <2> QED
    BY <2>1 DEF ItemFits, IsNode, Extends
<1>2. ASSUME NEW i \in 1 .. Len(a), a[i].what = "right"
      PROVE Level(u, a[i].node) = Level(t, a[i].node)
  <2>1. a[i].node \in 1 .. Len(t)
    BY <1>2 DEF AgendaFits, ItemFits, IsNode, Levelled
  <2> QED
    BY <2>1, LevelKept
<1>3. ASSUME NEW i \in 1 .. (Len(a) - 1) PROVE Stacked(u, a[i], a[i + 1])
  <2>1. i \in 1 .. Len(a) /\ i + 1 \in 1 .. Len(a)
    OBVIOUS
  <2>2. Stacked(t, a[i], a[i + 1])
    BY DEF AgendaFits
  <2> QED
    BY <1>2, <2>1, <2>2 DEF Stacked
<1> QED
  BY <1>1, <1>3 DEF AgendaFits

LEMMA AgendaTail ==
  ASSUME NEW t, NEW a \in Seq(Item), AgendaFits(a, t), a # << >>
  PROVE /\ AgendaFits(Tail(a), t) /\ ItemFits(t, Head(a))
        /\ Tail(a) = << >> <=> Head(a).what = "fn"
        /\ Tail(a) # << >> => Stacked(t, Head(a), Head(Tail(a)))
        /\ Head(a).what \in Parts => \A i \in 1 .. Len(Tail(a)) : Tail(a)[i].what \in BodyKinds
        /\ \A i \in 1 .. Len(Tail(a)) :
             Head(a).what \notin Levelled /\ Tail(a)[i].what \notin Levelled =>
               \/ Head(a).node > Tail(a)[i].node
               \/ Head(a).what = "argument" /\ i = 1 /\ Head(a).node = Tail(a)[i].node
<1> DEFINE b == Tail(a)
<1>1. /\ b \in Seq(Item) /\ Len(b) = Len(a) - 1 /\ Len(a) \in Nat \ {0}
      /\ \A i \in 1 .. Len(b) : b[i] = a[i + 1]
      /\ Head(a) = a[1]
  BY Tailed
<1>2. b # << >> => Len(b) > 0 /\ b[Len(b)] = a[Len(a)] /\ Head(b) = b[1] /\ b[1] = a[2]
  BY <1>1
<1>3. b = << >> => Len(a) = 1
  BY <1>1
<1> HIDE DEF b
<1>4. \A i \in 1 .. Len(b) : i + 1 \in 1 .. Len(a) /\ i + 1 > 1 /\ (i = 1 <=> i + 1 = 1 + 1)
  BY <1>1
<1>5. ItemFits(t, Head(a)) /\ \A i \in 1 .. Len(b) : ItemFits(t, b[i])
  BY <1>1, <1>4 DEF AgendaFits
<1>6. \A i \in 1 .. (Len(b) - 1) : Stacked(t, b[i], b[i + 1])
  <2> SUFFICES ASSUME NEW i \in 1 .. (Len(b) - 1) PROVE Stacked(t, b[i], b[i + 1])
    OBVIOUS
  <2>1. i + 1 \in 1 .. (Len(a) - 1) /\ b[i] = a[i + 1] /\ b[i + 1] = a[(i + 1) + 1]
    BY <1>1
  <2> QED
    BY <2>1 DEF AgendaFits
<1>7. \A i, j \in 1 .. Len(b) : i < j => Above(b, i, j)
  <2> SUFFICES ASSUME NEW i \in 1 .. Len(b), NEW j \in 1 .. Len(b), i < j PROVE Above(b, i, j)
    OBVIOUS
  <2>1. /\ i + 1 \in 1 .. Len(a) /\ j + 1 \in 1 .. Len(a) /\ i + 1 < j + 1
        /\ b[i] = a[i + 1] /\ b[j] = a[j + 1] /\ (j + 1 = (i + 1) + 1 => j = i + 1)
    BY <1>1
  <2>2. Above(a, i + 1, j + 1)
    BY <2>1 DEF AgendaFits
  <2> QED
    BY <2>1, <2>2 DEF Above
<1>8. ASSUME NEW i \in 1 .. Len(b) PROVE Above(a, 1, i + 1) /\ b[i] = a[i + 1] /\ (i + 1 = 1 + 1 => i = 1)
  <2>1. 1 \in 1 .. Len(a) /\ 1 < i + 1 /\ i + 1 \in 1 .. Len(a)
    BY <1>1
  <2> QED
    BY <1>1, <2>1 DEF AgendaFits
<1>9. b # << >> => Stacked(t, a[1], a[2]) /\ 1 + 1 = 2
  <2>1. b # << >> => 1 \in 1 .. (Len(a) - 1)
    BY <1>1, <1>2
  <2> QED
    BY <2>1 DEF AgendaFits
<1>10. b = << >> => Head(a).what = "fn"
  BY <1>1, <1>3 DEF AgendaFits
<1>11. b # << >> => Head(a).what # "fn" /\ b[Len(b)].what = "fn"
  BY <1>1, <1>2, <1>9 DEF AgendaFits, Stacked
<1>12. AgendaFits(b, t)
  BY <1>5, <1>6, <1>7, <1>11 DEF AgendaFits
<1>13. Head(a).what \in Parts => \A i \in 1 .. Len(b) : b[i].what \in BodyKinds
  BY <1>1, <1>8 DEF Above
<1>14. \A i \in 1 .. Len(b) :
         Head(a).what \notin Levelled /\ b[i].what \notin Levelled =>
           \/ Head(a).node > b[i].node
           \/ Head(a).what = "argument" /\ i = 1 /\ Head(a).node = b[i].node
  BY <1>1, <1>8 DEF Above
<1> QED
  BY <1>1, <1>2, <1>5, <1>9, <1>10, <1>11, <1>12, <1>13, <1>14 DEF b

(* All items of a body's agenda are bodies.                                *)
OnlyBodies(a) == \A i \in 1 .. Len(a) : a[i].what \in BodyKinds
Older(a, n) == \A i \in 1 .. Len(a) : a[i].what \notin Levelled => n > a[i].node

LEMMA AgendaPush ==
  ASSUME NEW t, NEW a \in Seq(Item), AgendaFits(a, t), NEW x \in Item, ItemFits(t, x),
         a # << >> => Stacked(t, x, Head(a)),
         a = << >> => x.what = "fn",
         x.what \in Parts => OnlyBodies(a),
         x.what \notin Levelled =>
           \/ Older(a, x.node)
           \/ /\ x.what = "argument" /\ a # << >> /\ x.node = Head(a).node
              /\ Older(Tail(a), x.node)
  PROVE << x >> \o a \in Seq(Item) /\ AgendaFits(<< x >> \o a, t)
<1> DEFINE b == << x >> \o a
<1>1. /\ b \in Seq(Item) /\ Len(b) = Len(a) + 1 /\ Len(a) \in Nat
      /\ b[1] = x
      /\ \A i \in 1 .. Len(a) : b[i + 1] = a[i]
      /\ \A i \in 2 .. (Len(a) + 1) : b[i] = a[i - 1]
  BY Pushed
<1>2. a # << >> => Len(a) > 0 /\ Head(a) = a[1]
  OBVIOUS
<1>3. a = << >> => Len(a) = 0
  OBVIOUS
<1> HIDE DEF b
<1>4. ASSUME NEW i \in 1 .. Len(b) PROVE i = 1 \/ (i - 1 \in 1 .. Len(a) /\ b[i] = a[i - 1])
  BY <1>1
<1>5. \A i \in 1 .. Len(b) : ItemFits(t, b[i])
  BY <1>1, <1>4 DEF AgendaFits
<1>6. ASSUME NEW i \in 1 .. (Len(b) - 1) PROVE Stacked(t, b[i], b[i + 1])
  <2>1. i \in 1 .. Len(a) /\ b[i + 1] = a[i]
    BY <1>1
  <2>2. CASE i = 1
    BY <1>1, <1>2, <1>3, <2>1, <2>2
  <2>3. CASE i # 1
    <3>1. i - 1 \in 1 .. (Len(a) - 1) /\ b[i] = a[i - 1] /\ a[i] = a[(i - 1) + 1]
      BY <1>1, <2>1, <2>3
    <3> QED
      BY <2>1, <3>1 DEF AgendaFits
  <2> QED
    BY <2>2, <2>3
<1>7. ASSUME NEW i \in 1 .. Len(b), NEW j \in 1 .. Len(b), i < j PROVE Above(b, i, j)
  <2>1. j - 1 \in 1 .. Len(a) /\ b[j] = a[j - 1]
    BY <1>1, <1>7
  <2>2. CASE i = 1
    <3>1. x.what \in Parts => b[j].what \in BodyKinds
      BY <2>1 DEF OnlyBodies
    <3>2. CASE Older(a, x.node)
      BY <1>1, <2>1, <2>2, <3>1, <3>2 DEF Above, Older
    <3>3. CASE /\ x.what = "argument" /\ a # << >> /\ x.node = Head(a).node
               /\ Older(Tail(a), x.node)
      <4>1. CASE j = 2
        BY <1>1, <1>2, <2>1, <2>2, <3>1, <3>3, <4>1 DEF Above
      <4>2. CASE j # 2
        <5>1. j - 2 \in 1 .. Len(Tail(a)) /\ Tail(a)[j - 2] = a[(j - 2) + 1] /\ (j - 2) + 1 = j - 1
          BY <1>7, <2>1, <2>2, <3>3, <4>2
        <5>2. b[j].what \notin Levelled => x.node > b[j].node
          BY <2>1, <3>3, <5>1 DEF Older
        <5> QED
          BY <1>1, <2>2, <3>1, <5>2 DEF Above
      <4> QED
        BY <4>1, <4>2
    <3>4. CASE x.what \in Levelled
      BY <1>1, <2>2, <3>1, <3>4 DEF Above
    <3> QED
      BY <3>2, <3>3, <3>4
  <2>3. CASE i # 1
    <3>1. i - 1 \in 1 .. Len(a) /\ b[i] = a[i - 1] /\ i - 1 < j - 1 /\ (j - 1 = (i - 1) + 1 => j = i + 1)
      BY <1>1, <1>7, <2>3
    <3>2. Above(a, i - 1, j - 1)
      BY <2>1, <3>1 DEF AgendaFits
    <3> QED
      BY <2>1, <3>1, <3>2 DEF Above
  <2> QED
    BY <2>2, <2>3
<1>8. b[Len(b)].what = "fn"
  <2>1. CASE a = << >>
    BY <1>1, <1>3, <2>1
  <2>2. CASE a # << >>
    <3>1. b[Len(b)] = a[Len(a)]
      BY <1>1, <1>2, <2>2
    <3> QED
      BY <2>2, <3>1 DEF AgendaFits
  <2> QED
    BY <2>1, <2>2
<1> QED
  BY <1>1, <1>5, <1>6, <1>7, <1>8 DEF AgendaFits, b

LEMMA BodyAtHead ==
  ASSUME NEW t, NEW a \in Seq(Item), AgendaFits(a, t), a # << >>, Head(a).what \in BodyKinds
  PROVE OnlyBodies(a)
<1>1. /\ \A i \in 1 .. Len(Tail(a)) : Tail(a)[i].what \in BodyKinds /\ Tail(a)[i] = a[i + 1]
      /\ Len(Tail(a)) = Len(a) - 1 /\ Head(a) = a[1]
  BY AgendaTail, Tailed DEF Parts
<1>2. ASSUME NEW i \in 1 .. Len(a) PROVE a[i].what \in BodyKinds
  <2>1. i = 1 \/ (i - 1 \in 1 .. Len(Tail(a)) /\ Tail(a)[i - 1] = a[(i - 1) + 1] /\ (i - 1) + 1 = i)
    BY <1>1
  <2> QED
    BY <1>1, <2>1
<1> QED
  BY <1>2 DEF OnlyBodies

(* Items are older than the newest node.                                   *)
LEMMA ItemsOld ==
  ASSUME NEW t \in Seq(TreeNode), NEW a \in Seq(Item), AgendaFits(a, t)
  PROVE /\ Older(a, Len(t) + 1)
        /\ \A i \in 1 .. Len(a) : a[i].what \notin Levelled =>
             a[i].node \in 1 .. Len(t) /\ Free(t, a[i].node)
BY DEF AgendaFits, ItemFits, IsNode, Older

-----------------------------------------------------------------------------
(* The parser keeps the tree and the agenda in order.                      *)

Syntax ==
  /\ ast \in Seq(TreeNode) /\ agenda \in Seq(Item) /\ value \in Nat
  /\ token \in Infix \cup {"none"}
  /\ TreeFits(ast) /\ AgendaFits(agenda, ast) /\ ValueFits(agenda, ast, value, token)

SyntaxKept == Syntax' /\ Extends(ast, ast')

LEMMA AtHead ==
  ASSUME Syntax, NEW what, Doing(what)
  PROVE /\ agenda # << >> /\ Head(agenda).what \in what /\ Head(agenda) \in Item
        /\ Tail(agenda) \in Seq(Item) /\ AgendaFits(Tail(agenda), ast)
        /\ ItemFits(ast, Head(agenda))
        /\ agenda = << Head(agenda) >> \o Tail(agenda)
        /\ NewId \in Nat /\ NewId > 0 /\ Len(ast) \in Nat /\ Len(agenda) \in Nat
<1>1. agenda # << >> /\ Head(agenda).what \in what
  BY DEF Doing
<1>2. agenda \in Seq(Item) /\ AgendaFits(agenda, ast)
  BY DEF Syntax
<1>3. Head(agenda) \in Item /\ Tail(agenda) \in Seq(Item) /\ agenda = << Head(agenda) >> \o Tail(agenda)
  BY <1>1, <1>2
<1>4. AgendaFits(Tail(agenda), ast) /\ ItemFits(ast, Head(agenda))
  BY <1>1, <1>2, AgendaTail
<1>5. NewId \in Nat /\ NewId > 0 /\ Len(ast) \in Nat /\ Len(agenda) \in Nat
  BY DEF Syntax, NewId
<1> QED
  BY <1>1, <1>2, <1>3, <1>4, <1>5

(* A leaf is an operand: the loop over the operators begins.               *)
LEMMA LeafSafe ==
  ASSUME Syntax, Doing({"expr"}), NEW x, Addition(ast, x), x.kids = << >>,
         x.kind \in Operands, ast' = ast \o << x >>, value' = NewId, Operand,
         token' \in Infix \cup {"none"}
  PROVE SyntaxKept
<1> DEFINE n == Len(ast) + 1
           h == Head(agenda)
           b == Tail(agenda)
           y == InfixItem(h.level)
<1>1. /\ h \in Item /\ h.what = "expr" /\ b \in Seq(Item) /\ AgendaFits(b, ast)
      /\ agenda # << >> /\ agenda \in Seq(Item) /\ AgendaFits(agenda, ast) /\ n \in Nat
      /\ ast \in Seq(TreeNode) /\ TreeFits(ast)
  BY AtHead DEF Syntax, NewId
<1>2. /\ ast' \in Seq(TreeNode) /\ Len(ast') = n /\ TreeFits(ast') /\ Extends(ast, ast')
      /\ ast'[n] = x /\ \A m \in 1 .. Len(ast) : ast'[m] = ast[m]
      /\ \A m : Free(ast, m) => Free(ast', m)
      /\ Free(ast', n)
  <2>1. \A m : ~HasKid(x, m)
    BY DEF HasKid
  <2>2. Grown(ast, ast', x)
    BY <1>1, TreeGrown
  <2> QED
    BY <2>1, <2>2 DEF Grown
<1>3. AgendaFits(b, ast')
  <2>1. ASSUME NEW i \in 1 .. Len(b), b[i].what \notin Levelled
        PROVE ast'[b[i].node].kids = ast[b[i].node].kids /\ Free(ast', b[i].node)
    BY <1>1, <1>2, <2>1, ItemsOld DEF Syntax
  <2> QED
    BY <1>1, <1>2, <2>1, AgendaKept
<1>4. y \in Item /\ y.what = "infix" /\ y.level = h.level /\ h.level \in 0 .. 10
  BY <1>1, ItemFields, MadeItems DEF Levelled
<1>5. /\ b # << >>
      /\ Stacked(ast, h, Head(b))
  BY <1>1, AgendaTail
<1>6. Stacked(ast', y, Head(b))
  <2>1. /\ Head(b).what \in Enders \cup BodyKinds
        /\ Head(b).what = "right" => h.level = Level(ast, Head(b).node)
    BY <1>1, <1>5 DEF Stacked, Levelled
  <2>2. Head(b).what = "right" => Level(ast', Head(b).node) = Level(ast, Head(b).node)
    <3>1. Head(b) = b[1] /\ 1 \in 1 .. Len(b)
      BY <1>1, <1>5
    <3>2. Head(b).what = "right" => Head(b).node \in 1 .. Len(ast)
      BY <1>1, <3>1, ItemsOld DEF Levelled, Syntax
    <3> QED
      BY <1>2, <3>2, LevelKept
  <2> QED
    BY <1>4, <2>1, <2>2 DEF Stacked, Levelled, Parts, BodyKinds
<1>7. agenda' = << y >> \o b
  BY DEF Operand, Replace
<1> HIDE DEF y, b, h, n
<1>8. agenda' \in Seq(Item) /\ AgendaFits(agenda', ast')
  <2>1. ItemFits(ast', y) /\ y.what \notin Parts /\ y.what \in Levelled
    BY <1>4 DEF ItemFits, Levelled, Parts, BodyKinds
  <2> QED
    BY <1>1, <1>3, <1>4, <1>5, <1>6, <1>7, <2>1, AgendaPush
<1>9. ValueFits(agenda', ast', value', token')
  <2>1. /\ Head(agenda') = y /\ Len(agenda') = Len(b) + 1
        /\ agenda'[1] = y /\ \A i \in 2 .. (Len(b) + 1) : agenda'[i] = b[i - 1]
    BY <1>1, <1>4, <1>7, Pushed
  <2>2. ASSUME NEW i \in 1 .. Len(agenda'), agenda'[i].what \notin Levelled
        PROVE n > agenda'[i].node
    <3>1. i # 1
      BY <1>4, <2>1, <2>2 DEF Levelled
    <3>2. i - 1 \in 1 .. Len(b) /\ agenda'[i] = b[i - 1]
      BY <2>1, <3>1, Len(b) \in Nat, <1>1
    <3> QED
      BY <1>1, <2>2, <3>2, ItemsOld DEF Syntax, Older, n
  <2>3. n \in 1 .. Len(ast') /\ value' = n /\ ast'[n].kind \in Operands
    BY <1>1, <1>2 DEF n, NewId
  <2>4. Level(ast', n) = 11
    BY <1>2 DEF Addition, Level
  <2>5. Precedence(token') <= 11
    BY TokenPrecedence
  <2>6. Level(ast', value') > Head(agenda').level /\ Precedence(token') <= Level(ast', value')
    BY <1>4, <2>1, <2>3, <2>4, <2>5
  <2>7. Head(agenda').what = "infix" /\ Free(ast', value')
    BY <1>2, <1>4, <2>1, <2>3
  <2> QED
    BY <2>2, <2>3, <2>6, <2>7 DEF ValueFits
<1> QED
  BY <1>1, <1>2, <1>8, <1>9 DEF SyntaxKept, Syntax, n, NewId

LEMMA GrownAgenda ==
  ASSUME NEW t \in Seq(TreeNode), NEW u, NEW x, Grown(t, u, x),
         NEW a \in Seq(Item), AgendaFits(a, t), \A v : HasKid(x, v) => Older(a, v)
  PROVE AgendaFits(a, u)
<1>1. ASSUME NEW i \in 1 .. Len(a), a[i].what \notin Levelled
      PROVE u[a[i].node].kids = t[a[i].node].kids /\ Free(u, a[i].node)
  <2>1. a[i].node \in 1 .. Len(t) /\ Free(t, a[i].node)
    BY <1>1, ItemsOld
  <2>2. ~HasKid(x, a[i].node)
    <3>1. ASSUME HasKid(x, a[i].node) PROVE FALSE
      <4>1. a[i].node > a[i].node
        BY <1>1, <3>1 DEF Older
      <4> QED
        BY <2>1, <4>1
    <3> QED
      BY <3>1
  <2> QED
    BY <2>1, <2>2 DEF Grown
<1>2. Extends(t, u)
  BY DEF Grown
<1> QED
  BY <1>1, <1>2, AgendaKept

LEMMA GivenAgenda ==
  ASSUME NEW t \in Seq(TreeNode), NEW u, NEW n, NEW v, Given(t, u, n, v),
         NEW a \in Seq(Item), AgendaFits(a, t), Older(a, v),
         \A i \in 1 .. Len(a) :
           a[i].what \notin Levelled => a[i].what = "call" \/ a[i].node # n
  PROVE AgendaFits(a, u)
<1>1. ASSUME NEW i \in 1 .. Len(a), a[i].what \notin Levelled
      PROVE /\ a[i].what = "call" \/ u[a[i].node].kids = t[a[i].node].kids
            /\ Free(u, a[i].node)
  <2>1. a[i].node \in 1 .. Len(t) /\ Free(t, a[i].node)
    BY <1>1, ItemsOld
  <2>2. a[i].node # v
    <3>1. v > a[i].node
      BY <1>1 DEF Older
    <3> QED
      BY <2>1, <3>1
  <2> QED
    BY <1>1, <2>1, <2>2 DEF Given
<1>2. Extends(t, u)
  BY DEF Given
<1> QED
  BY <1>1, <1>2, AgendaKept

(* The head, the item below it, and the nodes below it.                    *)
NextFits(t, x, b) ==
  b # << >> /\ Head(b) \in Item /\ Stacked(t, x, Head(b)) /\ ItemFits(t, Head(b))
HolderFits(t, x, b) ==
  /\ x.node \in 1 .. Len(t) /\ Free(t, x.node) /\ t[x.node].kind = KindOf(x.what)
  /\ x.what # "argument" => Older(b, x.node)
  /\ x.what = "argument" => Older(Tail(b), x.node)

LEMMA BelowHead ==
  ASSUME NEW t \in Seq(TreeNode), NEW a \in Seq(Item), AgendaFits(a, t), a # << >>
  PROVE /\ Head(a).what # "fn" => NextFits(t, Head(a), Tail(a))
        /\ Head(a).what \notin Levelled => HolderFits(t, Head(a), Tail(a))
        /\ \A v : Older(a, v) => Older(Tail(a), v)
<1> DEFINE b == Tail(a)
<1>1. /\ b \in Seq(Item) /\ AgendaFits(b, t) /\ ItemFits(t, Head(a)) /\ Len(b) = Len(a) - 1
      /\ \A i \in 1 .. Len(b) : b[i] = a[i + 1]
  BY AgendaTail, Tailed
<1>2. Head(a).what # "fn" => b # << >> /\ Stacked(t, Head(a), Head(b))
  BY AgendaTail
<1>3. ASSUME NEW i \in 1 .. Len(b), Head(a).what \notin Levelled, b[i].what \notin Levelled
      PROVE \/ Head(a).node > b[i].node
            \/ Head(a).what = "argument" /\ i = 1 /\ Head(a).node = b[i].node
  BY <1>3, AgendaTail
<1>4. b # << >> => Head(b) \in Item /\ ItemFits(t, Head(b))
  <2> HIDE DEF b
  <2>1. b # << >> => Head(b) \in Item /\ Head(b) = b[1] /\ 1 \in 1 .. Len(b)
    BY <1>1
  <2> QED
    BY <1>1, <2>1 DEF AgendaFits
<1>5. ASSUME NEW v, Older(a, v) PROVE Older(b, v)
  <2>1. \A i \in 1 .. Len(b) : i + 1 \in 1 .. Len(a)
    BY <1>1
  <2> QED
    BY <1>1, <1>5, <2>1 DEF Older
<1>6. Head(a).what \notin Levelled /\ Head(a).what # "argument" => Older(b, Head(a).node)
  BY <1>3 DEF Older
<1>7. ASSUME Head(a).what = "argument" PROVE Older(Tail(b), Head(a).node)
  <2>1. b # << >>
    BY <1>2, <1>7
  <2>2. \A i \in 1 .. Len(Tail(b)) : Tail(b)[i] = b[i + 1] /\ i + 1 \in 1 .. Len(b) /\ i + 1 # 1
    BY <1>1, <2>1, Tailed
  <2> QED
    BY <1>3, <1>7, <2>2 DEF Older, Levelled
<1>8. Head(a).what \notin Levelled =>
        /\ Head(a).node \in 1 .. Len(t) /\ Free(t, Head(a).node)
        /\ t[Head(a).node].kind = KindOf(Head(a).what)
  BY <1>1 DEF ItemFits, IsNode
<1> HIDE DEF b
<1>9. Head(a).what # "fn" => NextFits(t, Head(a), b)
  BY <1>2, <1>4 DEF NextFits
<1>10. Head(a).what \notin Levelled => HolderFits(t, Head(a), b)
  BY <1>6, <1>7, <1>8 DEF HolderFits
<1>11. \A v : Older(a, v) => Older(b, v)
  BY <1>5
<1> USE DEF b
<1> QED
  BY <1>9, <1>10, <1>11

-----------------------------------------------------------------------------
(* The steps of the parser, one by one.                                    *)

(* Items that stand on the agenda while nothing waits for a value.         *)
LEMMA NothingWaits ==
  ASSUME NEW a, NEW t, NEW v, NEW k, a # << >> => Head(a).what \notin Enders \cup {"infix"}
  PROVE ValueFits(a, t, v, k)
BY DEF ValueFits

LEMMA BeginCallSafe == Syntax /\ BeginCall => SyntaxKept
<1> SUFFICES ASSUME Syntax, BeginCall PROVE SyntaxKept
  OBVIOUS
<1> DEFINE h == Head(agenda)
           b == Tail(agenda)
           y == InfixItem(h.level)
           c == NodeItem("call", NewId)
<1>1. PICK f \in FnNames : ast' = ast \o << Node("call", f) >>
  BY DEF BeginCall, AddNodes
<1> DEFINE x == Node("call", f)
<1>2. /\ h \in Item /\ h.what = "expr" /\ b \in Seq(Item) /\ AgendaFits(b, ast)
      /\ agenda # << >> /\ agenda \in Seq(Item) /\ AgendaFits(agenda, ast)
      /\ NewId = Len(ast) + 1 /\ NewId \in Nat
      /\ ast \in Seq(TreeNode) /\ TreeFits(ast)
  BY AtHead DEF BeginCall, Syntax, NewId
<1>3. /\ x \in TreeNode /\ x.kind = "call" /\ x.kids = << >> /\ x.fn = 0
  BY DEF TreeNode, Node, NodeKinds, AllNames
<1>4. Addition(ast, x) /\ \A m : ~HasKid(x, m)
  BY <1>3 DEF Addition, HasKid
<1> HIDE DEF x
<1>5. Grown(ast, ast', x)
  BY <1>1, <1>2, <1>4, TreeGrown DEF x
<1>6. AgendaFits(b, ast')
  BY <1>2, <1>4, <1>5, GrownAgenda
<1>7. y \in Item /\ y.what = "infix" /\ y.level = h.level
  BY <1>2, ItemFields, MadeItems DEF Levelled
<1>8. c \in Item /\ c.what = "call" /\ c.node = NewId
  BY <1>2, MadeItems
<1>9. NextFits(ast, h, b)
  BY <1>2, BelowHead
<1>10. Stacked(ast', y, Head(b)) /\ b # << >>
  <2>1. /\ Head(b).what \in Enders \cup BodyKinds
        /\ Head(b).what = "right" => h.level = Level(ast, Head(b).node) /\ Head(b).node \in 1 .. Len(ast)
    BY <1>2, <1>9 DEF NextFits, Stacked, Levelled, ItemFits, IsNode
  <2>2. Head(b).what = "right" => Level(ast', Head(b).node) = Level(ast, Head(b).node)
    BY <1>5, <2>1, LevelKept DEF Grown
  <2> QED
    BY <1>7, <1>9, <2>1, <2>2 DEF NextFits, Stacked, Levelled, Parts, BodyKinds
<1> HIDE DEF y, b, h, c
<1>11. << y >> \o b \in Seq(Item) /\ AgendaFits(<< y >> \o b, ast')
  <2>1. ItemFits(ast', y) /\ y.what \notin Parts /\ y.what \in Levelled
    BY <1>7 DEF ItemFits, Levelled, Parts, BodyKinds
  <2> QED
    BY <1>2, <1>6, <1>7, <1>10, <2>1, AgendaPush
<1> DEFINE d == << y >> \o b
<1>12. /\ Head(d) = y /\ d # << >> /\ Len(d) = Len(b) + 1
       /\ d[1] = y /\ \A i \in 2 .. (Len(b) + 1) : d[i] = b[i - 1]
  BY <1>2, <1>7, Pushed
<1> HIDE DEF d
<1>13. Older(d, NewId)
  <2>1. Older(b, NewId)
    BY <1>2, ItemsOld
  <2>2. ASSUME NEW i \in 1 .. Len(d) PROVE i = 1 \/ (i - 1 \in 1 .. Len(b) /\ d[i] = b[i - 1])
    BY <1>2, <1>12
  <2> QED
    BY <1>7, <1>12, <2>1, <2>2 DEF Older, Levelled
<1>14. agenda' = << c >> \o d
  BY <1>2, <1>7, <1>8, PushedTwo DEF BeginCall, Replace, c, y, d, b, h
<1>15. agenda' \in Seq(Item) /\ AgendaFits(agenda', ast')
  <2>1. ItemFits(ast', c)
    BY <1>2, <1>3, <1>5, <1>8 DEF ItemFits, IsNode, KindOf, Levelled, Grown
  <2>2. Stacked(ast', c, Head(d))
    BY <1>7, <1>8, <1>12 DEF Stacked, Levelled, Parts, BodyKinds
  <2> QED
    BY <1>8, <1>11, <1>12, <1>13, <1>14, <2>1, <2>2, AgendaPush DEF d, Parts, BodyKinds
<1>16. ValueFits(agenda', ast', value', token')
  <2>1. Head(agenda').what = "call"
    BY <1>8, <1>11, <1>14, Pushed DEF d
  <2> QED
    BY <2>1, NothingWaits DEF Enders
<1>17. value' = value /\ token' = token
  BY DEF BeginCall
<1> QED
  BY <1>5, <1>15, <1>16, <1>17 DEF SyntaxKept, Syntax, Grown

(* An expression that somebody waits for.                                  *)
Waiting(d, t) ==
  d \in Seq(Item) /\ AgendaFits(d, t) /\ d # << >> /\ Head(d).what = "expr"
Newer(y, b) ==
  \/ Older(b, y.node)
  \/ y.what = "argument" /\ y.node = Head(b).node /\ Older(Tail(b), y.node)

LEMMA PushExpr ==
  ASSUME NEW t, NEW b \in Seq(Item), AgendaFits(b, t), b # << >>,
         NEW y \in Item, y.what \in Enders, ItemFits(t, y), Stacked(t, y, Head(b)),
         y.what \in Parts => OnlyBodies(b),
         Newer(y, b), NEW l \in 0 .. 10, y.what = "right" => l = Level(t, y.node)
  PROVE Waiting(<< ExprItem(l), y >> \o b, t)
<1> DEFINE x == ExprItem(l)
           c == << y >> \o b
<1>1. c \in Seq(Item) /\ AgendaFits(c, t)
  BY AgendaPush DEF Newer, Enders
<1>2. x \in Item /\ x.what = "expr" /\ x.level = l
  BY MadeItems
<1>3. << x, y >> \o b = << x >> \o c /\ Head(c) = y /\ c # << >>
  BY <1>2, PushedTwo, Pushed
<1> HIDE DEF x, c
<1>4. ItemFits(t, x) /\ Stacked(t, x, y)
  BY <1>2 DEF ItemFits, Stacked, Levelled, Parts, BodyKinds
<1>5. << x >> \o c \in Seq(Item) /\ AgendaFits(<< x >> \o c, t)
  BY <1>1, <1>2, <1>3, <1>4, AgendaPush DEF Levelled, Parts, BodyKinds
<1>6. << x >> \o c # << >> /\ Head(<< x >> \o c).what = "expr"
  BY <1>1, <1>2, Pushed
<1> QED
  BY <1>3, <1>5, <1>6 DEF x, Waiting

LEMMA ParseArgumentSafe == Syntax /\ ParseArgument => SyntaxKept
<1> SUFFICES ASSUME Syntax, ParseArgument PROVE SyntaxKept
  OBVIOUS
<1> DEFINE y == NodeItem("argument", Head(agenda).node)
<1>1. /\ Head(agenda) \in Item /\ Head(agenda).what = "call"
      /\ agenda # << >> /\ agenda \in Seq(Item) /\ AgendaFits(agenda, ast)
      /\ ast \in Seq(TreeNode)
  BY AtHead DEF ParseArgument, Syntax
<1>2. HolderFits(ast, Head(agenda), Tail(agenda))
  BY <1>1, BelowHead DEF Levelled
<1>3. /\ y \in Item /\ y.what = "argument" /\ y.node = Head(agenda).node
  BY <1>1, ItemFields, MadeItems DEF Levelled, Enders
<1> HIDE DEF y
<1>4. ItemFits(ast, y)
  BY <1>1, <1>2, <1>3 DEF ItemFits, IsNode, HolderFits, KindOf, Levelled
<1>5. Stacked(ast, y, Head(agenda))
  BY <1>1, <1>3 DEF Stacked, Levelled, Parts, BodyKinds
<1>6. y.what \notin Parts /\ y.what \in Enders /\ Older(Tail(agenda), y.node)
  BY <1>1, <1>2, <1>3 DEF HolderFits, Parts, BodyKinds, Enders
<1>7. agenda' = << ExprItem(0), y >> \o agenda
  BY DEF ParseArgument, Enter, y
<1>8. /\ agenda' \in Seq(Item) /\ AgendaFits(agenda', ast) /\ agenda' # << >>
      /\ Head(agenda').what = "expr"
  <2>1. Newer(y, agenda) /\ 0 \in 0 .. 10 /\ y.what # "right"
    BY <1>3, <1>6 DEF Newer
  <2>2. Waiting(agenda', ast)
    BY <1>1, <1>3, <1>4, <1>5, <1>6, <1>7, <2>1, PushExpr
  <2> QED
    BY <2>2 DEF Waiting
<1>9. ast' = ast /\ value' = value /\ token' = token
  BY DEF ParseArgument, treeVars
<1>10. ValueFits(agenda', ast', value', token')
  BY <1>8, NothingWaits DEF Enders
<1>11. Extends(ast, ast)
  BY DEF Syntax, Extends
<1> QED
  BY <1>8, <1>9, <1>10, <1>11 DEF SyntaxKept, Syntax

LEMMA BeginExprStatementSafe == Syntax /\ BeginExprStatement => SyntaxKept
<1> SUFFICES ASSUME Syntax, BeginExprStatement PROVE SyntaxKept
  OBVIOUS
<1> DEFINE x == ExprItem(0)
<1>1. /\ Head(agenda) \in Item /\ Head(agenda).what \in BodyKinds
      /\ agenda # << >> /\ agenda \in Seq(Item) /\ AgendaFits(agenda, ast)
  BY AtHead DEF BeginExprStatement, InBody, Syntax
<1>2. x \in Item /\ x.what = "expr" /\ x.level = 0
  BY MadeItems
<1>3. agenda' = << x >> \o agenda
  BY DEF BeginExprStatement, Enter
<1> HIDE DEF x
<1>4. ItemFits(ast, x) /\ Stacked(ast, x, Head(agenda))
  BY <1>1, <1>2 DEF ItemFits, Stacked, Levelled, Parts, BodyKinds
<1>5. agenda' \in Seq(Item) /\ AgendaFits(agenda', ast)
  BY <1>1, <1>2, <1>3, <1>4, AgendaPush DEF Levelled, Parts, BodyKinds
<1>6. agenda' # << >> /\ Head(agenda').what = "expr"
  BY <1>1, <1>2, <1>3, Pushed
<1>7. ast' = ast /\ value' = value /\ token' = token
  BY DEF BeginExprStatement, treeVars
<1>8. ValueFits(agenda', ast', value', token')
  BY <1>6, NothingWaits DEF Enders
<1>9. Extends(ast, ast)
  BY DEF Syntax, Extends
<1> QED
  BY <1>5, <1>7, <1>8, <1>9 DEF SyntaxKept, Syntax

(* A statement with an expression: a node that has no kid yet.             *)
LEMMA StatementSafe ==
  ASSUME Syntax, Doing(BodyKinds), NEW x, Addition(ast, x), x.kids = << >>,
         NEW what \in Parts \ BodyKinds, x.kind = KindOf(what),
         ast' = ast \o << x >>, Enter(<< ExprItem(0), NodeItem(what, NewId) >>),
         value' = value, token' = token
  PROVE SyntaxKept
<1> DEFINE y == NodeItem(what, NewId)
<1>1. /\ Head(agenda).what \in BodyKinds /\ agenda # << >> /\ agenda \in Seq(Item)
      /\ AgendaFits(agenda, ast) /\ ast \in Seq(TreeNode) /\ TreeFits(ast)
      /\ NewId = Len(ast) + 1 /\ NewId \in Nat
  BY AtHead DEF Syntax, NewId
<1>2. \A m : ~HasKid(x, m)
  BY DEF HasKid
<1>3. Grown(ast, ast', x)
  BY <1>1, TreeGrown
<1>4. AgendaFits(agenda, ast')
  BY <1>1, <1>2, <1>3, GrownAgenda
<1>5. y \in Item /\ y.what = what /\ y.node = NewId /\ what \in Enders
  BY <1>1, MadeItems DEF Parts, Enders, BodyKinds
<1> HIDE DEF y
<1>6. ItemFits(ast', y)
  <2>1. IsNode(ast', NewId, KindOf(what)) /\ Free(ast', NewId) /\ ast'[NewId].kids = << >>
    BY <1>1, <1>3 DEF Grown, IsNode
  <2> QED
    BY <1>5, <2>1 DEF ItemFits, Parts, BodyKinds
<1>7. Stacked(ast', y, Head(agenda))
  BY <1>1, <1>5 DEF Stacked, Levelled, Parts, BodyKinds
<1>8. OnlyBodies(agenda) /\ Older(agenda, y.node)
  BY <1>1, <1>5, BodyAtHead, ItemsOld
<1>9. agenda' = << ExprItem(0), y >> \o agenda
  BY DEF Enter, y
<1>10. what # "right"
  BY DEF Parts, BodyKinds
<1>11. /\ agenda' \in Seq(Item) /\ AgendaFits(agenda', ast') /\ agenda' # << >>
       /\ Head(agenda').what = "expr"
  <2>1. Newer(y, agenda) /\ 0 \in 0 .. 10
    BY <1>8 DEF Newer
  <2>2. Waiting(agenda', ast')
    BY <1>1, <1>4, <1>5, <1>6, <1>7, <1>8, <1>9, <1>10, <2>1, PushExpr
  <2> QED
    BY <2>2 DEF Waiting
<1>12. ValueFits(agenda', ast', value', token')
  BY <1>11, NothingWaits DEF Enders
<1> QED
  BY <1>3, <1>11, <1>12 DEF SyntaxKept, Syntax, Grown

(* The value that the head waits for.                                      *)
LEMMA ValueReady ==
  ASSUME Syntax, agenda # << >>, Head(agenda).what \in Enders \cup {"infix"}
  PROVE /\ value \in 1 .. Len(ast) /\ ast[value].kind \in Operands /\ Free(ast, value)
        /\ Older(agenda, value) /\ Older(Tail(agenda), value)
        /\ Head(agenda).what = "infix" =>
             Level(ast, value) > Head(agenda).level /\ Precedence(token) <= Level(ast, value)
        /\ Head(agenda).what = "right" =>
             /\ Level(ast, value) > Level(ast, Head(agenda).node)
             /\ Precedence(token) <= Level(ast, Head(agenda).node)
<1>1. ValueFits(agenda, ast, value, token)
  BY DEF Syntax
<1>2. Older(agenda, value)
  BY <1>1 DEF ValueFits, Older
<1>3. Older(Tail(agenda), value)
  BY <1>2, BelowHead DEF Syntax
<1> QED
  BY <1>1, <1>2, <1>3 DEF ValueFits

(* The head gives the value to its node and leaves.                        *)
LEMMA Giving ==
  ASSUME Syntax, agenda # << >>, Head(agenda).what \in Enders, AddKid(Head(agenda).node)
  PROVE /\ Given(ast, ast', Head(agenda).node, value)
        /\ AgendaFits(Tail(agenda), ast')
        /\ Head(agenda).node \in 1 .. Len(ast) /\ Head(agenda).node # value
<1> DEFINE h == Head(agenda)
           b == Tail(agenda)
           n == h.node
<1>1. /\ agenda \in Seq(Item) /\ AgendaFits(agenda, ast) /\ ast \in Seq(TreeNode) /\ TreeFits(ast)
      /\ b \in Seq(Item) /\ AgendaFits(b, ast) /\ ItemFits(ast, h) /\ h.what \notin Levelled
  BY AgendaTail, Tailed DEF Syntax, Enders, Levelled
<1>2. HolderFits(ast, h, b) /\ NextFits(ast, h, b)
  BY <1>1, BelowHead DEF Enders
<1>3. n \in 1 .. Len(ast) /\ ast[n].kind = KindOf(h.what)
  BY <1>2 DEF HolderFits
<1>4. Expects(ast, n)
  BY <1>1, <1>3 DEF ItemFits, Expects, Enders, KindOf, Levelled
<1>5. ast[n].kind = "binary" => Level(ast, value) > Level(ast, n)
  BY <1>3, ValueReady DEF KindOf, Enders
<1>6. Given(ast, ast', n, value)
  BY <1>1, <1>3, <1>4, <1>5, ValueReady, KidAdded DEF AddKid
<1>7. n # value
  <2>1. agenda[1] = h /\ 1 \in 1 .. Len(agenda)
    BY <1>1
  <2>2. value > n
    BY <1>1, <2>1, ValueReady DEF Older
  <2> QED
    BY <1>3, <2>2
<1>8. ASSUME NEW i \in 1 .. Len(b), b[i].what \notin Levelled
      PROVE b[i].what = "call" \/ b[i].node # n
  <2>1. CASE h.what # "argument"
    <3>1. n > b[i].node
      BY <1>2, <1>8, <2>1 DEF HolderFits, Older
    <3> QED
      BY <1>3, <3>1
  <2>2. CASE h.what = "argument"
    <3>1. b[1].what = "call"
      BY <1>1, <1>2, <2>2 DEF NextFits, Stacked
    <3>2. i # 1 => i - 1 \in 1 .. Len(Tail(b)) /\ Tail(b)[i - 1] = b[i]
      <4>1. b # << >>
        BY <1>8
      <4>2. /\ Len(Tail(b)) = Len(b) - 1 /\ Len(b) \in Nat
            /\ \A j \in 1 .. Len(Tail(b)) : Tail(b)[j] = b[j + 1]
        BY <1>1, <4>1, Tailed
      <4> HIDE DEF b
      <4> QED
        BY <1>8, <4>2
    <3>3. i # 1 => n > b[i].node
      BY <1>2, <1>8, <2>2, <3>2 DEF HolderFits, Older
    <3> QED
      BY <1>3, <3>1, <3>3
  <2> QED
    BY <2>1, <2>2
<1>9. AgendaFits(b, ast')
  BY <1>1, <1>6, <1>8, ValueReady, GivenAgenda
<1> QED
  BY <1>3, <1>6, <1>7, <1>9

LEMMA EndArgumentSafe == Syntax /\ EndArgument => SyntaxKept
<1> SUFFICES ASSUME Syntax, EndArgument PROVE SyntaxKept
  OBVIOUS
<1>1. /\ agenda # << >> /\ Head(agenda).what = "argument" /\ agenda \in Seq(Item)
      /\ AgendaFits(agenda, ast) /\ Tail(agenda) \in Seq(Item) /\ ast \in Seq(TreeNode)
  BY AtHead DEF EndArgument, Syntax
<1>2. Given(ast, ast', Head(agenda).node, value) /\ AgendaFits(Tail(agenda), ast')
  BY <1>1, Giving DEF EndArgument, Enders
<1>3. agenda' = Tail(agenda)
  BY <1>1, PushedNone DEF EndArgument, Replace
<1>4. NextFits(ast, Head(agenda), Tail(agenda))
  BY <1>1, BelowHead
<1>5. Head(Tail(agenda)).what = "call"
  BY <1>1, <1>4 DEF NextFits, Stacked
<1>6. ValueFits(agenda', ast', value', token')
  BY <1>3, <1>5, NothingWaits DEF Enders
<1>7. value' = value /\ token' = token
  BY DEF EndArgument
<1> QED
  BY <1>1, <1>2, <1>3, <1>6, <1>7 DEF SyntaxKept, Syntax, Given

LEMMA EndInfixSafe == Syntax /\ EndInfix => SyntaxKept
<1> SUFFICES ASSUME Syntax, EndInfix PROVE SyntaxKept
  OBVIOUS
<1> DEFINE h == Head(agenda)
           b == Tail(agenda)
           n == h.node
<1>1. /\ agenda # << >> /\ h.what \in {"right", "assign"} /\ agenda \in Seq(Item)
      /\ AgendaFits(agenda, ast) /\ b \in Seq(Item) /\ ast \in Seq(TreeNode) /\ TreeFits(ast)
  BY AtHead DEF EndInfix, Syntax
<1>2. Given(ast, ast', n, value) /\ AgendaFits(b, ast') /\ n \in 1 .. Len(ast) /\ n # value
  BY <1>1, Giving DEF EndInfix, Enders
<1>3. agenda' = b /\ value' = n /\ token' = token
  BY <1>1, PushedNone DEF EndInfix, Replace
<1>4. NextFits(ast, h, b) /\ HolderFits(ast, h, b)
  BY <1>1, BelowHead DEF Levelled
<1>5. /\ b # << >> /\ Head(b).what = "infix"
      /\ h.what = "right" => Head(b).level < Level(ast, n)
      /\ Head(b) \in Item
  BY <1>1, <1>4 DEF NextFits, Stacked
<1>6. Free(ast, n) /\ Older(b, n) /\ ast[n].kind = KindOf(h.what)
  BY <1>1, <1>4 DEF HolderFits
<1>7. /\ n \in 1 .. Len(ast') /\ ast'[n].kind = ast[n].kind /\ Free(ast', n)
      /\ Level(ast', n) = Level(ast, n)
  BY <1>2, <1>6, LevelKept DEF Given, Extends
<1>8. ast'[n].kind \in Operands
  BY <1>1, <1>6, <1>7 DEF KindOf, Operands
<1> HIDE DEF b, n
<1>9. Level(ast, n) > Head(b).level /\ Precedence(token) <= Level(ast, n)
  <2>1. CASE h.what = "right"
    <3>1. Precedence(token) <= Level(ast, n)
      BY <1>1, <2>1, ValueReady DEF Enders, n
    <3>2. Level(ast, n) \in 2 .. 11 /\ Head(b).level \in 0 .. 10
      BY <1>1, <1>2, <1>5, Levels, ItemFields DEF TreeFits, Levelled
    <3> QED
      BY <1>5, <2>1, <3>1, <3>2
  <2>2. CASE h.what = "assign"
    <3>1. Level(ast, n) = 11
      BY <1>6, <2>2 DEF Level, KindOf
    <3>2. Head(b).level \in 0 .. 10
      BY <1>5, ItemFields DEF Levelled
    <3> HIDE DEF h
    <3>3. Precedence(token) \in 0 .. 10
      BY TokenPrecedence DEF Syntax
    <3> QED
      BY <3>1, <3>2, <3>3
  <2> QED
    BY <1>1, <2>1, <2>2
<1>10. ValueFits(b, ast', n, token)
  BY <1>5, <1>6, <1>7, <1>8, <1>9 DEF ValueFits, Older
<1> QED
  BY <1>1, <1>2, <1>3, <1>10 DEF SyntaxKept, Syntax, Given

LEMMA EndCallSafe == Syntax /\ EndCall => SyntaxKept
<1> SUFFICES ASSUME Syntax, EndCall PROVE SyntaxKept
  OBVIOUS
<1> DEFINE h == Head(agenda)
           b == Tail(agenda)
           n == h.node
<1>1. /\ agenda # << >> /\ h.what = "call" /\ agenda \in Seq(Item)
      /\ AgendaFits(agenda, ast) /\ b \in Seq(Item) /\ AgendaFits(b, ast)
      /\ ast \in Seq(TreeNode) /\ TreeFits(ast)
  BY AtHead DEF EndCall, Syntax
<1>2. agenda' = b /\ value' = n /\ ast' = ast /\ token' \in Infix \cup {"none"}
  BY <1>1, PushedNone DEF EndCall, Replace, NextToken
<1>3. NextFits(ast, h, b) /\ HolderFits(ast, h, b)
  BY <1>1, BelowHead DEF Levelled
<1>4. b # << >> /\ Head(b).what = "infix" /\ Head(b) \in Item
  BY <1>1, <1>3 DEF NextFits, Stacked
<1>5. n \in 1 .. Len(ast) /\ Free(ast, n) /\ Older(b, n) /\ ast[n].kind = "call"
  BY <1>1, <1>3 DEF HolderFits, KindOf
<1> HIDE DEF b, n
<1>6. Level(ast, n) > Head(b).level /\ Precedence(token') <= Level(ast, n)
  <2>1. Level(ast, n) = 11
    BY <1>5 DEF Level
  <2>2. Head(b).level \in 0 .. 10
    BY <1>4, ItemFields DEF Levelled
  <2>3. Precedence(token') \in 0 .. 10
    BY <1>2, TokenPrecedence
  <2> QED
    BY <2>1, <2>2, <2>3
<1>7. ValueFits(b, ast, n, token')
  BY <1>4, <1>5, <1>6 DEF ValueFits, Older, Operands
<1>8. n \in Nat /\ Extends(ast, ast)
  BY <1>1, <1>5 DEF Extends
<1> QED
  BY <1>1, <1>2, <1>7, <1>8 DEF SyntaxKept, Syntax

LEMMA EndExpressionSafe == Syntax /\ EndExpression => SyntaxKept
<1> SUFFICES ASSUME Syntax, EndExpression PROVE SyntaxKept
  OBVIOUS
<1> DEFINE h == Head(agenda)
           b == Tail(agenda)
<1>1. /\ agenda # << >> /\ h.what = "infix" /\ h \in Item /\ agenda \in Seq(Item)
      /\ AgendaFits(agenda, ast) /\ b \in Seq(Item) /\ AgendaFits(b, ast)
      /\ ast \in Seq(TreeNode) /\ token \in Infix \cup {"none"}
  BY AtHead DEF EndExpression, Syntax
<1>2. agenda' = b /\ value' = value /\ ast' = ast /\ token' = token
  BY <1>1, PushedNone DEF EndExpression, Replace, treeVars
<1>3. NextFits(ast, h, b)
  BY <1>1, BelowHead
<1>4. /\ b # << >> /\ Head(b).what \in Enders \cup BodyKinds
      /\ Head(b).what = "right" => h.level = Level(ast, Head(b).node)
  BY <1>1, <1>3 DEF NextFits, Stacked, Levelled
<1>5. /\ value \in 1 .. Len(ast) /\ ast[value].kind \in Operands /\ Free(ast, value)
      /\ Older(b, value) /\ Level(ast, value) > h.level
  BY <1>1, ValueReady
<1>6. Precedence(token) <= h.level
  <2>1. h.level \in 0 .. 10
    BY <1>1, ItemFields DEF Levelled
  <2>2. ~(h.level < Precedence(token))
    BY DEF EndExpression, Binds
  <2>3. Precedence(token) \in 0 .. 10
    BY <1>1, TokenPrecedence
  <2> HIDE DEF h
  <2> QED
    BY <2>1, <2>2, <2>3
<1> HIDE DEF b, h
<1>7. ValueFits(b, ast, value, token)
  BY <1>4, <1>5, <1>6 DEF ValueFits, Older, Enders, BodyKinds
<1>8. Extends(ast, ast)
  BY <1>1 DEF Extends
<1> QED
  BY <1>1, <1>2, <1>7, <1>8 DEF SyntaxKept, Syntax

(* An operator takes the value for its left operand.                       *)
LEMMA OperatorSafe ==
  ASSUME Syntax, Doing({"infix"}), NEW x, Addition(ast, x), x.kids = << value >>,
         NEW what \in {"right", "assign"}, x.kind = KindOf(what),
         NEW l \in 0 .. 10,
         what = "right" => l = Precedence(x.word) /\ Head(agenda).level < l,
         ast' = ast \o << x >>, Enter(<< ExprItem(l), NodeItem(what, NewId) >>),
         value' = value, token' = "none"
  PROVE SyntaxKept
<1> DEFINE y == NodeItem(what, NewId)
<1>1. /\ agenda # << >> /\ Head(agenda).what = "infix" /\ agenda \in Seq(Item)
      /\ AgendaFits(agenda, ast) /\ ast \in Seq(TreeNode) /\ TreeFits(ast)
      /\ NewId = Len(ast) + 1 /\ NewId \in Nat /\ value \in Nat
  BY AtHead DEF Syntax, NewId
<1>2. Grown(ast, ast', x)
  BY <1>1, TreeGrown
<1>3. Older(agenda, value)
  BY <1>1, ValueReady
<1>4. \A v : HasKid(x, v) => Older(agenda, v)
  BY <1>3 DEF HasKid
<1>5. AgendaFits(agenda, ast')
  BY <1>1, <1>2, <1>4, GrownAgenda
<1>6. y \in Item /\ y.what = what /\ y.node = NewId /\ what \in Enders /\ what \notin Parts
  BY <1>1, MadeItems DEF Parts, Enders, BodyKinds
<1> HIDE DEF y
<1>7. /\ NewId \in 1 .. Len(ast') /\ ast'[NewId] = x /\ Free(ast', NewId)
  BY <1>1, <1>2 DEF Grown
<1>8. Len(x.kids) = 1
  OBVIOUS
<1>9. ItemFits(ast', y)
  BY <1>6, <1>7, <1>8 DEF ItemFits, IsNode, Parts
<1>10. what = "right" => Level(ast', NewId) = l
  BY <1>7 DEF Level, KindOf
<1>11. Stacked(ast', y, Head(agenda))
  BY <1>1, <1>6, <1>10 DEF Stacked, Levelled, Parts, BodyKinds
<1>12. Older(agenda, y.node)
  BY <1>1, <1>6, ItemsOld
<1>13. agenda' = << ExprItem(l), y >> \o agenda
  BY DEF Enter, y
<1>14. Waiting(agenda', ast')
  BY <1>1, <1>5, <1>6, <1>9, <1>10, <1>11, <1>12, <1>13, PushExpr DEF Newer
<1>15. ValueFits(agenda', ast', value', token')
  BY <1>14, NothingWaits DEF Enders, Waiting
<1> QED
  BY <1>1, <1>2, <1>14, <1>15 DEF SyntaxKept, Syntax, Grown, Waiting

LEMMA ParseOperatorSafe == Syntax /\ ParseOperator => SyntaxKept
<1> SUFFICES ASSUME Syntax, ParseOperator PROVE SyntaxKept
  OBVIOUS
<1> DEFINE k == << value >>
           x == [Node("binary", "none") EXCEPT !.word = token, !.kids = k]
<1>1. /\ token \in BinaryTokens /\ Head(agenda).level < Precedence(token)
      /\ Doing({"infix"}) /\ ast' = ast \o << x >>
      /\ Enter(<< ExprItem(Precedence(token)), NodeItem("right", NewId) >>)
      /\ value' = value /\ token' = "none"
  BY DEF ParseOperator, Binds, AddNodes
<1>2. /\ value \in 1 .. Len(ast) /\ ast[value].kind \in Operands /\ Free(ast, value)
      /\ Precedence(token) <= Level(ast, value) /\ value \in Nat
  BY <1>1, AtHead, ValueReady DEF Syntax
<1>3. k \in Seq(Nat)
  BY <1>2
<1> HIDE DEF k
<1>4. /\ x \in TreeNode /\ x.kind = "binary" /\ x.kids = k /\ x.fn = 0 /\ x.word = token
  BY <1>1, <1>3 DEF TreeNode, Node, NodeKinds
<1> USE DEF k
<1> HIDE DEF x
<1>5. Level(ast, value) \in 2 .. 11 /\ Precedence(token) \in 2 .. 10
  BY <1>1, <1>2, Levels, Precedences DEF Syntax, TreeFits
<1>6. Addition(ast, x)
  BY <1>1, <1>2, <1>4, <1>5 DEF Addition
<1>7. x.kind = KindOf("right")
  BY <1>4 DEF KindOf
<1>8. Precedence(token) \in 0 .. 10 /\ Precedence(token) = Precedence(x.word)
  BY <1>4, <1>5
<1> DEFINE l == Precedence(token)
<1> HIDE DEF l
<1>9. /\ "right" \in {"right", "assign"}
      /\ l \in 0 .. 10 /\ l = Precedence(x.word) /\ Head(agenda).level < l
      /\ Enter(<< ExprItem(l), NodeItem("right", NewId) >>)
  BY <1>1, <1>8 DEF l
<1> QED
  BY <1>1, <1>4, <1>6, <1>7, <1>9, OperatorSafe

(* Nothing but the phase changes.                                          *)
LEMMA StopSafe == ASSUME Syntax, ast' = ast, UNCHANGED parserVars PROVE SyntaxKept
<1>1. Syntax'
  BY DEF Syntax, parserVars
<1>2. Extends(ast, ast')
  BY DEF Syntax, Extends
<1> QED
  BY <1>1, <1>2 DEF SyntaxKept

LEMMA ParseAssignmentSafe == Syntax /\ ParseAssignment => SyntaxKept
<1> SUFFICES ASSUME Syntax, ParseAssignment PROVE SyntaxKept
  OBVIOUS
<1>1. CASE ast[value].kind # "identifier"
  <2>1. ast' = ast /\ UNCHANGED parserVars
    BY <1>1 DEF ParseAssignment, Throw, StopAs, treeVars
  <2> QED
    BY <2>1, StopSafe
<1>2. CASE ast[value].kind = "identifier"
  <2> DEFINE k == << value >>
             x == [Node("assign", "none") EXCEPT !.kids = k]
  <2>1. /\ token = "Equals" /\ Doing({"infix"}) /\ ast' = ast \o << x >>
        /\ Enter(<< ExprItem(Precedence(token)), NodeItem("assign", NewId) >>)
        /\ value' = value /\ token' = "none"
    BY <1>2 DEF ParseAssignment, AddNodes
  <2>2. /\ value \in 1 .. Len(ast) /\ ast[value].kind \in Operands /\ Free(ast, value)
        /\ value \in Nat
    BY <2>1, AtHead, ValueReady DEF Syntax
  <2>3. k \in Seq(Nat)
    BY <2>2
  <2> HIDE DEF k
  <2>4. /\ x \in TreeNode /\ x.kind = "assign" /\ x.kids = k /\ x.fn = 0
    BY <2>3 DEF TreeNode, Node, NodeKinds
  <2> USE DEF k
  <2> HIDE DEF x
  <2>5. Precedence(token) \in 0 .. 10
    BY <2>1, Precedences
  <2>6. Addition(ast, x)
    BY <1>2, <2>2, <2>4 DEF Addition
  <2>7. x.kind = KindOf("assign") /\ "assign" # "right"
    BY <2>4 DEF KindOf
  <2> QED
    BY <2>1, <2>4, <2>5, <2>6, <2>7, OperatorSafe
<1> QED
  BY <1>1, <1>2

(* The head of a statement gives the value and leaves a body at the head.  *)
LEMMA EndStatementSafe ==
  ASSUME Syntax, agenda # << >>, Head(agenda).what \in {"explicit", "inferred", "ret"},
         AddKid(Head(agenda).node), Replace(<< >>), value' = Head(agenda).node,
         token' = token
  PROVE SyntaxKept
<1> DEFINE h == Head(agenda)
           b == Tail(agenda)
<1>1. /\ agenda \in Seq(Item) /\ AgendaFits(agenda, ast) /\ ast \in Seq(TreeNode)
      /\ b \in Seq(Item)
  BY Tailed DEF Syntax
<1>2. Given(ast, ast', h.node, value) /\ AgendaFits(b, ast') /\ h.node \in 1 .. Len(ast)
  BY Giving DEF Enders
<1>3. agenda' = b
  BY <1>1, PushedNone DEF Replace
<1>4. Head(b).what \in BodyKinds
  BY <1>1, BelowHead DEF NextFits, Stacked, Parts
<1>5. ValueFits(agenda', ast', value', token')
  BY <1>3, <1>4, NothingWaits DEF Enders, BodyKinds
<1>6. value' \in Nat /\ token' \in Infix \cup {"none"}
  BY <1>2 DEF Syntax
<1> QED
  BY <1>1, <1>2, <1>3, <1>5, <1>6 DEF SyntaxKept, Syntax, Given

LEMMA EndVarDeclSafe == Syntax /\ EndVarDecl => SyntaxKept
<1> SUFFICES ASSUME Syntax, EndVarDecl PROVE SyntaxKept
  OBVIOUS
<1>1. agenda # << >> /\ Head(agenda).what \in {"explicit", "inferred"}
  BY DEF EndVarDecl, Doing
<1>2. CASE ~Addable(tables, currentScope, ast[Head(agenda).node].name)
  <2>1. ast' = ast /\ UNCHANGED parserVars
    BY <1>2 DEF EndVarDecl, Throw, StopAs, treeVars
  <2> QED
    BY <2>1, StopSafe
<1>3. CASE Addable(tables, currentScope, ast[Head(agenda).node].name)
  <2>1. /\ AddKid(Head(agenda).node) /\ Replace(<< >>) /\ value' = Head(agenda).node
        /\ token' = token
    BY <1>3 DEF EndVarDecl, Return
  <2> QED
    BY <1>1, <2>1, EndStatementSafe
<1> QED
  BY <1>2, <1>3

LEMMA EndRetSafe == Syntax /\ EndRet => SyntaxKept
BY EndStatementSafe DEF EndRet, Doing, Return

LEMMA ParseIfBodySafe == Syntax /\ ParseIfBody => SyntaxKept
<1> SUFFICES ASSUME Syntax, ParseIfBody PROVE SyntaxKept
  OBVIOUS
<1> DEFINE h == Head(agenda)
           b == Tail(agenda)
           n == h.node
           y == NodeItem("if", n)
<1>1. /\ agenda # << >> /\ h.what = "condition" /\ agenda \in Seq(Item)
      /\ AgendaFits(agenda, ast) /\ ast \in Seq(TreeNode) /\ b \in Seq(Item)
      /\ ItemFits(ast, h) /\ TreeFits(ast)
  BY AtHead DEF ParseIfBody, Syntax
<1>2. /\ Given(ast, ast', n, value) /\ AgendaFits(b, ast') /\ n \in 1 .. Len(ast)
      /\ n # value
  BY <1>1, Giving DEF ParseIfBody, Enders
<1>3. agenda' = << y >> \o b /\ value' = value /\ token' = token
  BY DEF ParseIfBody, Replace
<1>4. NextFits(ast, h, b) /\ HolderFits(ast, h, b)
  BY <1>1, BelowHead DEF Levelled
<1>5. /\ Free(ast, n) /\ Older(b, n) /\ ast[n].kind = "if" /\ ast[n].kids = << >>
      /\ Head(b).what \in BodyKinds /\ b # << >>
  BY <1>1, <1>4 DEF HolderFits, NextFits, Stacked, ItemFits, KindOf, Parts, Levelled
<1>6. OnlyBodies(b)
  BY <1>1, AgendaTail DEF OnlyBodies, Parts
<1>7. y \in Item /\ y.what = "if" /\ y.node = n
  BY <1>1, <1>2, MadeItems DEF BodyKinds
<1>8. /\ n \in 1 .. Len(ast') /\ ast'[n].kind = "if" /\ Free(ast', n)
      /\ Len(ast'[n].kids) = 1
  BY <1>2, <1>5 DEF Given, Extends, Complete
<1> HIDE DEF y, b, n, h
<1>9. ItemFits(ast', y)
  BY <1>7, <1>8 DEF ItemFits, IsNode, KindOf, Levelled
<1>10. Stacked(ast', y, Head(b))
  BY <1>5, <1>7 DEF Stacked, Levelled, BodyKinds
<1>11. << y >> \o b \in Seq(Item) /\ AgendaFits(<< y >> \o b, ast')
  BY <1>1, <1>2, <1>5, <1>6, <1>7, <1>9, <1>10, AgendaPush
<1>12. Head(agenda').what = "if"
  BY <1>1, <1>3, <1>7, Pushed
<1>13. ValueFits(agenda', ast', value', token')
  BY <1>12, NothingWaits DEF Enders
<1> QED
  BY <1>2, <1>3, <1>11, <1>13 DEF SyntaxKept, Syntax, Given

(* A body ends: a body is at the head, or nothing.                         *)
LEMMA EndBodySafe ==
  ASSUME Syntax, Doing(BodyKinds), Replace(<< >>), ast' = ast, value' \in Nat,
         token' = token
  PROVE SyntaxKept
<1> DEFINE b == Tail(agenda)
<1>1. /\ agenda # << >> /\ Head(agenda).what \in BodyKinds /\ agenda \in Seq(Item)
      /\ AgendaFits(agenda, ast) /\ ast \in Seq(TreeNode) /\ b \in Seq(Item)
      /\ AgendaFits(b, ast)
  BY AtHead DEF Syntax
<1>2. agenda' = b
  BY <1>1, PushedNone DEF Replace
<1>3. b # << >> => Head(b).what \in BodyKinds
  BY <1>1, BelowHead, AgendaTail DEF NextFits, Stacked, Parts
<1>4. ValueFits(agenda', ast', value', token')
  BY <1>2, <1>3, NothingWaits DEF Enders, BodyKinds
<1>5. Extends(ast, ast)
  BY <1>1 DEF Extends
<1> QED
  BY <1>1, <1>2, <1>4, <1>5 DEF SyntaxKept, Syntax

LEMMA EndIfSafe == Syntax /\ EndIf => SyntaxKept
<1> SUFFICES ASSUME Syntax, EndIf PROVE SyntaxKept
  OBVIOUS
<1>1. Doing(BodyKinds)
  BY DEF EndIf, Doing, BodyKinds
<1>2. Head(agenda).node \in Nat /\ value' = Head(agenda).node
  BY AtHead, ItemFields DEF EndIf, Return, Levelled
<1> QED
  BY <1>1, <1>2, EndBodySafe DEF EndIf

LEMMA EndFunctionSafe == Syntax /\ EndFunction => SyntaxKept
<1> SUFFICES ASSUME Syntax, EndFunction PROVE SyntaxKept
  OBVIOUS
<1>1. Doing(BodyKinds)
  BY DEF EndFunction, Doing, BodyKinds
<1>2. value' \in Nat
  BY DEF EndFunction, Syntax
<1> QED
  BY <1>1, <1>2, EndBodySafe DEF EndFunction

LEMMA LeavesSafe == Syntax /\ (ParseInteger \/ ParseOtherLiteral \/ ParseIdentifier) => SyntaxKept
<1> SUFFICES ASSUME Syntax, ParseInteger \/ ParseOtherLiteral \/ ParseIdentifier
             PROVE SyntaxKept
  OBVIOUS
<1>1. /\ Doing({"expr"}) /\ value' = NewId /\ Operand /\ token' \in Infix \cup {"none"}
  BY DEF ParseInteger, ParseOtherLiteral, ParseIdentifier, Return, NextToken
<1>2. PICK kind \in {"literal", "identifier"}, n \in AllNames \cup {"none"} :
        ast' = ast \o << Node(kind, n) >>
  <2>1. CASE ParseInteger
    BY <2>1 DEF ParseInteger, AddNodes
  <2>2. CASE ParseOtherLiteral
    BY <2>2 DEF ParseOtherLiteral, AddNodes
  <2>3. CASE ParseIdentifier
    BY <2>3 DEF ParseIdentifier, AddNodes
  <2> QED
    BY <2>1, <2>2, <2>3
<1> DEFINE x == Node(kind, n)
<1>3. x \in TreeNode /\ x.kind = kind /\ x.kids = << >> /\ x.fn = 0
  BY DEF TreeNode, Node, NodeKinds
<1> HIDE DEF x
<1>4. Addition(ast, x) /\ x.kind \in Operands
  BY <1>3 DEF Addition, Operands
<1> QED
  BY <1>1, <1>2, <1>3, <1>4, LeafSafe DEF x

LEMMA StatementsSafe == Syntax /\ (BeginExplicit \/ BeginInferred \/ BeginIf) => SyntaxKept
<1> SUFFICES ASSUME Syntax, BeginExplicit \/ BeginInferred \/ BeginIf PROVE SyntaxKept
  OBVIOUS
<1>1. Doing(BodyKinds) /\ value' = value /\ token' = token
  BY DEF BeginExplicit, BeginInferred, BeginIf, InBody
<1>2. PICK kind \in {"let", "if"}, n \in AllNames \cup {"none"},
           what \in {"explicit", "inferred", "condition"} :
        /\ ast' = ast \o << Node(kind, n) >> /\ kind = KindOf(what)
        /\ Enter(<< ExprItem(0), NodeItem(what, NewId) >>)
  <2>1. CASE BeginExplicit
    BY <2>1 DEF BeginExplicit, AddNodes, KindOf, AllNames
  <2>2. CASE BeginInferred
    BY <2>2 DEF BeginInferred, AddNodes, KindOf, AllNames
  <2>3. CASE BeginIf
    BY <2>3 DEF BeginIf, AddNodes, KindOf
  <2> QED
    BY <2>1, <2>2, <2>3
<1> DEFINE x == Node(kind, n)
<1>3. x \in TreeNode /\ x.kind = kind /\ x.kids = << >> /\ x.fn = 0
  BY DEF TreeNode, Node, NodeKinds
<1> HIDE DEF x
<1>4. Addition(ast, x)
  BY <1>3 DEF Addition
<1>5. what \in Parts \ BodyKinds /\ x.kind = KindOf(what)
  BY <1>2, <1>3 DEF Parts, BodyKinds
<1> QED
  BY <1>1, <1>2, <1>3, <1>4, <1>5, StatementSafe DEF x

LEMMA BeginRetSafe == Syntax /\ BeginRet => SyntaxKept
<1> SUFFICES ASSUME Syntax, BeginRet PROVE SyntaxKept
  OBVIOUS
<1> DEFINE f == agenda[Len(agenda)].node
           x == [Node("ret", "none") EXCEPT !.fn = f]
<1>1. /\ Doing(BodyKinds) /\ value' = value /\ token' = token
      /\ ast' = ast \o << x >> /\ Enter(<< ExprItem(0), NodeItem("ret", NewId) >>)
  BY DEF BeginRet, InBody, AddNodes
<1>2. /\ agenda # << >> /\ agenda \in Seq(Item) /\ AgendaFits(agenda, ast)
      /\ ast \in Seq(TreeNode)
  BY <1>1, AtHead DEF Syntax
<1>3. agenda[Len(agenda)].what = "fn" /\ Len(agenda) \in 1 .. Len(agenda)
  BY <1>2 DEF AgendaFits
<1>4. IsNode(ast, f, "fn") /\ f \in Nat /\ f # 0
  BY <1>2, <1>3 DEF AgendaFits, ItemFits, KindOf, Levelled, IsNode
<1> HIDE DEF f
<1>5. x \in TreeNode /\ x.kind = "ret" /\ x.kids = << >> /\ x.fn = f
  <2>1. x = [kind |-> "ret", name |-> "none", word |-> "none", kids |-> << >>, fn |-> f]
    BY DEF Node
  <2>2. << >> \in Seq(Nat) /\ "ret" \in NodeKinds
    BY DEF NodeKinds
  <2> QED
    BY <1>4, <2>1, <2>2 DEF TreeNode
<1> HIDE DEF x
<1>6. Addition(ast, x)
  BY <1>4, <1>5 DEF Addition
<1>7. "ret" \in Parts \ BodyKinds /\ x.kind = KindOf("ret")
  BY <1>5 DEF Parts, BodyKinds, KindOf
<1> QED
  BY <1>1, <1>5, <1>6, <1>7, StatementSafe

(* A function comes with its parameters.                                   *)
Planted(t, u, f, p, ret) ==
  /\ u \in Seq(TreeNode) /\ Len(u) = Len(t) + 1 + Len(p) /\ TreeFits(u) /\ Extends(t, u)
  /\ \A n \in 1 .. Len(t) : u[n] = t[n]
  /\ u[Len(t) + 1].kind = "fn" /\ u[Len(t) + 1].name = f /\ u[Len(t) + 1].word = ret
  /\ Free(u, Len(t) + 1)
  /\ \A i \in 1 .. Len(p) : u[Len(t) + 1 + i] = Node("arg", p[i][1])

LEMMA FunctionPlanted ==
  ASSUME ast \in Seq(TreeNode), TreeFits(ast), NEW f \in FnNames,
         NEW p \in Seq(VarNames \X Types), NEW ret \in NodeTypes \ {"null"},
         NEW u, u = ast \o FunctionNodes(f, p, ret)
  PROVE Planted(ast, u, f, p, ret)
<1> DEFINE k == [i \in 1 .. Len(p) |-> NewId + i]
           x == [Node("fn", f) EXCEPT !.word = ret, !.kids = k]
           a == [i \in 1 .. Len(p) |-> Node("arg", p[i][1])]
           l == Len(ast)
<1>1. l \in Nat /\ NewId = l + 1 /\ Len(p) \in Nat
  BY DEF NewId
<1>2. k \in Seq(Nat) /\ Len(k) = Len(p) /\ \A i \in 1 .. Len(p) : k[i] = l + 1 + i
  BY <1>1
<1> HIDE DEF k
<1>3. /\ x \in TreeNode /\ x.kind = "fn" /\ x.name = f /\ x.word = ret /\ x.kids = k
      /\ x.fn = 0
  <2> DEFINE y == Node("fn", f)
  <2>1. /\ y \in TreeNode /\ y.kind = "fn" /\ y.name = f /\ y.fn = 0
    BY DEF TreeNode, Node, NodeKinds, AllNames
  <2> HIDE DEF y
  <2> DEFINE z == [y EXCEPT !.word = ret]
  <2>2. z \in TreeNode /\ z.kind = "fn" /\ z.name = f /\ z.fn = 0 /\ z.word = ret
    BY <2>1 DEF TreeNode
  <2>3. x = [z EXCEPT !.kids = k]
    BY DEF y
  <2> HIDE DEF z, x
  <2> QED
    BY <1>2, <2>2, <2>3 DEF TreeNode
<1>4. /\ a \in Seq(TreeNode) /\ Len(a) = Len(p)
      /\ \A i \in 1 .. Len(p) : a[i] = Node("arg", p[i][1])
  <2>1. ASSUME NEW i \in 1 .. Len(p) PROVE Node("arg", p[i][1]) \in TreeNode
    <3>1. p[i][1] \in AllNames
      BY DEF AllNames
    <3>2. << >> \in Seq(Nat) /\ "arg" \in NodeKinds
      BY DEF NodeKinds
    <3> QED
      BY <3>1, <3>2 DEF Node, TreeNode
  <2> QED
    BY <1>1, <2>1
<1>5. \A i \in 1 .. Len(p) : a[i].kind = "arg" /\ a[i].kids = << >> /\ a[i].fn = 0
  BY <1>4 DEF Node
<1>6. u = ast \o (<< x >> \o a)
  BY DEF FunctionNodes, k
<1> HIDE DEF x, a
<1>7. /\ << x >> \o a \in Seq(TreeNode) /\ Len(<< x >> \o a) = Len(p) + 1
      /\ (<< x >> \o a)[1] = x
      /\ \A i \in 1 .. Len(p) : (<< x >> \o a)[i + 1] = a[i]
  BY <1>3, <1>4, Pushed
<1>8. /\ u \in Seq(TreeNode) /\ Len(u) = l + 1 + Len(p)
      /\ \A n \in 1 .. l : u[n] = ast[n]
      /\ u[l + 1] = x
      /\ \A i \in 1 .. Len(p) : u[l + 1 + i] = a[i]
  <2> DEFINE q == << x >> \o a
  <2> HIDE DEF q
  <2>1. /\ ast \o q \in Seq(TreeNode) /\ Len(ast \o q) = l + Len(q)
        /\ \A n \in 1 .. l : (ast \o q)[n] = ast[n]
        /\ \A n \in 1 .. Len(q) : (ast \o q)[l + n] = q[n]
    BY <1>7, Joined DEF q
  <2>2. 1 \in 1 .. Len(q) /\ \A i \in 1 .. Len(p) : i + 1 \in 1 .. Len(q) /\ l + (i + 1) = l + 1 + i
    BY <1>1, <1>7 DEF q
  <2>3. /\ Len(q) = Len(p) + 1 /\ q[1] = x /\ \A i \in 1 .. Len(p) : q[i + 1] = a[i]
        /\ u = ast \o q
    BY <1>6, <1>7 DEF q
  <2>4. ASSUME NEW i \in 1 .. Len(p) PROVE u[l + 1 + i] = a[i]
    <3>1. i + 1 \in 1 .. Len(q) /\ l + (i + 1) = l + 1 + i
      BY <2>2
    <3> QED
      BY <2>1, <2>3, <3>1
  <2> QED
    BY <1>1, <2>1, <2>2, <2>3, <2>4
<1> HIDE DEF l
<1>9. Extends(ast, u)
  BY <1>1, <1>8 DEF Extends, l
<1>10. ASSUME NEW n \in 1 .. Len(u)
       PROVE n \in 1 .. l \/ n = l + 1 \/ \E i \in 1 .. Len(p) : n = l + 1 + i
  <2>1. n > l + 1 => n - (l + 1) \in 1 .. Len(p) /\ n = l + 1 + (n - (l + 1))
    BY <1>1, <1>8
  <2> QED
    BY <1>1, <2>1
<1>11. ASSUME NEW n \in 1 .. l PROVE NodeFits(u, n) /\ Ranked(u, n)
  BY <1>8, <1>9, <1>11, FitKept, RankKept DEF TreeFits, l
<1>12. NodeFits(u, l + 1) /\ Ranked(u, l + 1)
  <2>1. KidsFit(u, l + 1)
    <3>1. ASSUME NEW i \in 1 .. Len(k) PROVE k[i] \in 1 .. Len(u) /\ u[k[i]].kind = "arg"
      <4>1. i \in 1 .. Len(p) /\ k[i] = l + 1 + i /\ l + 1 + i \in 1 .. Len(u)
        BY <1>1, <1>2, <1>8
      <4>2. u[l + 1 + i] = a[i] /\ a[i].kind = "arg"
        BY <1>5, <1>8, <4>1
      <4> QED
        BY <4>1, <4>2
    <3>2. u[l + 1].kids = k /\ u[l + 1].kind = "fn"
      BY <1>3, <1>8
    <3> QED
      BY <3>1, <3>2 DEF KidsFit
  <2>2. Ranked(u, l + 1)
    BY <1>3, <1>8 DEF Ranked
  <2> QED
    BY <1>3, <1>8, <2>1, <2>2 DEF NodeFits
<1>13. ASSUME NEW i \in 1 .. Len(p) PROVE NodeFits(u, l + 1 + i) /\ Ranked(u, l + 1 + i)
  <2> DEFINE n == l + 1 + i
  <2>1. u[n].kind = "arg" /\ u[n].kids = << >> /\ u[n].fn = 0
    BY <1>5, <1>8
  <2> HIDE DEF n
  <2>2. NodeFits(u, n) /\ Ranked(u, n)
    BY <2>1 DEF NodeFits, KidsFit, Ranked
  <2> QED
    BY <2>2 DEF n
<1>14. ASSUME NEW n, NEW m, NEW i, IsKid(u, n, m, i)
       PROVE (IsKid(ast, n, m, i) /\ n \in 1 .. l) \/ (m = l + 1 /\ n = l + 1 + i /\ i \in 1 .. Len(p))
  <2>1. CASE m \in 1 .. l
    <3>1. u[m].kids = ast[m].kids
      BY <1>8, <2>1
    <3>2. i \in 1 .. Len(ast[m].kids) /\ ast[m].kids[i] = n
      BY <1>14, <3>1 DEF IsKid
    <3>3. n \in 1 .. l
      BY <2>1, <3>2 DEF TreeFits, NodeFits, KidsFit, l
    <3> QED
      BY <2>1, <3>2, <3>3 DEF IsKid, l
  <2>2. CASE m = l + 1
    BY <1>2, <1>3, <1>8, <1>14, <2>2 DEF IsKid
  <2>3. ASSUME NEW j \in 1 .. Len(p), m = l + 1 + j PROVE FALSE
    <3>1. u[m].kids = << >>
      BY <1>5, <1>8, <2>3
    <3> QED
      BY <1>14, <3>1 DEF IsKid
  <2> QED
    BY <1>10, <1>14, <2>1, <2>2, <2>3 DEF IsKid
<1>15. Tree(u)
  <2> SUFFICES ASSUME NEW n, NEW m, NEW i, NEW c, NEW j, IsKid(u, n, m, i), IsKid(u, n, c, j)
               PROVE m = c /\ i = j
    BY DEF Tree
  <2>1. (IsKid(ast, n, m, i) /\ n \in 1 .. l) \/ (m = l + 1 /\ n = l + 1 + i /\ i \in 1 .. Len(p))
    BY <1>14
  <2>2. (IsKid(ast, n, c, j) /\ n \in 1 .. l) \/ (c = l + 1 /\ n = l + 1 + j /\ j \in 1 .. Len(p))
    BY <1>14
  <2>3. IsKid(ast, n, m, i) /\ IsKid(ast, n, c, j) => m = c /\ i = j
    BY DEF TreeFits, Tree
  <2> QED
    BY <1>1, <2>1, <2>2, <2>3
<1>16. Free(u, l + 1)
  <2>1. ASSUME NEW m, NEW i, IsKid(u, l + 1, m, i) PROVE FALSE
    BY <1>1, <1>14, <2>1
  <2> QED
    BY <2>1 DEF Free
<1>17. TreeFits(u)
  BY <1>10, <1>11, <1>12, <1>13, <1>15 DEF TreeFits
<1> QED
  BY <1>3, <1>4, <1>8, <1>9, <1>16, <1>17 DEF Planted, l

LEMMA ParseFunctionSafe ==
  ASSUME Syntax, NEW h \in Headers, ParseFunction(h.name, h.params, h.ret, h.ext)
  PROVE SyntaxKept
<1>1. /\ h.name \in FnNames /\ h.params \in Seq(VarNames \X Types)
      /\ h.ret \in NodeTypes \ {"null"} /\ h.ext \in BOOLEAN
  BY HeadersAssumption, ParserAssumption DEF NodeTypes, IntegralTypes
<1>2. CASE ~ParametersAddable(h.params) \/ fnTypes[h.name] # 0
  <2>1. ast' = ast /\ UNCHANGED parserVars
    BY <1>2 DEF ParseFunction, Throw, StopAs, treeVars
  <2> QED
    BY <2>1, StopSafe
<1>3. CASE ~(~ParametersAddable(h.params) \/ fnTypes[h.name] # 0)
  <2>1. /\ ast' = ast \o FunctionNodes(h.name, h.params, h.ret) /\ agenda = << >>
        /\ agenda' = agenda \/ Enter(<< NodeItem("fn", NewId) >>)
        /\ token' = token /\ value' = value
    BY <1>3 DEF ParseFunction, AddNodes
  <2>2. ast \in Seq(TreeNode) /\ TreeFits(ast) /\ NewId = Len(ast) + 1 /\ NewId \in Nat
    BY DEF Syntax, NewId
  <2>3. Planted(ast, ast', h.name, h.params, h.ret)
    BY <1>1, <2>1, <2>2, FunctionPlanted
  <2>4. AgendaFits(<< >>, ast') /\ << >> \in Seq(Item)
    BY DEF AgendaFits
  <2> DEFINE y == NodeItem("fn", NewId)
  <2>5. y \in Item /\ y.what = "fn" /\ y.node = NewId
    BY <2>2, MadeItems DEF BodyKinds
  <2> HIDE DEF y
  <2>6. ItemFits(ast', y)
    <3>1. NewId \in 1 .. Len(ast')
      <4>1. Len(h.params) \in Nat /\ Len(ast) \in Nat
        BY <1>1, <2>2
      <4>2. Len(ast') = Len(ast) + 1 + Len(h.params)
        BY <2>3 DEF Planted
      <4>3. \A l, k \in Nat : l + 1 \in 1 .. (l + 1 + k)
        OBVIOUS
      <4> QED
        BY <2>2, <4>1, <4>2, <4>3
    <3> QED
      BY <2>2, <2>3, <2>5, <3>1 DEF ItemFits, Planted, IsNode, KindOf, Levelled
  <2>7. << y >> \o << >> \in Seq(Item) /\ AgendaFits(<< y >> \o << >>, ast')
    <3>1. OnlyBodies(<< >>) /\ Older(<< >>, y.node)
      BY DEF OnlyBodies, Older
    <3> QED
      BY <2>4, <2>5, <2>6, <3>1, AgendaPush
  <2>8. Head(<< y >> \o << >>).what = "fn"
    BY <2>4, <2>5, Pushed
  <2>9. agenda' = << >> \/ agenda' = << y >> \o << >>
    BY <2>1 DEF Enter, y
  <2>10. agenda' \in Seq(Item) /\ AgendaFits(agenda', ast')
    BY <2>4, <2>7, <2>9
  <2>11. ValueFits(agenda', ast', value', token')
    BY <2>8, <2>9, NothingWaits DEF Enders
  <2> QED
    BY <2>1, <2>3, <2>10, <2>11 DEF SyntaxKept, Syntax, Planted
<1> QED
  BY <1>2, <1>3

(* A call learns its function.                                             *)
Called(t, u, n, c) ==
  /\ u \in Seq(TreeNode) /\ Len(u) = Len(t) /\ TreeFits(u) /\ Extends(t, u)
  /\ \A m \in 1 .. Len(t) : u[m].kids = t[m].kids
  /\ \A m \in 1 .. Len(t) : m # n => u[m] = t[m]
  /\ u[n].fn = c
  /\ \A m : Free(t, m) => Free(u, m)

LEMMA FunctionCalled ==
  ASSUME NEW t \in Seq(TreeNode), TreeFits(t), NEW n \in 1 .. Len(t), NEW c,
         IsNode(t, c, "fn"), NEW u, u = [t EXCEPT ![n].fn = c]
  PROVE Called(t, u, n, c)
<1> DEFINE x == [t[n] EXCEPT !.fn = c]
<1>1. t[n] \in TreeNode /\ c \in 1 .. Len(t) /\ c \in Nat /\ c # 0
  BY NodesTyped DEF IsNode
<1>2. /\ x \in TreeNode /\ x.kids = t[n].kids /\ x.fn = c
      /\ x.kind = t[n].kind /\ x.name = t[n].name /\ x.word = t[n].word
  BY <1>1 DEF TreeNode
<1>3. u = [t EXCEPT ![n] = x]
  OBVIOUS
<1> HIDE DEF x
<1>4. /\ u \in Seq(TreeNode) /\ Len(u) = Len(t) /\ u[n] = x
      /\ \A m \in 1 .. Len(t) : m # n => u[m] = t[m]
  <2>1. /\ [t EXCEPT ![n] = x] \in Seq(TreeNode) /\ Len([t EXCEPT ![n] = x]) = Len(t)
        /\ [t EXCEPT ![n] = x][n] = x
        /\ \A m \in 1 .. Len(t) : m # n => [t EXCEPT ![n] = x][m] = t[m]
    BY <1>2, Replaced
  <2> QED
    BY <1>3, <2>1
<1>5. Extends(t, u)
  BY <1>2, <1>4 DEF Extends
<1>6. \A m \in 1 .. Len(t) : u[m].kids = t[m].kids
  BY <1>2, <1>4
<1>7. ASSUME NEW m \in 1 .. Len(t), m # n PROVE NodeFits(u, m) /\ Ranked(u, m)
  BY <1>4, <1>5, <1>7, FitKept, RankKept DEF TreeFits
<1>8. NodeFits(t, n) /\ Ranked(t, n) /\ KidsFit(t, n)
  BY DEF TreeFits, NodeFits
<1>9. KidsFit(u, n)
  <2>1. ASSUME NEW i \in 1 .. Len(t[n].kids)
        PROVE /\ t[n].kids[i] \in 1 .. Len(t) /\ u[t[n].kids[i]].kind = t[t[n].kids[i]].kind
              /\ t[t[n].kids[i]].kind \in (IF t[n].kind = "fn" THEN {"arg"} ELSE Operands)
    BY <1>5, <1>8 DEF KidsFit, Extends
  <2>2. u[n].kids = t[n].kids /\ u[n].kind = t[n].kind
    BY <1>2, <1>4
  <2> QED
    BY <1>4, <2>1, <2>2 DEF KidsFit
<1>10. ASSUME t[n].kind \in {"binary", "assign"}
       PROVE /\ 1 \in 1 .. Len(t[n].kids) /\ t[n].kids[1] \in 1 .. Len(t)
             /\ Len(t[n].kids) = 2 => t[n].kids[2] \in 1 .. Len(t)
  <2>1. Len(t[n].kids) \in {1, 2}
    BY <1>8, <1>10 DEF NodeFits
  <2> QED
    BY <1>8, <2>1, FewKids DEF KidsFit
<1>11. NodeFits(u, n)
  <2>1. IsNode(u, c, "fn")
    BY <1>4, <1>5 DEF IsNode, Extends
  <2>2. t[n].kind = "assign" => u[t[n].kids[1]].kind = "identifier"
    BY <1>5, <1>8, <1>10 DEF NodeFits, Extends
  <2> QED
    BY <1>1, <1>2, <1>4, <1>8, <1>9, <2>1, <2>2 DEF NodeFits
<1>12. Ranked(u, n)
  <2>1. CASE t[n].kind = "binary"
    <3>1. /\ Level(u, n) = Level(t, n) /\ Level(u, t[n].kids[1]) = Level(t, t[n].kids[1])
          /\ Len(t[n].kids) = 2 => Level(u, t[n].kids[2]) = Level(t, t[n].kids[2])
      BY <1>5, <1>10, <2>1, LevelKept
    <3> QED
      BY <1>2, <1>4, <1>8, <2>1, <3>1 DEF Ranked
  <2>2. CASE t[n].kind # "binary"
    BY <1>2, <1>4, <2>2 DEF Ranked
  <2> QED
    BY <2>1, <2>2
<1>13. ASSUME NEW m, NEW k, NEW i, IsKid(u, m, k, i) PROVE IsKid(t, m, k, i)
  <2>1. k \in 1 .. Len(t) /\ u[k].kids = t[k].kids
    BY <1>4, <1>6, <1>13 DEF IsKid
  <2> QED
    BY <1>13, <2>1 DEF IsKid
<1>14. Tree(u)
  <2> SUFFICES ASSUME NEW m, NEW k, NEW i, NEW d, NEW j, IsKid(u, m, k, i), IsKid(u, m, d, j)
               PROVE k = d /\ i = j
    BY DEF Tree
  <2>1. IsKid(t, m, k, i)
    BY <1>13
  <2>2. IsKid(t, m, d, j)
    BY <1>13
  <2> QED
    BY <2>1, <2>2 DEF TreeFits, Tree
<1>15. \A m : Free(t, m) => Free(u, m)
  BY <1>13 DEF Free
<1>16. TreeFits(u)
  BY <1>4, <1>7, <1>11, <1>12, <1>14 DEF TreeFits
<1> QED
  BY <1>2, <1>4, <1>5, <1>6, <1>15, <1>16 DEF Called

LEMMA CalleeSafe ==
  ASSUME Syntax, NEW n \in 1 .. Len(ast), NEW c, IsNode(ast, c, "fn"),
         ast' = [ast EXCEPT ![n].fn = c], UNCHANGED parserVars
  PROVE SyntaxKept
<1>1. /\ ast \in Seq(TreeNode) /\ TreeFits(ast) /\ agenda \in Seq(Item) /\ AgendaFits(agenda, ast)
      /\ agenda' = agenda /\ value' = value /\ token' = token
  BY DEF Syntax, parserVars
<1>2. Called(ast, ast', n, c)
  BY <1>1, FunctionCalled
<1>3. ASSUME NEW i \in 1 .. Len(agenda), agenda[i].what \notin Levelled
      PROVE ast'[agenda[i].node].kids = ast[agenda[i].node].kids /\ Free(ast', agenda[i].node)
  BY <1>1, <1>2, <1>3, ItemsOld DEF Called
<1>4. AgendaFits(agenda, ast')
  BY <1>1, <1>2, <1>3, AgendaKept DEF Called
<1>5. ValueFits(agenda, ast', value, token)
  <2>1. ASSUME NEW k \in 1 .. Len(ast)
        PROVE /\ k \in 1 .. Len(ast') /\ ast'[k].kind = ast[k].kind /\ Level(ast', k) = Level(ast, k)
              /\ Free(ast, k) => Free(ast', k)
    BY <1>2, LevelKept DEF Called, Extends
  <2>2. ASSUME agenda # << >>, Head(agenda).what = "right" PROVE Head(agenda).node \in 1 .. Len(ast)
    BY <1>1, <2>2, BelowHead DEF HolderFits, Levelled
  <2>3. ValueFits(agenda, ast, value, token)
    BY DEF Syntax
  <2> QED
    BY <2>1, <2>2, <2>3 DEF ValueFits
<1> QED
  BY <1>1, <1>2, <1>4, <1>5 DEF SyntaxKept, Syntax, Called

(* Every step of the parser.                                               *)
LEMMA ParseSafe == Syntax /\ Parse => SyntaxKept
<1> SUFFICES ASSUME Syntax, Parse PROVE SyntaxKept
  OBVIOUS
<1>1. CASE BeginFunction
  BY <1>1, ParseFunctionSafe DEF BeginFunction
<1>2. CASE EndOfFile
  BY <1>2, StopSafe DEF EndOfFile, treeVars
<1> QED
  BY <1>1, <1>2, EndFunctionSafe, LeavesSafe, BeginCallSafe, ParseArgumentSafe,
     EndArgumentSafe, EndCallSafe, ParseOperatorSafe, ParseAssignmentSafe, EndInfixSafe,
     EndExpressionSafe, StatementsSafe, EndVarDeclSafe, BeginRetSafe, EndRetSafe,
     ParseIfBodySafe, EndIfSafe, BeginExprStatementSafe
     DEF Parse

-----------------------------------------------------------------------------
(* The nodes, their types and their names.                                 *)

(* The forms in which a step of the parser changes the tree.               *)
Adding(x, t, b) == t \in NodeTypes /\ b \in BOOLEAN /\ AddNodes(<< x >>, << t >>, b)
AddsNode(x) == NameFits(x) /\ \E t, b : Adding(x, t, b)
AddsFunction(h) ==
  /\ h \in Headers
  /\ AddNodes(FunctionNodes(h.name, h.params, h.ret),
              << "void" >> \o [i \in 1 .. Len(h.params) |-> "null"], FALSE)
AddsKid(n) ==
  /\ agenda # << >> /\ Head(agenda).what \in Enders /\ n = Head(agenda).node
  /\ AddKid(n) /\ muts' = muts
  /\ types' = types \/ \E t \in NodeTypes : types' = [types EXCEPT ![n] = t]

Grows ==
  \/ ast' = ast /\ types' = types /\ muts' = muts
  \/ \E x : AddsNode(x)
  \/ \E h : AddsFunction(h)
  \/ AddsKid(Head(agenda).node)

LEMMA WordTypes == Types \subseteq NodeTypes /\ "i64" \in NodeTypes /\ "null" \in NodeTypes
                   /\ "void" \in NodeTypes
BY ParserAssumption DEF NodeTypes, IntegralTypes

LEMMA NameKinds ==
  ASSUME NEW kind, NEW n, kind \in {"fn", "call"} => n \in FnNames,
         kind \in {"let", "arg"} => n \in VarNames, kind = "identifier" => n \in AllNames
  PROVE NameFits(Node(kind, n))
BY DEF NameFits, Node

LEMMA AddsOne ==
  ASSUME NEW x, NameFits(x), NEW t \in NodeTypes, NEW b \in BOOLEAN, AddNodes(<< x >>, << t >>, b)
  PROVE Grows
BY DEF Grows, AddsNode, Adding

LEMMA StaysSame == ast' = ast /\ types' = types /\ muts' = muts => Grows
BY DEF Grows

LEMMA StopGrows == ASSUME NEW outcome, StopAs(outcome) PROVE Grows
BY StaysSame DEF StopAs, treeVars

LEMMA LeavesGrow == ParseInteger \/ ParseOtherLiteral \/ ParseIdentifier => Grows
<1> DEFINE x == Node("literal", "none")
<1>1. NameFits(x)
  BY NameKinds
<1>2. CASE ParseInteger
  <2> HIDE DEF x
  <2>1. PICK t \in {"i64", "null"} : AddNodes(<< x >>, << t >>, FALSE)
    BY <1>2 DEF ParseInteger, x
  <2> QED
    BY <1>1, <2>1, AddsOne, WordTypes
<1>3. CASE ParseOtherLiteral
  <2> HIDE DEF x
  <2>1. PICK t \in Types : AddNodes(<< x >>, << t >>, FALSE)
    BY <1>3 DEF ParseOtherLiteral, x
  <2> QED
    BY <1>1, <2>1, AddsOne, WordTypes
<1>4. CASE ParseIdentifier
  <2>1. PICK n \in AllNames : AddNodes(<< Node("identifier", n) >>, << "null" >>, FALSE)
    BY <1>4 DEF ParseIdentifier
  <2> DEFINE y == Node("identifier", n)
  <2>2. NameFits(y)
    BY NameKinds
  <2> HIDE DEF y
  <2> QED
    BY <2>1, <2>2, AddsOne, WordTypes DEF y
<1> QED
  BY <1>2, <1>3, <1>4

LEMMA OperatorsGrow == ParseOperator \/ ParseAssignment => Grows
<1>1. CASE ParseOperator
  <2> DEFINE x == [Node("binary", "none") EXCEPT !.word = token, !.kids = << value >>]
  <2>1. NameFits(x)
    BY DEF NameFits, Node
  <2>2. AddNodes(<< x >>, << "null" >>, FALSE)
    BY <1>1 DEF ParseOperator
  <2> HIDE DEF x
  <2> QED
    BY <2>1, <2>2, AddsOne, WordTypes
<1>2. CASE ParseAssignment
  <2> DEFINE x == [Node("assign", "none") EXCEPT !.kids = << value >>]
  <2>1. NameFits(x)
    BY DEF NameFits, Node
  <2>2. Throw \/ AddNodes(<< x >>, << "null" >>, FALSE)
    BY <1>2 DEF ParseAssignment
  <2> HIDE DEF x
  <2> QED
    BY <2>1, <2>2, AddsOne, StopGrows, WordTypes DEF Throw
<1> QED
  BY <1>1, <1>2

LEMMA StatementsGrow ==
  BeginCall \/ BeginExplicit \/ BeginInferred \/ BeginRet \/ BeginIf => Grows
<1>1. CASE BeginCall
  <2>1. PICK f \in FnNames : AddNodes(<< Node("call", f) >>, << "null" >>, FALSE)
    BY <1>1 DEF BeginCall
  <2> DEFINE x == Node("call", f)
  <2>2. NameFits(x)
    BY NameKinds
  <2> HIDE DEF x
  <2> QED
    BY <2>1, <2>2, AddsOne, WordTypes DEF x
<1>2. CASE BeginExplicit \/ BeginInferred
  <2>1. PICK n \in VarNames, b \in BOOLEAN : AddNodes(<< Node("let", n) >>, << "null" >>, b)
    BY <1>2, ParserAssumption DEF BeginExplicit, BeginInferred
  <2> DEFINE x == Node("let", n)
  <2>2. NameFits(x)
    BY NameKinds
  <2> HIDE DEF x
  <2> QED
    BY <2>1, <2>2, AddsOne, WordTypes DEF x
<1>3. CASE BeginRet
  <2> DEFINE x == [Node("ret", "none") EXCEPT !.fn = agenda[Len(agenda)].node]
  <2>1. NameFits(x)
    BY DEF NameFits, Node
  <2>2. AddNodes(<< x >>, << "null" >>, FALSE)
    BY <1>3 DEF BeginRet
  <2> HIDE DEF x
  <2> QED
    BY <2>1, <2>2, AddsOne, WordTypes
<1>4. CASE BeginIf
  <2> DEFINE x == Node("if", "none")
  <2>1. NameFits(x)
    BY NameKinds
  <2>2. AddNodes(<< x >>, << "void" >>, FALSE)
    BY <1>4 DEF BeginIf
  <2> HIDE DEF x
  <2> QED
    BY <2>1, <2>2, AddsOne, WordTypes
<1> QED
  BY <1>1, <1>2, <1>3, <1>4

LEMMA KidsGrow ==
  ASSUME Syntax, NodesInv,
         EndArgument \/ EndInfix \/ EndVarDecl \/ EndRet \/ ParseIfBody
  PROVE Grows
<1> DEFINE n == Head(agenda).node
<1>1. CASE EndArgument \/ EndInfix \/ ParseIfBody
  <2>1. AddsKid(n)
    BY <1>1 DEF EndArgument, EndInfix, ParseIfBody, Doing, AddsKid, Enders
  <2> QED
    BY <2>1 DEF Grows
<1>2. CASE EndVarDecl
  <2>1. Throw \/ AddsKid(n)
    BY <1>2 DEF EndVarDecl, Doing, AddsKid, Enders
  <2> QED
    BY <2>1, StopGrows DEF Grows, Throw
<1>3. CASE EndRet
  <2>1. types[value] \in NodeTypes
    <3>1. value \in 1 .. Len(ast)
      BY <1>3, ValueReady DEF EndRet, Doing, Enders
    <3> QED
      BY <3>1 DEF NodesInv
  <2>2. AddsKid(n)
    BY <1>3, <2>1 DEF EndRet, Doing, AddsKid, Enders
  <2> QED
    BY <2>2 DEF Grows
<1> QED
  BY <1>1, <1>2, <1>3

LEMMA ParseGrows == Syntax /\ NodesInv /\ Parse => Grows
<1> SUFFICES ASSUME Syntax, NodesInv, Parse PROVE Grows
  OBVIOUS
<1>1. CASE BeginFunction
  <2>1. PICK h \in Headers : ParseFunction(h.name, h.params, h.ret, h.ext)
    BY <1>1 DEF BeginFunction
  <2>2. Throw \/ AddsFunction(h)
    BY <2>1 DEF ParseFunction, AddsFunction
  <2> QED
    BY <2>2, StopGrows DEF Grows, Throw
<1>2. CASE EndFunction \/ ParseArgument \/ EndCall \/ EndExpression \/ EndIf
           \/ BeginExprStatement \/ EndOfFile
  BY <1>2, StaysSame DEF EndFunction, ParseArgument, EndCall, EndExpression, EndIf,
     BeginExprStatement, EndOfFile, treeVars
<1> QED
  BY <1>1, <1>2, LeavesGrow, OperatorsGrow, StatementsGrow, KidsGrow DEF Parse

LEMMA AppendedAny ==
  ASSUME NEW S, NEW s \in Seq(S), NEW e
  PROVE /\ Len(s \o << e >>) = Len(s) + 1 /\ (s \o << e >>)[Len(s) + 1] = e
        /\ \A i \in 1 .. Len(s) : (s \o << e >>)[i] = s[i]
OBVIOUS

(* The nodes that were there: only a node that the head holds gets a kid.  *)
Steady ==
  \A m \in 1 .. Len(ast) :
    /\ ast'[m].kids = ast[m].kids \/ Held(agenda, m)
    /\ \A i \in 1 .. Len(ast[m].kids) :
         i \in 1 .. Len(ast'[m].kids) /\ ast'[m].kids[i] = ast[m].kids[i]

TypesFit(l) ==
  /\ types' \in Seq(NodeTypes) /\ muts' \in Seq(BOOLEAN)
  /\ Len(types') = l /\ Len(muts') = l

LEMMA TypesAdded ==
  ASSUME NodesInv, ast \in Seq(TreeNode), NEW l \in Nat, NEW xs, NEW ts \in Seq(NodeTypes),
         Len(xs) = l, Len(ts) = l, NEW b \in BOOLEAN, AddNodes(xs, ts, b)
  PROVE TypesFit(Len(ast) + l)
<1> DEFINE bs == [i \in 1 .. Len(xs) |-> b]
<1>1. bs \in Seq(BOOLEAN) /\ Len(bs) = l
  OBVIOUS
<1>2. /\ types \in Seq(NodeTypes) /\ muts \in Seq(BOOLEAN)
      /\ Len(types) = Len(ast) /\ Len(muts) = Len(ast)
      /\ types' = types \o ts /\ muts' = muts \o bs
  BY DEF NodesInv, AddNodes
<1> HIDE DEF bs
<1>3. types \o ts \in Seq(NodeTypes) /\ Len(types \o ts) = Len(types) + Len(ts)
  BY <1>2, Joined
<1>4. muts \o bs \in Seq(BOOLEAN) /\ Len(muts \o bs) = Len(muts) + Len(bs)
  BY <1>1, <1>2, Joined
<1> QED
  BY <1>1, <1>2, <1>3, <1>4 DEF TypesFit

LEMMA Split ==
  ASSUME NEW l \in Nat, NEW k \in Nat, NEW n \in 1 .. (l + 1 + k)
  PROVE n \in 1 .. l \/ n = l + 1 \/ \E i \in 1 .. k : n = l + 1 + i
<1>1. n > l + 1 => n - (l + 1) \in 1 .. k /\ n = l + 1 + (n - (l + 1))
  OBVIOUS
<1> QED
  BY <1>1

(* What any growth leaves: the forms differ in the nodes that are new.     *)
Fitted ==
  /\ Steady /\ TypesFit(Len(ast'))
  /\ \A n \in 1 .. Len(ast') : n \in 1 .. Len(ast) \/ NameFits(ast'[n])

LEMMA NodeFitted ==
  ASSUME Syntax, NodesInv, NEW x, AddsNode(x)
  PROVE Fitted /\ Len(ast') = Len(ast) + 1 /\ ast'[Len(ast) + 1] = x
<1>1. PICK t \in NodeTypes, b \in BOOLEAN : AddNodes(<< x >>, << t >>, b)
  BY DEF AddsNode, Adding
<1>2. ast \in Seq(TreeNode) /\ ast' = ast \o << x >>
  BY <1>1 DEF Syntax, AddNodes
<1>3. /\ Len(ast') = Len(ast) + 1 /\ ast'[Len(ast) + 1] = x
      /\ \A n \in 1 .. Len(ast) : ast'[n] = ast[n]
  BY <1>2, AppendedAny
<1>4. Steady
  <2>1. ASSUME NEW m \in 1 .. Len(ast) PROVE ast'[m].kids = ast[m].kids
    BY <1>3
  <2> QED
    BY <2>1 DEF Steady
<1>5. TypesFit(Len(ast'))
  <2>1. Len(<< x >>) = 1 /\ Len(<< t >>) = 1 /\ << t >> \in Seq(NodeTypes) /\ 1 \in Nat
    OBVIOUS
  <2>2. TypesFit(Len(ast) + 1)
    BY <1>1, <1>2, <2>1, TypesAdded
  <2> QED
    BY <1>3, <2>2
<1>6. ASSUME NEW n \in 1 .. Len(ast') PROVE n \in 1 .. Len(ast) \/ n = Len(ast) + 1
  BY <1>2, <1>3
<1>7. NameFits(x)
  BY DEF AddsNode
<1> QED
  BY <1>3, <1>4, <1>5, <1>6, <1>7 DEF Fitted

LEMMA FunctionFitted ==
  ASSUME Syntax, NodesInv, NEW h, AddsFunction(h)
  PROVE Fitted /\ Planted(ast, ast', h.name, h.params, h.ret)
<1> DEFINE p == h.params
           ts == << "void" >> \o [i \in 1 .. Len(p) |-> "null"]
<1>1. /\ h \in Headers /\ h.name \in FnNames /\ p \in Seq(VarNames \X Types)
      /\ h.ret \in NodeTypes \ {"null"}
  BY HeadersAssumption, ParserAssumption DEF AddsFunction, NodeTypes, IntegralTypes
<1>2. ast \in Seq(TreeNode) /\ TreeFits(ast) /\ Len(p) \in Nat
  BY <1>1 DEF Syntax
<1>3. ast' = ast \o FunctionNodes(h.name, p, h.ret)
  BY DEF AddsFunction, AddNodes
<1>4. Planted(ast, ast', h.name, p, h.ret)
  BY <1>1, <1>2, <1>3, FunctionPlanted
<1>5. Len(FunctionNodes(h.name, p, h.ret)) = Len(p) + 1
  <2> DEFINE a == [i \in 1 .. Len(p) |-> Node("arg", p[i][1])]
             x == [Node("fn", h.name) EXCEPT !.word = h.ret,
                                             !.kids = [i \in 1 .. Len(p) |-> NewId + i]]
             S == {Node("arg", n) : n \in VarNames} \cup {x}
  <2>1. FunctionNodes(h.name, p, h.ret) = << x >> \o a
    BY DEF FunctionNodes
  <2>2. \A i \in 1 .. Len(p) : p[i][1] \in VarNames
    BY <1>1
  <2>3. x \in S /\ \A n \in VarNames : Node("arg", n) \in S
    OBVIOUS
  <2> HIDE DEF x, S
  <2>4. a \in Seq(S) /\ Len(a) = Len(p)
    BY <1>2, <2>2, <2>3
  <2> HIDE DEF a
  <2>5. Len(<< x >> \o a) = Len(a) + 1
    BY <2>3, <2>4, Pushed
  <2> QED
    BY <2>1, <2>4, <2>5
<1>6. ts \in Seq(NodeTypes) /\ Len(ts) = Len(p) + 1
  <2> DEFINE a == [i \in 1 .. Len(p) |-> "null"]
  <2>1. a \in Seq(NodeTypes) /\ Len(a) = Len(p)
    BY <1>2, WordTypes
  <2> HIDE DEF a
  <2>2. << "void" >> \o a \in Seq(NodeTypes) /\ Len(<< "void" >> \o a) = Len(p) + 1
    BY <1>2, <2>1, WordTypes, Pushed
  <2> QED
    BY <2>2 DEF a
<1> HIDE DEF ts
<1>7. TypesFit(Len(ast'))
  <2>1. AddNodes(FunctionNodes(h.name, p, h.ret), ts, FALSE)
    BY DEF AddsFunction, ts
  <2> DEFINE l == Len(p) + 1
             xs == FunctionNodes(h.name, p, h.ret)
  <2>2. TypesFit(Len(ast) + l)
    <3>1. l \in Nat /\ Len(xs) = l /\ Len(ts) = l /\ ts \in Seq(NodeTypes) /\ FALSE \in BOOLEAN
      BY <1>2, <1>5, <1>6
    <3> HIDE DEF l, xs
    <3> QED
      BY <1>2, <2>1, <3>1, TypesAdded DEF xs
  <2>3. Len(ast') = Len(ast) + 1 + Len(p)
    BY <1>4 DEF Planted
  <2>4. \A m, k \in Nat : m + (k + 1) = m + 1 + k
    OBVIOUS
  <2>5. Len(ast) \in Nat
    BY <1>2
  <2> QED
    BY <1>2, <2>2, <2>3, <2>4, <2>5
<1>8. Steady
  <2>1. ASSUME NEW m \in 1 .. Len(ast) PROVE ast'[m].kids = ast[m].kids
    BY <1>4 DEF Planted
  <2> QED
    BY <2>1 DEF Steady
<1>9. ASSUME NEW n \in 1 .. Len(ast') PROVE n \in 1 .. Len(ast) \/ NameFits(ast'[n])
  <2>1. Len(ast') = Len(ast) + 1 + Len(p)
    BY <1>4 DEF Planted
  <2>2. n \in 1 .. Len(ast) \/ n = Len(ast) + 1 \/ \E i \in 1 .. Len(p) : n = Len(ast) + 1 + i
    <3>1. Len(ast) \in Nat
      BY <1>2
    <3>2. n \in 1 .. (Len(ast) + 1 + Len(p))
      BY <2>1, Zenon
    <3> QED
      BY <1>2, <3>1, <3>2, Split
  <2>3. CASE n = Len(ast) + 1
    BY <1>1, <1>4, <2>3 DEF Planted, NameFits
  <2>4. ASSUME NEW i \in 1 .. Len(p), n = Len(ast) + 1 + i PROVE NameFits(ast'[n])
    <3>1. ast'[n] = Node("arg", p[i][1])
      BY <1>4, <2>4 DEF Planted
    <3>2. p[i][1] \in VarNames
      BY <1>1
    <3> QED
      BY <3>1, <3>2, NameKinds
  <2> QED
    BY <2>2, <2>3, <2>4
<1> QED
  BY <1>4, <1>7, <1>8, <1>9 DEF Fitted

LEMMA KidFitted ==
  ASSUME Syntax, NodesInv, AddsKid(Head(agenda).node)
  PROVE Fitted /\ Given(ast, ast', Head(agenda).node, value)
<1> DEFINE n == Head(agenda).node
<1>1. Given(ast, ast', n, value) /\ n \in 1 .. Len(ast)
  BY Giving DEF AddsKid
<1>2. /\ ast \in Seq(TreeNode) /\ agenda \in Seq(Item) /\ agenda # << >> /\ Head(agenda).what \in Enders
  BY DEF Syntax, AddsKid
<1>3. Held(agenda, n)
  <2>1. 1 \in 1 .. Len(agenda) /\ agenda[1] = Head(agenda)
    BY <1>2
  <2> QED
    BY <1>2, <2>1 DEF Held, HeldAs, Holders
<1> HIDE DEF n
<1>4. Steady
  <2>1. ASSUME NEW m \in 1 .. Len(ast), m # n PROVE ast'[m].kids = ast[m].kids
    BY <1>1, <2>1 DEF Given
  <2>2. \A i \in 1 .. Len(ast[n].kids) : i \in 1 .. Len(ast'[n].kids) /\ ast'[n].kids[i] = ast[n].kids[i]
    <3>1. ast'[n].kids = ast[n].kids \o << value >> /\ ast[n].kids \in Seq(Nat)
      BY <1>1, <1>2, NodesTyped DEF Given
    <3> DEFINE k == ast[n].kids
    <3> HIDE DEF k
    <3>2. /\ Len(k \o << value >>) = Len(k) + 1 /\ Len(k) \in Nat
          /\ \A i \in 1 .. Len(k) : (k \o << value >>)[i] = k[i]
      BY <3>1, AppendedAny DEF k
    <3> QED
      BY <3>1, <3>2 DEF k
  <2> QED
    BY <1>3, <2>1, <2>2 DEF Steady
<1>5. TypesFit(Len(ast'))
  <2>1. /\ types \in Seq(NodeTypes) /\ muts \in Seq(BOOLEAN) /\ Len(types) = Len(ast)
        /\ Len(muts) = Len(ast) /\ muts' = muts /\ Len(ast') = Len(ast)
        /\ types' = types \/ \E t \in NodeTypes : types' = [types EXCEPT ![n] = t]
    BY <1>1 DEF NodesInv, AddsKid, Given, n
  <2> QED
    BY <2>1, <1>1, Replaced DEF TypesFit
<1> QED
  BY <1>1, <1>4, <1>5 DEF Fitted, Given, n

LEMMA SameFitted ==
  ASSUME Syntax, NodesInv, ast' = ast, types' = types, muts' = muts PROVE Fitted
<1>1. Steady
  BY DEF Steady
<1>2. TypesFit(Len(ast'))
  BY DEF NodesInv, TypesFit
<1> QED
  BY <1>1, <1>2 DEF Fitted

LEMMA GrowsFitted == ASSUME Syntax, NodesInv, Grows PROVE Fitted
BY NodeFitted, FunctionFitted, KidFitted, SameFitted DEF Grows

LEMMA ParseValue ==
  ASSUME Syntax, NodesInv, Parse PROVE value' \in 0 .. Len(ast')
<1>1. /\ Extends(ast, ast') /\ ast \in Seq(TreeNode) /\ ast' \in Seq(TreeNode)
      /\ value \in 0 .. Len(ast)
  BY ParseSafe DEF SyntaxKept, Syntax, NodesInv
<1>2. Len(ast) <= Len(ast') /\ Len(ast) \in Nat /\ Len(ast') \in Nat
  BY <1>1 DEF Extends
<1>3. CASE ParseInteger \/ ParseOtherLiteral \/ ParseIdentifier
  <2>1. value' = NewId /\ \E x, t, b : AddNodes(<< x >>, << t >>, b)
    BY <1>3 DEF ParseInteger, ParseOtherLiteral, ParseIdentifier, Return
  <2>2. Len(ast') = Len(ast) + 1
    BY <1>1, <2>1, AppendedAny DEF AddNodes
  <2> QED
    BY <1>2, <2>1, <2>2 DEF NewId
<1>4. CASE EndCall \/ EndInfix \/ EndVarDecl \/ EndRet \/ EndIf
  <2>1. value' = value \/ value' = Head(agenda).node
    BY <1>4 DEF EndCall, EndInfix, EndVarDecl, EndRet, EndIf, Return, Throw, StopAs, parserVars
  <2>2. agenda # << >> /\ Head(agenda).what \notin Levelled /\ agenda \in Seq(Item)
        /\ AgendaFits(agenda, ast)
    BY <1>4 DEF EndCall, EndInfix, EndVarDecl, EndRet, EndIf, Doing, Levelled, Syntax
  <2>3. Head(agenda).node \in 1 .. Len(ast)
    BY <1>1, <2>2, BelowHead DEF HolderFits
  <2> QED
    BY <1>1, <1>2, <2>1, <2>3
<1>5. CASE value' = value
  BY <1>1, <1>2, <1>5
<1>6. \/ ParseInteger \/ ParseOtherLiteral \/ ParseIdentifier
      \/ EndCall \/ EndInfix \/ EndVarDecl \/ EndRet \/ EndIf \/ value' = value
  BY DEF Parse, BeginFunction, ParseFunction, EndFunction, BeginCall, ParseArgument,
     EndArgument, ParseOperator, ParseAssignment, EndExpression, BeginExplicit,
     BeginInferred, BeginRet, BeginIf, ParseIfBody, BeginExprStatement, EndOfFile,
     Throw, StopAs, parserVars
<1> QED
  BY <1>3, <1>4, <1>5, <1>6

LEMMA ParseNodes == ASSUME Syntax, NodesInv, Parse PROVE NodesInv' /\ Steady
<1>1. Fitted /\ Extends(ast, ast') /\ value' \in 0 .. Len(ast')
  BY ParseGrows, GrowsFitted, ParseSafe, ParseValue DEF SyntaxKept
<1>2. ASSUME NEW n \in 1 .. Len(ast') PROVE NameFits(ast'[n])
  <2>1. CASE n \in 1 .. Len(ast)
    BY <1>1, <2>1 DEF NodesInv, NameFits, Extends
  <2> QED
    BY <1>1, <2>1 DEF Fitted
<1> QED
  BY <1>1, <1>2 DEF NodesInv, Fitted, TypesFit

-----------------------------------------------------------------------------
(* What the agenda holds from step to step.                                *)

LEMMA HeldPush ==
  ASSUME NEW a \in Seq(Item), NEW x \in Item, NEW w, NEW n
  PROVE HeldAs(<< x >> \o a, w, n) <=> (x.what = w /\ x.node = n) \/ HeldAs(a, w, n)
<1> DEFINE b == << x >> \o a
<1>1. /\ Len(b) = Len(a) + 1 /\ Len(a) \in Nat /\ b[1] = x
      /\ \A i \in 1 .. Len(a) : b[i + 1] = a[i]
  BY Pushed
<1> HIDE DEF b
<1>2. ASSUME NEW i \in 1 .. Len(b) PROVE i = 1 \/ (i - 1 \in 1 .. Len(a) /\ b[i] = a[i - 1])
  <2>1. i # 1 => i - 1 \in 1 .. Len(a) /\ (i - 1) + 1 = i
    BY <1>1
  <2> QED
    BY <1>1, <2>1
<1>3. HeldAs(b, w, n) => (x.what = w /\ x.node = n) \/ HeldAs(a, w, n)
  BY <1>1, <1>2 DEF HeldAs
<1>4. x.what = w /\ x.node = n => HeldAs(b, w, n)
  <2>1. 1 \in 1 .. Len(b)
    BY <1>1
  <2> QED
    BY <1>1, <2>1 DEF HeldAs
<1>5. HeldAs(a, w, n) => HeldAs(b, w, n)
  <2>1. \A i \in 1 .. Len(a) : i + 1 \in 1 .. Len(b)
    BY <1>1
  <2> QED
    BY <1>1, <2>1 DEF HeldAs
<1> QED
  BY <1>3, <1>4, <1>5 DEF b

LEMMA HeldTail ==
  ASSUME NEW a \in Seq(Item), a # << >>, NEW w, NEW n
  PROVE HeldAs(a, w, n) <=> (Head(a).what = w /\ Head(a).node = n) \/ HeldAs(Tail(a), w, n)
<1>1. Head(a) \in Item /\ Tail(a) \in Seq(Item) /\ a = << Head(a) >> \o Tail(a)
  OBVIOUS
<1> QED
  BY <1>1, HeldPush

LEMMA NotHeld == ASSUME NEW a, NEW n \in Nat, Older(a, n) PROVE ~Held(a, n)
<1> SUFFICES ASSUME NEW i \in 1 .. Len(a), NEW w \in Holders, a[i].what = w, a[i].node = n PROVE FALSE
  BY DEF Held, HeldAs
<1>1. a[i].what \notin Levelled
  BY DEF Holders, Enders, BodyKinds, Levelled
<1>2. n > n
  BY <1>1 DEF Older
<1> QED
  BY <1>2

LEMMA HeldNodes ==
  ASSUME Syntax, NEW n, Held(agenda, n) PROVE n \in 1 .. Len(ast)
<1> PICK i \in 1 .. Len(agenda) : agenda[i].what \in Holders /\ agenda[i].node = n
  BY DEF Held, HeldAs
<1>1. agenda[i].what \notin Levelled
  BY DEF Holders, Enders, BodyKinds, Levelled
<1> QED
  BY <1>1, ItemsOld DEF Syntax

(* Only new nodes are put on the agenda, and a call stays until its end.   *)
Moves ==
  /\ \A w \in Holders : \A n : HeldAs(agenda', w, n) => n = NewId \/ Held(agenda, n)
  /\ \A n : HeldAs(agenda, "call", n) =>
       HeldAs(agenda', "call", n) \/ (EndCall /\ n = Head(agenda).node)

(* Which parsers end in this step, and which ones begin.                   *)
MayPop(what) ==
  /\ what = "call" => EndCall
  /\ what = "explicit" => EndVarDecl
  /\ what \in BodyKinds => EndFunction \/ EndIf

MayPush(what) ==
  /\ what = "explicit" => BeginExplicit
  /\ what \in BodyKinds => BeginFunction \/ ParseIfBody

(* An item that may be put on the agenda.                                  *)
Fresh(x) ==
  /\ x \in Item
  /\ x.what \in Levelled \/ x.node = NewId \/ Held(agenda, x.node)
  /\ MayPush(x.what)

LEMMA FreshHeld ==
  ASSUME NEW a \in Seq(Item), NEW x, Fresh(x),
         \A w \in Holders : \A n : HeldAs(a, w, n) => n = NewId \/ Held(agenda, n)
  PROVE \A w \in Holders : \A n : HeldAs(<< x >> \o a, w, n) => n = NewId \/ Held(agenda, n)
<1> SUFFICES ASSUME NEW w \in Holders, NEW n, HeldAs(<< x >> \o a, w, n)
             PROVE n = NewId \/ Held(agenda, n)
  OBVIOUS
<1>1. (x.what = w /\ x.node = n) \/ HeldAs(a, w, n)
  BY HeldPush DEF Fresh
<1>2. w \notin Levelled
  BY DEF Holders, Enders, BodyKinds, Levelled
<1> QED
  BY <1>1, <1>2 DEF Fresh

(* The rest of the agenda, under one item or two.                          *)
Rest(a) ==
  /\ a \in Seq(Item)
  /\ \/ a = agenda
     \/ agenda # << >> /\ a = Tail(agenda) /\ MayPop(Head(agenda).what)

(* The agenda after a step.                                                *)
Turns ==
  \E a : /\ Rest(a)
         /\ \/ agenda' = a
            \/ \E x : Fresh(x) /\ agenda' = << x >> \o a
            \/ \E x, y : Fresh(x) /\ Fresh(y) /\ agenda' = << x, y >> \o a

LEMMA RestMoves ==
  ASSUME Syntax, NEW a, Rest(a)
  PROVE /\ \A w \in Holders : \A n : HeldAs(a, w, n) => n = NewId \/ Held(agenda, n)
        /\ \A n : HeldAs(agenda, "call", n) => HeldAs(a, "call", n) \/ (EndCall /\ n = Head(agenda).node)
<1>1. CASE a = agenda
  BY <1>1 DEF Held
<1>2. CASE agenda # << >> /\ a = Tail(agenda) /\ (Head(agenda).what = "call" => EndCall)
  <2>1. \A w, n : HeldAs(agenda, w, n) <=> (Head(agenda).what = w /\ Head(agenda).node = n) \/ HeldAs(a, w, n)
    BY <1>2, HeldTail DEF Syntax
  <2> QED
    BY <1>2, <2>1 DEF Held
<1> QED
  BY <1>1, <1>2 DEF Rest, MayPop

LEMMA MovesOne ==
  ASSUME Syntax, NEW a, Rest(a), NEW x, Fresh(x), agenda' = << x >> \o a PROVE Moves
<1>1. \A n : HeldAs(a, "call", n) => HeldAs(agenda', "call", n)
  BY HeldPush DEF Rest, Fresh
<1>2. \A w \in Holders : \A n : HeldAs(agenda', w, n) => n = NewId \/ Held(agenda, n)
  BY RestMoves, FreshHeld DEF Rest
<1> QED
  BY <1>1, <1>2, RestMoves DEF Moves

LEMMA MovesTwo ==
  ASSUME Syntax, NEW a, Rest(a), NEW x, Fresh(x), NEW y, Fresh(y), agenda' = << x, y >> \o a
  PROVE Moves
<1> DEFINE b == << y >> \o a
<1>1. a \in Seq(Item) /\ x \in Item /\ y \in Item
  BY DEF Rest, Fresh
<1>2. agenda' = << x >> \o b /\ b \in Seq(Item)
  BY <1>1, PushedTwo
<1>3. \A n : HeldAs(a, "call", n) => HeldAs(b, "call", n)
  BY <1>1, HeldPush
<1>4. \A w \in Holders : \A n : HeldAs(b, w, n) => n = NewId \/ Held(agenda, n)
  BY <1>1, RestMoves, FreshHeld
<1> HIDE DEF b
<1>5. \A n : HeldAs(b, "call", n) => HeldAs(agenda', "call", n)
  BY <1>1, <1>2, HeldPush
<1>6. \A w \in Holders : \A n : HeldAs(agenda', w, n) => n = NewId \/ Held(agenda, n)
  BY <1>2, <1>4, FreshHeld
<1> QED
  BY <1>3, <1>5, <1>6, RestMoves DEF Moves

LEMMA TurnsMove == ASSUME Syntax, Turns PROVE Moves
<1> PICK a : /\ Rest(a)
             /\ \/ agenda' = a
                \/ \E x : Fresh(x) /\ agenda' = << x >> \o a
                \/ \E x, y : Fresh(x) /\ Fresh(y) /\ agenda' = << x, y >> \o a
  BY DEF Turns
<1>1. agenda' = a => Moves
  BY RestMoves DEF Moves
<1> QED
  BY <1>1, MovesOne, MovesTwo

LEMMA TurnRest == ASSUME NEW a, Rest(a), agenda' = a PROVE Turns
BY DEF Turns

LEMMA TurnOne == ASSUME NEW a, Rest(a), NEW x, Fresh(x), agenda' = << x >> \o a PROVE Turns
BY DEF Turns

LEMMA TurnTwo ==
  ASSUME NEW a, Rest(a), NEW x, Fresh(x), NEW y, Fresh(y), agenda' = << x, y >> \o a
  PROVE Turns
BY DEF Turns

LEMMA HeadHeld ==
  ASSUME Syntax, agenda # << >>, Head(agenda).what \in Holders
  PROVE Held(agenda, Head(agenda).node)
<1>1. HeldAs(agenda, Head(agenda).what, Head(agenda).node)
  BY HeldTail DEF Syntax
<1> QED
  BY <1>1 DEF Held

LEMMA FreshItems ==
  ASSUME Syntax
  PROVE /\ \A l \in 0 .. 10 : Fresh(ExprItem(l)) /\ Fresh(InfixItem(l))
        /\ \A w \in Holders : MayPush(w) =>
             /\ Fresh(NodeItem(w, NewId))
             /\ \A n : Held(agenda, n) => Fresh(NodeItem(w, n))
<1>1. NewId \in Nat
  BY DEF Syntax, NewId
<1>2. \A n : Held(agenda, n) => n \in Nat
  BY HeldNodes DEF Syntax
<1>3. \A w \in Holders : w \in Enders \cup BodyKinds \cup {"call"}
  BY DEF Holders
<1> QED
  BY <1>1, <1>2, <1>3, MadeItems DEF Fresh, Levelled, MayPush, BodyKinds

LEMMA StopTurns == ASSUME Syntax, agenda' = agenda PROVE Turns
<1>1. Rest(agenda)
  BY DEF Rest, Syntax
<1> QED
  BY <1>1, TurnRest

LEMMA TheRest ==
  ASSUME Syntax, NEW what, Doing(what), \A w \in what : MayPop(w)
  PROVE Rest(Tail(agenda)) /\ Rest(agenda) /\ << >> \o Tail(agenda) = Tail(agenda)
<1>1. agenda # << >> /\ Head(agenda).what \in what /\ Tail(agenda) \in Seq(Item) /\ agenda \in Seq(Item)
  BY AtHead DEF Syntax
<1>2. << >> \o Tail(agenda) = Tail(agenda)
  BY <1>1, PushedNone
<1> QED
  BY <1>1, <1>2 DEF Rest

LEMMA PopsTurn ==
  ASSUME Syntax, EndFunction \/ EndArgument \/ EndCall \/ EndInfix \/ EndExpression
                 \/ EndVarDecl \/ EndRet \/ EndIf
  PROVE Turns
<1>1. \E what : Doing(what) /\ \A w \in what : MayPop(w)
  <2>1. \/ Doing({"argument", "right", "assign", "infix", "inferred", "ret"})
        \/ Doing({"explicit", "inferred"}) /\ EndVarDecl
        \/ Doing({"call"}) /\ EndCall
        \/ Doing({"fn", "if"}) /\ (EndFunction \/ EndIf)
    BY DEF EndFunction, EndArgument, EndCall, EndInfix, EndExpression, EndVarDecl, EndRet,
       EndIf, Doing
  <2> QED
    BY <2>1 DEF MayPop, BodyKinds
<1>2. agenda' = agenda \/ agenda' = << >> \o Tail(agenda)
  BY DEF EndFunction, EndArgument, EndCall, EndInfix, EndExpression, EndVarDecl, EndRet, EndIf,
     Replace, Throw, StopAs, parserVars
<1> QED
  BY <1>1, <1>2, TheRest, TurnRest, StopTurns

LEMMA SwapsTurn ==
  ASSUME Syntax, ParseInteger \/ ParseOtherLiteral \/ ParseIdentifier \/ ParseIfBody
  PROVE Turns
<1>1. CASE ParseIfBody
  <2> DEFINE y == NodeItem("if", Head(agenda).node)
  <2>1. agenda' = << y >> \o Tail(agenda) /\ Doing({"condition"})
    BY <1>1 DEF ParseIfBody, Replace
  <2>2. agenda # << >> /\ Head(agenda).what = "condition"
    BY <2>1 DEF Doing
  <2>3. Fresh(y)
    BY <1>1, <2>2, HeadHeld, FreshItems DEF Holders, Enders, BodyKinds, MayPush
  <2> HIDE DEF y
  <2> QED
    BY <2>1, <2>3, TheRest, TurnOne DEF MayPop, BodyKinds
<1>2. CASE ParseInteger \/ ParseOtherLiteral \/ ParseIdentifier
  <2> DEFINE y == InfixItem(Head(agenda).level)
  <2>1. agenda' = << y >> \o Tail(agenda) /\ Doing({"expr"})
    BY <1>2 DEF ParseInteger, ParseOtherLiteral, ParseIdentifier, Operand, Replace
  <2>2. Head(agenda).level \in 0 .. 10
    BY <2>1, AtHead, ItemFields DEF Levelled
  <2>3. Fresh(y)
    BY <2>2, FreshItems
  <2> HIDE DEF y
  <2> QED
    BY <2>1, <2>3, TheRest, TurnOne DEF MayPop, BodyKinds
<1> QED
  BY <1>1, <1>2

LEMMA PushesTurn ==
  ASSUME Syntax, ParseArgument \/ ParseOperator \/ ParseAssignment \/ BeginExplicit
                 \/ BeginInferred \/ BeginRet \/ BeginIf \/ BeginExprStatement
  PROVE Turns
<1>1. Rest(agenda)
  BY DEF Rest, Syntax
<1>2. CASE ParseArgument
  <2> DEFINE y == NodeItem("argument", Head(agenda).node)
  <2>1. agenda' = << ExprItem(0), y >> \o agenda /\ agenda # << >> /\ Head(agenda).what = "call"
    BY <1>2 DEF ParseArgument, Enter, Doing
  <2>2. Fresh(y) /\ Fresh(ExprItem(0))
    BY <2>1, HeadHeld, FreshItems DEF Holders, Enders, BodyKinds, MayPush
  <2> HIDE DEF y
  <2> QED
    BY <1>1, <2>1, <2>2, TurnTwo
<1>3. CASE BeginExprStatement
  <2>1. agenda' = << ExprItem(0) >> \o agenda
    BY <1>3 DEF BeginExprStatement, Enter
  <2>2. Fresh(ExprItem(0))
    BY FreshItems
  <2> QED
    BY <1>1, <2>1, <2>2, TurnOne
<1>4. CASE ParseOperator \/ ParseAssignment \/ BeginExplicit \/ BeginInferred \/ BeginRet \/ BeginIf
  <2>1. agenda' = agenda \/ \E l \in 0 .. 10, w \in Holders : MayPush(w) /\ agenda' = << ExprItem(l), NodeItem(w, NewId) >> \o agenda
    <3>1. CASE ParseOperator
      <4>1. Precedence(token) \in 0 .. 10
        BY <3>1, Precedences DEF ParseOperator
      <4> QED
        BY <3>1, <4>1 DEF ParseOperator, Enter, Holders, Enders, BodyKinds, MayPush
    <3>2. CASE ParseAssignment
      <4>1. Precedence(token) \in 0 .. 10
        BY <3>2, Precedences DEF ParseAssignment
      <4>2. agenda' = agenda \/ agenda' = << ExprItem(Precedence(token)), NodeItem("assign", NewId) >> \o agenda
        BY <3>2 DEF ParseAssignment, Enter, Throw, StopAs, parserVars
      <4> QED
        BY <4>1, <4>2 DEF Holders, Enders, BodyKinds, MayPush
    <3>3. CASE BeginExplicit \/ BeginInferred \/ BeginRet \/ BeginIf
      <4>1. \E w \in {"explicit", "inferred", "ret", "condition"} :
              (w = "explicit" => BeginExplicit) /\ agenda' = << ExprItem(0), NodeItem(w, NewId) >> \o agenda
        BY <3>3 DEF BeginExplicit, BeginInferred, BeginRet, BeginIf, Enter
      <4>2. 0 \in 0 .. 10 /\ {"explicit", "inferred", "ret", "condition"} \subseteq Holders \ BodyKinds
        BY DEF Holders, Enders, BodyKinds
      <4> QED
        BY <4>1, <4>2 DEF MayPush, BodyKinds
    <3> QED
      BY <1>4, <3>1, <3>2, <3>3
  <2>2. ASSUME NEW l \in 0 .. 10, NEW w \in Holders, MayPush(w),
               agenda' = << ExprItem(l), NodeItem(w, NewId) >> \o agenda
        PROVE Turns
    BY <1>1, <2>2, FreshItems, TurnTwo
  <2> QED
    BY <2>1, <2>2, StopTurns
<1> QED
  BY <1>2, <1>3, <1>4

LEMMA BodiesTurn ==
  ASSUME Syntax, BeginFunction \/ BeginCall PROVE Turns
<1>1. CASE BeginFunction
  <2>1. agenda' = agenda \/ agenda' = << NodeItem("fn", NewId) >> \o agenda
    BY <1>1 DEF BeginFunction, ParseFunction, Enter, Throw, StopAs, parserVars
  <2>2. Rest(agenda) /\ Fresh(NodeItem("fn", NewId))
    BY <1>1, FreshItems DEF Rest, Syntax, Holders, BodyKinds, MayPush
  <2> QED
    BY <2>1, <2>2, StopTurns, TurnOne
<1>2. CASE BeginCall
  <2>1. /\ agenda' = << NodeItem("call", NewId), InfixItem(Head(agenda).level) >> \o Tail(agenda)
        /\ Doing({"expr"})
    BY <1>2 DEF BeginCall, Replace
  <2>2. Head(agenda).level \in 0 .. 10
    BY <2>1, AtHead, ItemFields DEF Levelled
  <2>3. Fresh(NodeItem("call", NewId)) /\ Fresh(InfixItem(Head(agenda).level))
    BY <2>2, FreshItems DEF Holders, BodyKinds, MayPush
  <2>4. Rest(Tail(agenda))
    BY <2>1, TheRest DEF MayPop, BodyKinds
  <2> QED
    BY <2>1, <2>3, <2>4, TurnTwo
<1> QED
  BY <1>1, <1>2

LEMMA ParseTurns == ASSUME Syntax, Parse PROVE Turns
<1>1. EndOfFile => Turns
  BY StopTurns DEF EndOfFile, parserVars
<1> QED
  BY <1>1, PopsTurn, SwapsTurn, PushesTurn, BodiesTurn DEF Parse

LEMMA ParseMoves == ASSUME Syntax, Parse PROVE Moves
BY ParseTurns, TurnsMove

-----------------------------------------------------------------------------
(* The trail.                                                              *)

(* A step that a parser adds to the trail, where the tree ends as it is.   *)
Trails == trail' = trail \/ \E e : trail' = Append(trail, e) /\ StepFits(e)'

LEMMA Stepped ==
  ASSUME NEW step \in {"enter", "leave"}, NEW n \in Nat
  PROVE Step(step, n) \in TrailStep /\ Step(step, n).step = step /\ Step(step, n).node = n
BY DEF Step, TrailStep, Below

LEMMA LeftFits ==
  ASSUME Syntax', NEW e, e \in TrailStep, e.node \in 1 .. Len(ast'), e.step = "leave",
         Complete(ast', e.node), Older(agenda', e.node)
  PROVE StepFits(e)'
<1>1. e.node \in Nat
  BY DEF TrailStep
<1>2. ~Held(agenda', e.node)
  BY <1>1, NotHeld
<1> QED
  BY <1>2 DEF StepFits

LEMMA InfixOlder ==
  ASSUME Syntax', agenda' # << >>, Head(agenda').what \in Enders \cup {"infix"}
  PROVE value' \in 1 .. Len(ast') /\ Older(agenda', value')
BY DEF Syntax, ValueFits, Older

LEMMA LeavesTrail ==
  ASSUME Syntax, Syntax', ParseInteger \/ ParseOtherLiteral \/ ParseIdentifier
  PROVE Trails
<1>1. /\ value' = NewId /\ trail' = Append(trail, Step("leave", NewId))
      /\ agenda' = << InfixItem(Head(agenda).level) >> \o Tail(agenda) /\ Doing({"expr"})
  BY DEF ParseInteger, ParseOtherLiteral, ParseIdentifier, Return, LeaveAs, Operand, Replace
<1>2. PICK kind \in {"literal", "identifier"}, n \in AllNames \cup {"none"} :
        ast' = ast \o << Node(kind, n) >>
  <2>1. CASE ParseInteger
    BY <2>1 DEF ParseInteger, AddNodes
  <2>2. CASE ParseOtherLiteral
    BY <2>2 DEF ParseOtherLiteral, AddNodes
  <2>3. CASE ParseIdentifier
    BY <2>3 DEF ParseIdentifier, AddNodes
  <2> QED
    BY <2>1, <2>2, <2>3
<1>3. NewId \in Nat /\ Head(agenda) \in Item /\ Tail(agenda) \in Seq(Item) /\ Head(agenda).what = "expr"
  BY <1>1, AtHead
<1>4. agenda' # << >> /\ Head(agenda').what = "infix"
  <2>1. InfixItem(Head(agenda).level) \in Item /\ InfixItem(Head(agenda).level).what = "infix"
    BY <1>3, ItemFields, MadeItems DEF Levelled
  <2> QED
    BY <1>1, <1>3, <2>1, Pushed
<1>5. Older(agenda', NewId) /\ NewId \in 1 .. Len(ast')
  BY <1>1, <1>4, InfixOlder
<1>6. ast'[NewId].kind = kind
  BY <1>2, AppendedAny DEF Syntax, NewId, Node
<1>7. PICK e : e = Step("leave", NewId)
  OBVIOUS
<1>8. e \in TrailStep /\ e.step = "leave" /\ e.node = NewId
  BY <1>3, <1>7, Stepped
<1>9. Complete(ast', NewId)
  BY <1>2, <1>6 DEF Complete
<1>10. StepFits(e)'
  BY <1>5, <1>8, <1>9, LeftFits
<1> QED
  BY <1>1, <1>7, <1>10 DEF Trails

(* The head leaves its node, of which everything is there.                 *)
LEMMA HeadTrail ==
  ASSUME Syntax, Syntax', agenda # << >>, Head(agenda).what \notin Levelled \cup {"argument"},
         agenda' = << >> \o Tail(agenda), NEW e \in TrailStep, e.step = "leave",
         e.node = Head(agenda).node, Complete(ast', e.node), trail' = Append(trail, e),
         Len(ast) <= Len(ast')
  PROVE Trails
<1>1. /\ agenda \in Seq(Item) /\ AgendaFits(agenda, ast) /\ ast \in Seq(TreeNode)
      /\ ast' \in Seq(TreeNode) /\ Tail(agenda) \in Seq(Item)
  BY Tailed DEF Syntax
<1>2. HolderFits(ast, Head(agenda), Tail(agenda))
  BY <1>1, BelowHead
<1>3. e.node \in 1 .. Len(ast') /\ Older(agenda', e.node)
  <2>1. agenda' = Tail(agenda)
    BY <1>1, PushedNone
  <2>2. e.node \in 1 .. Len(ast) /\ Older(agenda', e.node)
    BY <1>2, <2>1 DEF HolderFits
  <2> QED
    BY <1>1, <2>2
<1>4. StepFits(e)'
  BY <1>3, LeftFits
<1> QED
  BY <1>4 DEF Trails

LEMMA HeadNode ==
  ASSUME Syntax, agenda # << >>, Head(agenda).what \notin Levelled
  PROVE Head(agenda).node \in Nat /\ Head(agenda).node \in 1 .. Len(ast)
        /\ ast[Head(agenda).node].kind = KindOf(Head(agenda).what)
BY BelowHead, ItemFields DEF Syntax, HolderFits

LEMMA CallTrails == ASSUME Syntax, Syntax', EndCall PROVE Trails
<1> DEFINE n == Head(agenda).node
<1>1. /\ agenda # << >> /\ Head(agenda).what = "call" /\ agenda' = << >> \o Tail(agenda)
      /\ ast' = ast
      /\ trail' = Append(trail, [Step("leave", n) EXCEPT
                     !.inCall = \E i \in 2 .. Len(agenda) : agenda[i].what = "call"])
  BY DEF EndCall, Doing, Replace
<1>2. n \in Nat /\ ast[n].kind = "call"
  BY <1>1, HeadNode DEF Levelled, KindOf
<1> HIDE DEF n
<1>3. PICK e : e = [Step("leave", n) EXCEPT
                     !.inCall = \E i \in 2 .. Len(agenda) : agenda[i].what = "call"]
  OBVIOUS
<1>4. e \in TrailStep /\ e.step = "leave" /\ e.node = n
  BY <1>2, <1>3 DEF Step, TrailStep, Below
<1>5. Complete(ast', n)
  BY <1>1, <1>2 DEF Complete
<1>6. Len(ast) <= Len(ast')
  BY <1>1 DEF Syntax
<1> QED
  BY <1>1, <1>3, <1>4, <1>5, <1>6, HeadTrail DEF n, Levelled

LEMMA InfixTrails == ASSUME Syntax, Syntax', EndInfix PROVE Trails
<1> DEFINE n == Head(agenda).node
<1>1. /\ agenda # << >> /\ Head(agenda).what \in {"right", "assign"}
      /\ agenda' = << >> \o Tail(agenda) /\ AddKid(n)
      /\ trail' = Append(trail, [Step("leave", n) EXCEPT
                     !.inAssign = \E i \in 2 .. Len(agenda) : agenda[i].what = "assign"])
  BY DEF EndInfix, Doing, Replace
<1>2. n \in Nat
  BY <1>1, HeadNode DEF Levelled
<1>3. Complete(ast', n) /\ Len(ast) <= Len(ast')
  BY <1>1, Giving DEF Enders, Given, Extends
<1> HIDE DEF n
<1>4. PICK e : e = [Step("leave", n) EXCEPT
                     !.inAssign = \E i \in 2 .. Len(agenda) : agenda[i].what = "assign"]
  OBVIOUS
<1>5. e \in TrailStep /\ e.step = "leave" /\ e.node = n
  BY <1>2, <1>4 DEF Step, TrailStep, Below
<1> QED
  BY <1>1, <1>3, <1>4, <1>5, HeadTrail DEF n, Levelled

LEMMA StatementTrails == ASSUME Syntax, Syntax', EndVarDecl \/ EndRet PROVE Trails
<1> DEFINE n == Head(agenda).node
<1>1. CASE trail' = trail
  BY <1>1 DEF Trails
<1>2. CASE trail' # trail
  <2>1. /\ agenda # << >> /\ Head(agenda).what \in {"explicit", "inferred", "ret"}
        /\ agenda' = << >> \o Tail(agenda) /\ AddKid(n)
        /\ trail' = Append(trail, Step("leave", n))
    BY <1>2 DEF EndVarDecl, EndRet, Doing, Replace, Return, LeaveAs, Throw, StopAs, treeVars
  <2>2. n \in Nat
    BY <2>1, HeadNode DEF Levelled
  <2>3. Complete(ast', n) /\ Len(ast) <= Len(ast')
    BY <2>1, Giving DEF Enders, Given, Extends
  <2> HIDE DEF n
  <2>4. PICK e : e = Step("leave", n)
    OBVIOUS
  <2>5. e \in TrailStep /\ e.step = "leave" /\ e.node = n
    BY <2>2, <2>4, Stepped
  <2> QED
    BY <2>1, <2>3, <2>4, <2>5, HeadTrail DEF n, Levelled
<1> QED
  BY <1>1, <1>2

LEMMA BodyTrails == ASSUME Syntax, Syntax', EndIf \/ EndFunction PROVE Trails
<1> DEFINE n == Head(agenda).node
<1>1. /\ agenda # << >> /\ Head(agenda).what \in BodyKinds
      /\ agenda' = << >> \o Tail(agenda) /\ ast' = ast
      /\ trail' = Append(trail, Step("leave", n))
  BY DEF EndIf, EndFunction, Doing, Replace, Return, LeaveAs, BodyKinds
<1>2. n \in Nat /\ ast[n].kind = KindOf(Head(agenda).what)
  BY <1>1, HeadNode DEF Levelled, BodyKinds
<1>3. Complete(ast', n)
  <2>1. ItemFits(ast, Head(agenda))
    BY <1>1, AgendaTail DEF Syntax
  <2> QED
    BY <1>1, <1>2, <2>1 DEF Complete, ItemFits, KindOf, BodyKinds, Levelled
<1> HIDE DEF n
<1>4. PICK e : e = Step("leave", n)
  OBVIOUS
<1>5. e \in TrailStep /\ e.step = "leave" /\ e.node = n
  BY <1>2, <1>4, Stepped
<1>6. Len(ast) <= Len(ast')
  BY <1>1 DEF Syntax
<1> QED
  BY <1>1, <1>3, <1>4, <1>5, <1>6, HeadTrail DEF n, Levelled, BodyKinds

LEMMA EntersTrail == ASSUME Syntax, Syntax', NodesInv, BeginFunction \/ ParseIfBody PROVE Trails
<1>1. CASE BeginFunction
  <2>1. PICK h \in Headers : ParseFunction(h.name, h.params, h.ret, h.ext)
    BY <1>1 DEF BeginFunction
  <2>2. CASE trail' = trail
    BY <2>2 DEF Trails
  <2>3. CASE trail' # trail
    <3>1. AddsFunction(h) /\ trail' = Append(trail, Step("enter", NewId))
      BY <2>1, <2>3 DEF ParseFunction, AddsFunction, Throw, StopAs, treeVars
    <3>2. Planted(ast, ast', h.name, h.params, h.ret)
      BY <3>1, FunctionFitted
    <3>3. NewId \in 1 .. Len(ast') /\ ast'[NewId].kind = "fn" /\ NewId \in Nat
      <4>1. Len(ast') = Len(ast) + 1 + Len(h.params) /\ ast'[NewId].kind = "fn"
        BY <3>2 DEF Planted, NewId
      <4>2. Len(h.params) \in Nat /\ Len(ast) \in Nat
        BY HeadersAssumption DEF Syntax
      <4>3. \A l, k \in Nat : l + 1 \in 1 .. (l + 1 + k) /\ l + 1 \in Nat
        OBVIOUS
      <4>4. Len(ast) + 1 \in 1 .. (Len(ast) + 1 + Len(h.params)) /\ Len(ast) + 1 \in Nat
        BY <4>2, <4>3
      <4>5. NewId = Len(ast) + 1
        BY DEF NewId
      <4>6. NewId \in 1 .. Len(ast') /\ NewId \in Nat
        BY <4>1, <4>4, <4>5, Zenon
      <4> QED
        BY <4>1, <4>6
    <3>4. PICK e : e = Step("enter", NewId)
      OBVIOUS
    <3>5. e \in TrailStep /\ e.step = "enter" /\ e.node = NewId
      BY <3>3, <3>4, Stepped
    <3>6. StepFits(e)'
      BY <3>3, <3>5 DEF StepFits, BodyKinds
    <3> QED
      BY <3>1, <3>4, <3>6 DEF Trails
  <2> QED
    BY <2>2, <2>3
<1>2. CASE ParseIfBody
  <2> DEFINE n == Head(agenda).node
  <2>1. /\ agenda # << >> /\ Head(agenda).what = "condition" /\ AddKid(n)
        /\ trail' = Append(trail, Step("enter", n))
    BY <1>2 DEF ParseIfBody, Doing
  <2>2. n \in 1 .. Len(ast) /\ n \in Nat /\ ast[n].kind = "if"
    BY <2>1, HeadNode DEF Levelled, KindOf
  <2>3. n \in 1 .. Len(ast') /\ ast'[n].kind = "if"
    BY <2>1, <2>2, Giving DEF Enders, Given, Extends
  <2> HIDE DEF n
  <2>4. PICK e : e = Step("enter", n)
    OBVIOUS
  <2>5. e \in TrailStep /\ e.step = "enter" /\ e.node = n
    BY <2>2, <2>4, Stepped
  <2>6. StepFits(e)'
    BY <2>3, <2>5 DEF StepFits, BodyKinds
  <2> QED
    BY <2>1, <2>4, <2>6 DEF Trails
<1> QED
  BY <1>1, <1>2

LEMMA ParseTrails == ASSUME Syntax, NodesInv, Parse PROVE Trails
<1>1. Syntax'
  BY ParseSafe DEF SyntaxKept
<1>2. CASE trail' = trail
  BY <1>2 DEF Trails
<1>3. \/ ParseInteger \/ ParseOtherLiteral \/ ParseIdentifier \/ EndCall \/ EndInfix
      \/ EndVarDecl \/ EndRet \/ EndIf \/ EndFunction \/ BeginFunction \/ ParseIfBody
      \/ trail' = trail
  BY DEF Parse, BeginCall, ParseArgument, EndArgument, ParseOperator, ParseAssignment,
     EndExpression, BeginExplicit, BeginInferred, BeginRet, BeginIf, BeginExprStatement,
     EndOfFile, Throw, StopAs, treeVars
<1> QED
  BY <1>1, <1>2, <1>3, LeavesTrail, CallTrails, InfixTrails, StatementTrails, BodyTrails,
     EntersTrail

(* The steps that are there remain fit.                                    *)
LEMMA StepsKept ==
  ASSUME Syntax, Syntax', Extends(ast, ast'), Moves, Steady, NEW e, StepFits(e)
  PROVE StepFits(e)'
<1>1. e.node \in 1 .. Len(ast) /\ e.node \in 1 .. Len(ast') /\ e.node # NewId
  BY DEF StepFits, Extends, Syntax, NewId
<1>2. ~Held(agenda, e.node) => ~Held(agenda', e.node)
  BY <1>1 DEF Moves, Held
<1>3. ~Held(agenda, e.node) /\ Complete(ast, e.node) => Complete(ast', e.node)
  BY <1>1 DEF Steady, Complete, Extends
<1>4. ast'[e.node].kind = ast[e.node].kind
  BY <1>1 DEF Extends
<1> QED
  BY <1>1, <1>2, <1>3, <1>4 DEF StepFits

LEMMA ParseTrailInv == ASSUME Syntax, NodesInv, TrailInv, Parse PROVE TrailInv'
<1>1. Syntax' /\ Extends(ast, ast') /\ Moves /\ Steady /\ Trails
  BY ParseSafe, ParseMoves, ParseNodes, ParseTrails DEF SyntaxKept
<1>2. ASSUME NEW p \in 1 .. Len(trail) PROVE \E e : e = trail[p] /\ StepFits(e)'
  <2>1. PICK e : e = trail[p]
    OBVIOUS
  <2>2. StepFits(e)
    BY <2>1 DEF TrailInv
  <2>3. StepFits(e)'
    BY <1>1, <2>2, StepsKept
  <2> QED
    BY <2>1, <2>3
<1>3. trail' \in Seq(TrailStep)
      /\ \A p \in 1 .. Len(trail') : \E e : e = trail'[p] /\ StepFits(e)'
  <2>1. CASE trail' = trail
    BY <1>2, <2>1 DEF TrailInv
  <2>2. ASSUME NEW e, trail' = Append(trail, e), StepFits(e)'
        PROVE /\ trail' \in Seq(TrailStep)
              /\ \A p \in 1 .. Len(trail') : \E f : f = trail'[p] /\ StepFits(f)'
    <3>1. e \in TrailStep /\ trail \in Seq(TrailStep)
      BY <2>2 DEF StepFits, TrailInv
    <3>2. /\ trail' \in Seq(TrailStep) /\ Len(trail') = Len(trail) + 1
          /\ trail'[Len(trail) + 1] = e /\ \A p \in 1 .. Len(trail) : trail'[p] = trail[p]
      BY <2>2, <3>1, Appended
    <3>3. ASSUME NEW p \in 1 .. Len(trail') PROVE p \in 1 .. Len(trail) \/ p = Len(trail) + 1
      BY <3>1, <3>2
    <3> QED
      BY <1>2, <2>2, <3>2, <3>3
  <2> QED
    BY <1>1, <2>1, <2>2 DEF Trails
<1>4. ASSUME NEW p \in 1 .. Len(trail') PROVE StepFits(trail[p])'
  <2>1. PICK e : e = trail'[p] /\ StepFits(e)'
    BY <1>3
  <2> QED
    BY <2>1 DEF StepFits
<1> QED
  BY <1>3, <1>4 DEF TrailInv

-----------------------------------------------------------------------------
(* The tables: a name is entered, or a table is added.                     *)

LEMMA DeclaredKept ==
  ASSUME NEW t \in Seq(TreeNode), NEW u \in Seq(TreeNode), Extends(t, u), NEW d, NEW n,
         Declared(t, d, n)
  PROVE Declared(u, d, n)
<1>1. Len(t) \in Nat /\ Len(u) \in Nat /\ Len(t) <= Len(u)
  BY DEF Extends
<1> QED
  BY <1>1 DEF Declared, Extends

LEMMA TablesKept ==
  ASSUME NEW t \in Seq(TreeNode), NEW u \in Seq(TreeNode), Extends(t, u), NEW T, TablesFit(t, T)
  PROVE TablesFit(u, T)
BY DeclaredKept DEF TablesFit, TableFits

LEMMA FunctionsKept ==
  ASSUME NEW t \in Seq(TreeNode), NEW u \in Seq(TreeNode), Extends(t, u), NEW f, FunctionsFit(t, f)
  PROVE FunctionsFit(u, f)
<1>1. Len(t) \in Nat /\ Len(u) \in Nat /\ Len(t) <= Len(u)
  BY DEF Extends
<1> QED
  BY <1>1 DEF FunctionsFit, IsNode, Extends

(* U has the tables of T, and they are where they were.                    *)
SameScopes(T, U) ==
  /\ Len(T) <= Len(U) /\ Len(U) \in Nat /\ Len(T) \in Nat
  /\ \A s \in 1 .. Len(T) : U[s].parent = T[s].parent

LEMMA SymbolSet ==
  ASSUME NEW t, NEW T, TablesFit(t, T), NEW s \in 1 .. Len(T), NEW n \in AllNames,
         NEW d \in Nat, Declared(t, d, n), NEW U, U = WithSymbol(T, s, n, d)
  PROVE TablesFit(t, U) /\ SameScopes(T, U) /\ Len(U) = Len(T)
<1> DEFINE x == [T[s] EXCEPT !.symbols = [T[s].symbols EXCEPT ![n] = d]]
<1>1. T \in Seq(Table) /\ T[s] \in Table /\ TableFits(t, T[s], s) /\ Len(T) \in Nat
  BY DEF TablesFit
<1>2. T[s].symbols \in [AllNames -> Nat] /\ T[s].parent \in Nat
  BY <1>1 DEF Table
<1>3. /\ x \in Table /\ x.parent = T[s].parent
      /\ \A m \in AllNames : x.symbols[m] = IF m = n THEN d ELSE T[s].symbols[m]
  BY <1>1, <1>2 DEF Table
<1>4. U = [T EXCEPT ![s] = x]
  BY DEF WithSymbol
<1> HIDE DEF x
<1>5. U \in Seq(Table) /\ Len(U) = Len(T) /\ U[s] = x /\ \A m \in 1 .. Len(T) : m # s => U[m] = T[m]
  BY <1>1, <1>3, <1>4, Replaced
<1>6. TableFits(t, x, s)
  BY <1>1, <1>3 DEF TableFits
<1>7. TablesFit(t, U)
  BY <1>5, <1>6 DEF TablesFit
<1>8. SameScopes(T, U)
  BY <1>1, <1>3, <1>5 DEF SameScopes
<1> QED
  BY <1>5, <1>7, <1>8

LEMMA TableAdded ==
  ASSUME NEW t, NEW T, TablesFit(t, T), NEW x \in Table, TableFits(t, x, Len(T) + 1),
         NEW U, U = Append(T, x)
  PROVE TablesFit(t, U) /\ SameScopes(T, U) /\ Len(U) = Len(T) + 1 /\ U[Len(T) + 1] = x
<1>1. T \in Seq(Table) /\ Len(T) \in Nat
  BY DEF TablesFit
<1>2. /\ U \in Seq(Table) /\ Len(U) = Len(T) + 1 /\ U[Len(T) + 1] = x
      /\ \A s \in 1 .. Len(T) : U[s] = T[s]
  BY <1>1, Appended
<1>3. ASSUME NEW s \in 1 .. Len(U) PROVE TableFits(t, U[s], s)
  <2>1. s \in 1 .. Len(T) \/ s = Len(T) + 1
    BY <1>1, <1>2
  <2> QED
    BY <1>2, <2>1 DEF TablesFit
<1>4. TablesFit(t, U)
  BY <1>1, <1>2, <1>3 DEF TablesFit
<1>5. SameScopes(T, U)
  BY <1>1, <1>2 DEF SameScopes
<1> QED
  BY <1>2, <1>4, <1>5

LEMMA EmptyTables ==
  ASSUME NEW t, NEW s \in Nat, NEW p \in 0 .. (s - 1)
  PROVE EmptyTable(p, AllNames) \in Table /\ TableFits(t, EmptyTable(p, AllNames), s)
        /\ EmptyTable(p, AllNames).parent = p
BY DEF EmptyTable, Table, TableFits, Declared

-----------------------------------------------------------------------------
(* The scopes that are open.                                               *)

LEMMA ScopesKept ==
  ASSUME NEW sc, NEW a, NEW T, NEW U, NEW c, ScopesFit(sc, a, T, c), SameScopes(T, U)
  PROVE ScopesFit(sc, a, U, c)
<1>1. \A i \in 1 .. Len(sc) : sc[i] \in 1 .. Len(T) /\ sc[i] \in 1 .. Len(U) /\ U[sc[i]].parent = T[sc[i]].parent
  BY DEF ScopesFit, SameScopes
<1>2. \A i \in 1 .. Len(a) : i \in 1 .. Len(sc)
  BY DEF ScopesFit
<1> QED
  BY <1>1, <1>2 DEF ScopesFit

LEMMA ScopePushed ==
  ASSUME NEW sc, NEW a \in Seq(Item), NEW T, NEW c, ScopesFit(sc, a, T, c), NEW x \in Item,
         NEW d \in 1 .. Len(T), c = IF x.what \in BodyKinds THEN T[d].parent ELSE d
  PROVE ScopesFit(<< d >> \o sc, << x >> \o a, T, d)
<1> DEFINE u == << d >> \o sc
           b == << x >> \o a
<1>1. sc \in Seq(Nat) /\ Len(sc) = Len(a) + 1 /\ Len(a) \in Nat /\ Len(sc) \in Nat /\ d \in Nat
  BY DEF ScopesFit
<1>2. /\ u \in Seq(Nat) /\ Len(u) = Len(sc) + 1 /\ u[1] = d
      /\ \A i \in 1 .. Len(sc) : u[i + 1] = sc[i]
      /\ \A i \in 2 .. (Len(sc) + 1) : u[i] = sc[i - 1]
  BY <1>1, Pushed
<1>3. /\ b \in Seq(Item) /\ Len(b) = Len(a) + 1 /\ b[1] = x
      /\ \A i \in 1 .. Len(a) : b[i + 1] = a[i]
  BY Pushed
<1> HIDE DEF u, b
<1>4. ASSUME NEW i \in 1 .. Len(u) PROVE u[i] \in 1 .. Len(T)
  <2>1. i = 1 \/ (i - 1 \in 1 .. Len(sc) /\ u[i] = sc[i - 1])
    BY <1>1, <1>2
  <2> QED
    BY <1>2, <2>1 DEF ScopesFit
<1>5. ASSUME NEW i \in 1 .. Len(b)
      PROVE u[i + 1] = IF b[i].what \in BodyKinds THEN T[u[i]].parent ELSE u[i]
  <2>1. CASE i = 1
    <3>1. u[1 + 1] = sc[1] /\ sc[1] = c
      BY <1>1, <1>2 DEF ScopesFit
    <3> QED
      BY <1>2, <1>3, <2>1, <3>1
  <2>2. CASE i # 1
    <3>1. i - 1 \in 1 .. Len(a) /\ i - 1 \in 1 .. Len(sc) /\ i \in 1 .. Len(sc) /\ (i - 1) + 1 = i
      BY <1>1, <1>3, <2>2
    <3>2. b[i] = a[i - 1] /\ u[i] = sc[i - 1] /\ u[i + 1] = sc[i]
      BY <1>2, <1>3, <3>1
    <3>3. sc[(i - 1) + 1] = IF a[i - 1].what \in BodyKinds THEN T[sc[i - 1]].parent ELSE sc[i - 1]
      BY <3>1 DEF ScopesFit
    <3> QED
      BY <3>1, <3>2, <3>3
  <2> QED
    BY <2>1, <2>2
<1>6. u[Len(u)] = 1
  <2>1. Len(sc) \in 1 .. Len(sc)
    BY <1>1
  <2>2. u[Len(sc) + 1] = sc[Len(sc)]
    BY <1>2, <2>1
  <2> QED
    BY <1>2, <2>2 DEF ScopesFit
<1> QED
  BY <1>1, <1>2, <1>3, <1>4, <1>5, <1>6 DEF ScopesFit, u, b

LEMMA ScopePopped ==
  ASSUME NEW sc, NEW a \in Seq(Item), NEW T, NEW c, ScopesFit(sc, a, T, c), a # << >>
  PROVE ScopesFit(Tail(sc), Tail(a), T, IF Head(a).what \in BodyKinds THEN T[c].parent ELSE c)
<1> DEFINE u == Tail(sc)
           b == Tail(a)
<1>1. sc \in Seq(Nat) /\ Len(sc) = Len(a) + 1 /\ Len(a) \in Nat /\ Len(sc) \in Nat /\ sc # << >>
  BY DEF ScopesFit
<1>2. u \in Seq(Nat) /\ Len(u) = Len(sc) - 1 /\ \A i \in 1 .. Len(u) : u[i] = sc[i + 1]
  BY <1>1, Tailed
<1>3. /\ b \in Seq(Item) /\ Len(b) = Len(a) - 1 /\ Head(a) = a[1] /\ Len(a) > 0
      /\ \A i \in 1 .. Len(b) : b[i] = a[i + 1]
  BY Tailed
<1> HIDE DEF u, b
<1>4. ASSUME NEW i \in 1 .. Len(u) PROVE u[i] \in 1 .. Len(T)
  <2>1. i + 1 \in 1 .. Len(sc)
    BY <1>1, <1>2
  <2> QED
    BY <1>2, <2>1 DEF ScopesFit
<1>5. ASSUME NEW i \in 1 .. Len(b)
      PROVE u[i + 1] = IF b[i].what \in BodyKinds THEN T[u[i]].parent ELSE u[i]
  <2>1. i + 1 \in 1 .. Len(a) /\ i \in 1 .. Len(u) /\ i + 1 \in 1 .. Len(u)
    BY <1>1, <1>2, <1>3
  <2>2. b[i] = a[i + 1] /\ u[i] = sc[i + 1] /\ u[i + 1] = sc[(i + 1) + 1]
    BY <1>2, <1>3, <2>1
  <2>3. sc[(i + 1) + 1] = IF a[i + 1].what \in BodyKinds THEN T[sc[i + 1]].parent ELSE sc[i + 1]
    BY <2>1 DEF ScopesFit
  <2> QED
    BY <2>2, <2>3
<1>6. u[1] = IF Head(a).what \in BodyKinds THEN T[c].parent ELSE c
  <2>1. 1 \in 1 .. Len(a) /\ 1 \in 1 .. Len(u)
    BY <1>1, <1>2, <1>3
  <2>2. u[1] = sc[1 + 1]
    BY <1>2, <2>1
  <2> QED
    BY <1>3, <2>1, <2>2 DEF ScopesFit
<1>7. u[Len(u)] = 1
  <2>1. Len(u) \in 1 .. Len(u) /\ Len(u) + 1 = Len(sc)
    BY <1>1, <1>2, <1>3
  <2>2. u[Len(u)] = sc[Len(u) + 1]
    BY <1>2, <2>1
  <2> QED
    BY <2>1, <2>2 DEF ScopesFit
<1> QED
  BY <1>1, <1>2, <1>3, <1>4, <1>5, <1>6, <1>7 DEF ScopesFit, u, b

LEMMA ScopeOpen ==
  ASSUME NEW sc, NEW a \in Seq(Item), NEW T, NEW c, ScopesFit(sc, a, T, c)
  PROVE c \in 1 .. Len(T)
<1>1. 1 \in 1 .. Len(sc)
  BY DEF ScopesFit
<1> QED
  BY <1>1 DEF ScopesFit

(* A step that neither opens nor closes a scope.                           *)
LEMMA QuietScopes ==
  ASSUME Syntax, Turns, ~(BeginFunction \/ ParseIfBody \/ EndFunction \/ EndIf),
         NEW sc, NEW T, NEW c, ScopesFit(sc, agenda, T, c)
  PROVE \E sd : ScopesFit(sd, agenda', T, c)
<1>1. PICK a : /\ Rest(a)
               /\ \/ agenda' = a
                  \/ \E x : Fresh(x) /\ agenda' = << x >> \o a
                  \/ \E x, y : Fresh(x) /\ Fresh(y) /\ agenda' = << x, y >> \o a
  BY DEF Turns
<1>2. a \in Seq(Item) /\ agenda \in Seq(Item)
  BY <1>1 DEF Rest, Syntax
<1>3. PICK sb : ScopesFit(sb, a, T, c)
  <2>1. CASE a = agenda
    BY <2>1
  <2>2. CASE agenda # << >> /\ a = Tail(agenda) /\ Head(agenda).what \notin BodyKinds
    BY <1>2, <2>2, ScopePopped
  <2> QED
    BY <1>1, <2>1, <2>2 DEF Rest, MayPop
<1>4. c \in 1 .. Len(T)
  BY <1>2, <1>3, ScopeOpen
<1>5. ASSUME NEW x, Fresh(x), NEW b \in Seq(Item), NEW se, ScopesFit(se, b, T, c)
      PROVE ScopesFit(<< c >> \o se, << x >> \o b, T, c) /\ << x >> \o b \in Seq(Item)
  <2>1. x \in Item /\ x.what \notin BodyKinds
    BY <1>5 DEF Fresh, MayPush
  <2> QED
    BY <1>4, <1>5, <2>1, ScopePushed, Pushed
<1>6. CASE agenda' = a
  BY <1>3, <1>6
<1>7. CASE \E x : Fresh(x) /\ agenda' = << x >> \o a
  BY <1>2, <1>3, <1>5, <1>7
<1>8. CASE \E x, y : Fresh(x) /\ Fresh(y) /\ agenda' = << x, y >> \o a
  <2>1. PICK x, y : Fresh(x) /\ Fresh(y) /\ agenda' = << x, y >> \o a
    BY <1>8
  <2>2. agenda' = << x >> \o (<< y >> \o a)
    BY <1>2, <2>1, PushedTwo DEF Fresh
  <2>3. ScopesFit(<< c >> \o sb, << y >> \o a, T, c) /\ << y >> \o a \in Seq(Item)
    BY <1>2, <1>3, <1>5, <2>1
  <2> QED
    BY <1>5, <2>1, <2>2, <2>3
<1> QED
  BY <1>1, <1>6, <1>7, <1>8

LEMMA ParameterTables ==
  ASSUME Syntax, NEW p \in Seq(VarNames \X Types), NEW f, NEW ret, Planted(ast, ast', f, p, ret),
         NEW s \in Nat, currentScope \in 0 .. (s - 1)
  PROVE ParameterTable(p) \in Table /\ TableFits(ast', ParameterTable(p), s)
        /\ ParameterTable(p).parent = currentScope
<1> DEFINE x == ParameterTable(p)
           I(n) == CHOOSE i \in 1 .. Len(p) : p[i][1] = n
           d(n) == IF \E i \in 1 .. Len(p) : p[i][1] = n THEN NewId + I(n) ELSE 0
<1>1. Len(p) \in Nat /\ NewId \in Nat /\ Len(ast) \in Nat /\ NewId = Len(ast) + 1 /\ currentScope \in Nat
  BY DEF Syntax, NewId
<1>2. ASSUME NEW n \in AllNames PROVE d(n) \in Nat /\ Declared(ast', d(n), n)
  <2>1. CASE \E i \in 1 .. Len(p) : p[i][1] = n
    <3>1. I(n) \in 1 .. Len(p) /\ p[I(n)][1] = n
      BY <2>1
    <3>2. d(n) = Len(ast) + 1 + I(n)
      BY <1>1, <2>1
    <3> HIDE DEF I, d
    <3>3. ast'[Len(ast) + 1 + I(n)] = Node("arg", n) /\ Len(ast') = Len(ast) + 1 + Len(p)
      BY <3>1 DEF Planted
    <3>4. \A l, k \in Nat : \A i \in 1 .. k : l + 1 + i \in 1 .. (l + 1 + k) /\ l + 1 + i \in Nat
      OBVIOUS
    <3>5. Len(ast) + 1 + I(n) \in 1 .. (Len(ast) + 1 + Len(p)) /\ Len(ast) + 1 + I(n) \in Nat
      BY <1>1, <3>1, <3>4
    <3>6. d(n) \in 1 .. Len(ast') /\ d(n) \in Nat
      BY <3>2, <3>3, <3>5, Zenon
    <3> QED
      BY <3>2, <3>3, <3>6 DEF Declared, Node
  <2>2. CASE ~\E i \in 1 .. Len(p) : p[i][1] = n
    BY <2>2 DEF Declared
  <2> QED
    BY <2>1, <2>2
<1>3. x = [parent |-> currentScope, symbols |-> [n \in AllNames |-> d(n)]]
  BY DEF ParameterTable, EmptyTable
<1> HIDE DEF d, x
<1>4. [n \in AllNames |-> d(n)] \in [AllNames -> Nat]
  BY <1>2
<1>5. x \in Table /\ x.parent = currentScope /\ x.symbols = [n \in AllNames |-> d(n)]
  BY <1>1, <1>3, <1>4 DEF Table
<1>6. TableFits(ast', x, s)
  BY <1>2, <1>5 DEF TableFits
<1> QED
  BY <1>5, <1>6 DEF x

(* The tables and the scopes after a step of the parser.                   *)
ScopesGo ==
  TablesFit(ast', tables') /\ \E sc : ScopesFit(sc, agenda', tables', currentScope')

LEMMA FunctionScopes ==
  ASSUME Syntax, NodesInv, TablesInv, NEW sc, ScopesFit(sc, agenda, tables, currentScope),
         BeginFunction
  PROVE ScopesGo
<1>1. PICK h \in Headers : ParseFunction(h.name, h.params, h.ret, h.ext)
  BY DEF BeginFunction
<1>2. h.name \in FnNames /\ h.params \in Seq(VarNames \X Types) /\ h.name \in AllNames
  BY HeadersAssumption DEF AllNames
<1>3. /\ agenda \in Seq(Item) /\ ast \in Seq(TreeNode) /\ TablesFit(ast, tables)
      /\ currentScope \in 1 .. Len(tables) /\ Len(tables) \in Nat
  BY ScopeOpen DEF Syntax, TablesInv, TablesFit
<1>4. CASE ~ParametersAddable(h.params) \/ fnTypes[h.name] # 0
  <2>1. ast' = ast /\ tables' = tables /\ agenda' = agenda /\ currentScope' = currentScope
    BY <1>1, <1>4 DEF ParseFunction, Throw, StopAs, treeVars, scopeVars, parserVars
  <2> QED
    BY <1>3, <2>1 DEF ScopesGo
<1>5. CASE ~(~ParametersAddable(h.params) \/ fnTypes[h.name] # 0)
  <2>0. AddsFunction(h)
    BY <1>1, <1>5 DEF ParseFunction, AddsFunction
  <2>1. Planted(ast, ast', h.name, h.params, h.ret)
    BY <2>0, FunctionFitted
  <2>2. ast' \in Seq(TreeNode) /\ Extends(ast, ast')
    BY <2>1 DEF Planted
  <2>3. TablesFit(ast', tables)
    BY <1>3, <2>2, TablesKept
  <2> DEFINE x == ParameterTable(h.params)
             s == Len(tables) + 1
  <2>4. s \in Nat /\ currentScope \in 0 .. (s - 1)
    BY <1>3
  <2>5. x \in Table /\ TableFits(ast', x, s) /\ x.parent = currentScope
    BY <1>2, <2>1, <2>4, ParameterTables
  <2>6. NewId \in Nat /\ Declared(ast', NewId, h.name)
    <3>1. Len(ast') = Len(ast) + 1 + Len(h.params) /\ ast'[NewId].kind = "fn" /\ ast'[NewId].name = h.name
      BY <2>1 DEF Planted, NewId
    <3>2. Len(h.params) \in Nat /\ Len(ast) \in Nat
      BY <1>2, <1>3
    <3>3. \A l, k \in Nat : l + 1 \in 1 .. (l + 1 + k) /\ l + 1 \in Nat
      OBVIOUS
    <3>4. Len(ast) + 1 \in 1 .. (Len(ast) + 1 + Len(h.params)) /\ Len(ast) + 1 \in Nat
      BY <3>2, <3>3
    <3>5. NewId = Len(ast) + 1
      BY DEF NewId
    <3>6. NewId \in 1 .. Len(ast') /\ NewId \in Nat
      BY <3>1, <3>4, <3>5, Zenon
    <3> QED
      BY <3>1, <3>6 DEF Declared
  <2> HIDE DEF x
  <2>7. CASE /\ tables' = Append(WithSymbol(tables, currentScope, h.name, NewId), x)
             /\ currentScope' = currentScope /\ agenda' = agenda
    <3> DEFINE U == WithSymbol(tables, currentScope, h.name, NewId)
    <3>1. TablesFit(ast', U) /\ SameScopes(tables, U) /\ Len(U) = Len(tables)
      BY <1>2, <1>3, <2>3, <2>6, SymbolSet
    <3> HIDE DEF U
    <3>2. TablesFit(ast', tables') /\ SameScopes(U, tables')
      BY <2>5, <2>7, <3>1, TableAdded DEF U
    <3>3. ScopesFit(sc, agenda, U, currentScope)
      BY <3>1, ScopesKept
    <3>4. ScopesFit(sc, agenda, tables', currentScope)
      BY <3>2, <3>3, ScopesKept
    <3> QED
      BY <2>7, <3>2, <3>4 DEF ScopesGo
  <2>8. CASE /\ tables' = Append(tables, x) /\ currentScope' = s
             /\ agenda' = << NodeItem("fn", NewId) >> \o agenda
    <3> DEFINE y == NodeItem("fn", NewId)
    <3>1. y \in Item /\ y.what \in BodyKinds
      BY <2>6, MadeItems DEF BodyKinds
    <3>2. TablesFit(ast', tables') /\ SameScopes(tables, tables') /\ Len(tables') = s /\ tables'[s] = x
      BY <2>3, <2>5, <2>8, TableAdded
    <3>3. ScopesFit(sc, agenda, tables', currentScope)
      BY <3>2, ScopesKept
    <3>4. s \in 1 .. Len(tables')
      BY <1>3, <3>2
    <3> HIDE DEF y, s
    <3>5. ScopesFit(<< s >> \o sc, << y >> \o agenda, tables', s)
      BY <1>3, <2>5, <3>1, <3>2, <3>3, <3>4, ScopePushed
    <3> QED
      BY <2>8, <3>2, <3>5 DEF ScopesGo, y
  <2> QED
    BY <1>1, <1>5, <2>7, <2>8 DEF ParseFunction, Enter, x
<1> QED
  BY <1>4, <1>5

LEMMA BodyScopes ==
  ASSUME Syntax, TablesInv, NEW sc, ScopesFit(sc, agenda, tables, currentScope),
         NodesInv, EndFunction \/ EndIf
  PROVE ScopesGo
<1> DEFINE outer == tables[currentScope].parent
           n == Head(agenda).node
<1>1. /\ agenda # << >> /\ Head(agenda).what \in BodyKinds /\ agenda' = << >> \o Tail(agenda)
      /\ ast' = ast /\ currentScope' = outer
  BY DEF EndIf, EndFunction, Doing, Replace, BodyKinds
<1>2. agenda \in Seq(Item) /\ TablesFit(ast, tables) /\ tables \in Seq(Table)
  BY DEF Syntax, TablesInv, TablesFit
<1>3. agenda' = Tail(agenda) /\ Tail(agenda) \in Seq(Item)
  BY <1>1, <1>2, PushedNone, Tailed
<1>4. ScopesFit(Tail(sc), agenda', tables, outer)
  BY <1>1, <1>2, <1>3, ScopePopped
<1>5. outer \in 1 .. Len(tables)
  BY <1>3, <1>4, ScopeOpen
<1> HIDE DEF outer
<1>6. CASE EndIf
  <2>1. tables' = tables
    BY <1>6 DEF EndIf
  <2> QED
    BY <1>1, <1>2, <1>4, <2>1 DEF ScopesGo
<1>7. CASE EndFunction
  <2>1. tables' = WithSymbol(tables, outer, ast[n].name, n) /\ Head(agenda).what = "fn"
    BY <1>7 DEF EndFunction, Doing, outer
  <2>2. n \in 1 .. Len(ast) /\ n \in Nat /\ ast[n].kind = "fn"
    BY <1>1, <2>1, HeadNode DEF Levelled, KindOf
  <2> HIDE DEF n
  <2>3. ast[n].name \in AllNames /\ Declared(ast, n, ast[n].name)
    BY <2>2 DEF NodesInv, NameFits, AllNames, Declared
  <2>4. TablesFit(ast, tables') /\ SameScopes(tables, tables')
    BY <1>2, <1>5, <2>1, <2>2, <2>3, SymbolSet
  <2>5. ScopesFit(Tail(sc), agenda', tables', outer)
    BY <1>4, <2>4, ScopesKept
  <2> QED
    BY <1>1, <2>4, <2>5 DEF ScopesGo
<1> QED
  BY <1>6, <1>7

LEMMA IfScopes ==
  ASSUME Syntax, TablesInv, NEW sc, ScopesFit(sc, agenda, tables, currentScope), ParseIfBody
  PROVE ScopesGo
<1> DEFINE n == Head(agenda).node
           x == EmptyTable(currentScope, AllNames)
           s == Len(tables) + 1
           y == NodeItem("if", n)
<1>1. /\ agenda # << >> /\ Head(agenda).what = "condition" /\ agenda' = << y >> \o Tail(agenda)
      /\ AddKid(n) /\ tables' = Append(tables, x) /\ currentScope' = s
  BY DEF ParseIfBody, Doing, Replace
<1>2. /\ agenda \in Seq(Item) /\ TablesFit(ast, tables) /\ Tail(agenda) \in Seq(Item)
      /\ ast \in Seq(TreeNode) /\ Len(tables) \in Nat
  BY <1>1, Tailed DEF Syntax, TablesInv, TablesFit
<1>3. ast' \in Seq(TreeNode) /\ Extends(ast, ast')
  BY <1>1, Giving DEF Enders, Given
<1>4. TablesFit(ast', tables)
  BY <1>2, <1>3, TablesKept
<1>5. currentScope \in 1 .. Len(tables) /\ s \in Nat /\ currentScope \in 0 .. (s - 1)
  BY <1>2, ScopeOpen
<1>6. x \in Table /\ TableFits(ast', x, s) /\ x.parent = currentScope
  BY <1>5, EmptyTables
<1> HIDE DEF x, y
<1>7. TablesFit(ast', tables') /\ SameScopes(tables, tables') /\ Len(tables') = s /\ tables'[s] = x
  <2>1. tables' = Append(tables, x) /\ x \in Table /\ TableFits(ast', x, Len(tables) + 1)
    BY <1>1, <1>6
  <2>2. \A U : U = tables' => TablesFit(ast', U) /\ SameScopes(tables, U)
                              /\ Len(U) = Len(tables) + 1 /\ U[Len(tables) + 1] = x
    BY <1>4, <2>1, TableAdded
  <2> QED
    BY <2>2
<1>8. ScopesFit(Tail(sc), Tail(agenda), tables, currentScope)
  BY <1>1, <1>2, ScopePopped DEF BodyKinds
<1> USE DEF y
<1>9. ScopesFit(Tail(sc), Tail(agenda), tables', currentScope)
  BY <1>7, <1>8, ScopesKept
<1>10. y \in Item /\ y.what \in BodyKinds
  <2>1. n \in Nat
    BY <1>1, HeadNode DEF Levelled
  <2> QED
    BY <2>1, MadeItems DEF BodyKinds
<1>11. s \in 1 .. Len(tables')
  BY <1>2, <1>7
<1> HIDE DEF y, s
<1>12. ScopesFit(<< s >> \o Tail(sc), << y >> \o Tail(agenda), tables', s)
  BY <1>2, <1>6, <1>7, <1>9, <1>10, <1>11, ScopePushed
<1> QED
  BY <1>1, <1>7, <1>12 DEF ScopesGo

LEMMA VarDeclScopes ==
  ASSUME Syntax, NodesInv, TablesInv, NEW sc, ScopesFit(sc, agenda, tables, currentScope),
         EndVarDecl
  PROVE TablesFit(ast', tables') /\ SameScopes(tables, tables') /\ currentScope' = currentScope
<1> DEFINE n == Head(agenda).node
<1>1. /\ agenda \in Seq(Item) /\ ast \in Seq(TreeNode) /\ TablesFit(ast, tables)
      /\ tables \in Seq(Table) /\ currentScope \in 1 .. Len(tables)
  BY ScopeOpen DEF Syntax, TablesInv, TablesFit
<1>2. CASE ~Addable(tables, currentScope, ast[n].name)
  <2>1. ast' = ast /\ tables' = tables /\ currentScope' = currentScope
    BY <1>2 DEF EndVarDecl, Throw, StopAs, treeVars, scopeVars
  <2> QED
    BY <1>1, <2>1 DEF SameScopes
<1>3. CASE Addable(tables, currentScope, ast[n].name)
  <2>1. /\ agenda # << >> /\ Head(agenda).what \in {"explicit", "inferred"} /\ AddKid(n)
        /\ tables' = WithSymbol(tables, currentScope, ast[n].name, n)
        /\ currentScope' = currentScope
    BY <1>3 DEF EndVarDecl, Doing
  <2>2. n \in 1 .. Len(ast) /\ n \in Nat /\ ast[n].kind = "let"
    BY <2>1, HeadNode DEF Levelled, KindOf
  <2>3. ast' \in Seq(TreeNode) /\ Extends(ast, ast')
    BY <2>1, Giving DEF Enders, Given
  <2>4. TablesFit(ast', tables)
    BY <1>1, <2>3, TablesKept
  <2> HIDE DEF n
  <2>5. ast[n].name \in AllNames /\ Declared(ast, n, ast[n].name)
    BY <2>2 DEF NodesInv, NameFits, AllNames, Declared
  <2>6. Declared(ast', n, ast[n].name)
    BY <1>1, <2>3, <2>5, DeclaredKept
  <2> QED
    BY <1>1, <2>1, <2>2, <2>4, <2>5, <2>6, SymbolSet
<1> QED
  BY <1>2, <1>3

LEMMA ParseScopes ==
  ASSUME Syntax, NodesInv, TablesInv, NEW sc, ScopesFit(sc, agenda, tables, currentScope), Parse
  PROVE ScopesGo
<1>1. Turns /\ Extends(ast, ast') /\ ast' \in Seq(TreeNode) /\ ast \in Seq(TreeNode)
  BY ParseTurns, ParseSafe DEF SyntaxKept, Syntax
<1>2. TablesFit(ast, tables) /\ tables \in Seq(Table)
  BY DEF TablesInv, TablesFit
<1>3. CASE BeginFunction \/ ParseIfBody \/ EndFunction \/ EndIf
  BY <1>3, FunctionScopes, BodyScopes, IfScopes
<1>4. CASE ~(BeginFunction \/ ParseIfBody \/ EndFunction \/ EndIf)
  <2>1. TablesFit(ast', tables') /\ SameScopes(tables, tables') /\ currentScope' = currentScope
    <3>1. CASE EndVarDecl
      BY <3>1, VarDeclScopes
    <3>2. CASE UNCHANGED << tables, currentScope >>
      BY <1>1, <1>2, <3>2, TablesKept DEF SameScopes
    <3> QED
      BY <1>4, <3>1, <3>2 DEF Parse, ParseInteger, ParseOtherLiteral, ParseIdentifier,
         BeginCall, ParseArgument, EndArgument, EndCall, ParseOperator, ParseAssignment,
         EndInfix, EndExpression, BeginExplicit, BeginInferred, BeginRet, EndRet, BeginIf,
         BeginExprStatement, EndOfFile, Throw, StopAs, scopeVars
  <2>2. ScopesFit(sc, agenda, tables', currentScope')
    BY <2>1, ScopesKept
  <2>3. \E sd : ScopesFit(sd, agenda', tables', currentScope')
    BY <1>1, <1>4, <2>2, QuietScopes
  <2> QED
    BY <2>1, <2>3 DEF ScopesGo
<1> QED
  BY <1>3, <1>4

LEMMA ParsesWhen == Parse => phase = "parsing" /\ phase' \in {"parsing", "resolving", "threw"}
BY DEF Parse, BeginFunction, ParseFunction, EndFunction, ParseInteger, ParseOtherLiteral,
   ParseIdentifier, BeginCall, ParseArgument, EndArgument, EndCall, ParseOperator,
   ParseAssignment, EndInfix, EndExpression, BeginExplicit, BeginInferred, EndVarDecl,
   BeginRet, EndRet, BeginIf, ParseIfBody, EndIf, BeginExprStatement, EndOfFile, InBody,
   Doing, Throw, StopAs

LEMMA ParseFunctions == ASSUME Syntax, NodesInv, TablesInv, Parse PROVE FunctionsFit(ast', fnTypes')
<1>1. ast \in Seq(TreeNode) /\ ast' \in Seq(TreeNode) /\ Extends(ast, ast') /\ FunctionsFit(ast, fnTypes)
  BY ParseSafe DEF SyntaxKept, Syntax, TablesInv
<1>2. CASE fnTypes' = fnTypes
  BY <1>1, <1>2, FunctionsKept
<1>3. CASE fnTypes' # fnTypes
  <2>1. PICK h \in Headers : AddsFunction(h) /\ fnTypes' = [fnTypes EXCEPT ![h.name] = NewId]
    BY <1>3 DEF Parse, BeginFunction, ParseFunction, AddsFunction, EndFunction, ParseInteger,
       ParseOtherLiteral, ParseIdentifier, BeginCall, ParseArgument, EndArgument, EndCall,
       ParseOperator, ParseAssignment, EndInfix, EndExpression, BeginExplicit, BeginInferred,
       EndVarDecl, BeginRet, EndRet, BeginIf, ParseIfBody, EndIf, BeginExprStatement,
       EndOfFile, Throw, StopAs, scopeVars
  <2>2. Planted(ast, ast', h.name, h.params, h.ret)
    BY <2>1, FunctionFitted
  <2>3. h.name \in FnNames /\ h.params \in Seq(VarNames \X Types)
    BY HeadersAssumption
  <2>4. IsNode(ast', NewId, "fn") /\ NewId \in Nat
    <3>1. Len(ast') = Len(ast) + 1 + Len(h.params) /\ ast'[NewId].kind = "fn"
      BY <2>2 DEF Planted, NewId
    <3>2. Len(h.params) \in Nat /\ Len(ast) \in Nat
      BY <1>1, <2>3
    <3>3. \A l, k \in Nat : l + 1 \in 1 .. (l + 1 + k) /\ l + 1 \in Nat
      OBVIOUS
    <3>4. Len(ast) + 1 \in 1 .. (Len(ast) + 1 + Len(h.params)) /\ Len(ast) + 1 \in Nat
      BY <3>2, <3>3
    <3>5. NewId = Len(ast) + 1
      BY DEF NewId
    <3>6. NewId \in 1 .. Len(ast') /\ NewId \in Nat
      BY <3>1, <3>4, <3>5, Zenon
    <3> QED
      BY <3>1, <3>6 DEF IsNode
  <2>5. FunctionsFit(ast', fnTypes)
    BY <1>1, FunctionsKept
  <2> QED
    BY <2>1, <2>3, <2>4, <2>5 DEF FunctionsFit
<1> QED
  BY <1>2, <1>3

LEMMA ParseTables ==
  ASSUME Syntax, NodesInv, TablesInv, ScopesInv, Parse PROVE TablesInv' /\ ScopesInv'
<1>1. ScopesGo
  <2>1. PICK sc : ScopesFit(sc, agenda, tables, currentScope)
    BY ParsesWhen DEF ScopesInv
  <2> QED
    BY <2>1, ParseScopes
<1>2. agenda' \in Seq(Item)
  BY ParseSafe DEF SyntaxKept, Syntax
<1>3. currentScope' \in 0 .. Len(tables')
  BY <1>1, <1>2, ScopeOpen DEF ScopesGo
<1> QED
  BY <1>1, <1>3, ParseFunctions DEF ScopesGo, TablesInv, ScopesInv

-----------------------------------------------------------------------------
(* Literals in an explicitly typed declaration.                            *)

LEMMA QuietHeld ==
  ASSUME Syntax, Turns, ~BeginExplicit, ~EndVarDecl, NEW n
  PROVE HeldAs(agenda', "explicit", n) <=> HeldAs(agenda, "explicit", n)
<1>1. PICK a : /\ Rest(a)
               /\ \/ agenda' = a
                  \/ \E x : Fresh(x) /\ agenda' = << x >> \o a
                  \/ \E x, y : Fresh(x) /\ Fresh(y) /\ agenda' = << x, y >> \o a
  BY DEF Turns
<1>2. a \in Seq(Item) /\ agenda \in Seq(Item)
  BY <1>1 DEF Rest, Syntax
<1>3. HeldAs(a, "explicit", n) <=> HeldAs(agenda, "explicit", n)
  <2>1. CASE a = agenda
    BY <2>1
  <2>2. CASE agenda # << >> /\ a = Tail(agenda) /\ Head(agenda).what # "explicit"
    BY <1>2, <2>2, HeldTail
  <2> QED
    BY <1>1, <2>1, <2>2 DEF Rest, MayPop
<1>4. ASSUME NEW x, Fresh(x), NEW b \in Seq(Item)
      PROVE /\ HeldAs(<< x >> \o b, "explicit", n) <=> HeldAs(b, "explicit", n)
            /\ << x >> \o b \in Seq(Item)
  <2>1. x \in Item /\ x.what # "explicit"
    BY <1>4 DEF Fresh, MayPush
  <2> QED
    BY <1>4, <2>1, HeldPush, Pushed
<1>5. CASE agenda' = a
  BY <1>3, <1>5
<1>6. CASE \E x : Fresh(x) /\ agenda' = << x >> \o a
  BY <1>2, <1>3, <1>4, <1>6
<1>7. CASE \E x, y : Fresh(x) /\ Fresh(y) /\ agenda' = << x, y >> \o a
  <2>1. PICK x, y : Fresh(x) /\ Fresh(y) /\ agenda' = << x, y >> \o a
    BY <1>7
  <2>2. agenda' = << x >> \o (<< y >> \o a)
    BY <1>2, <2>1, PushedTwo DEF Fresh
  <2> QED
    BY <1>2, <1>3, <1>4, <2>1, <2>2
<1> QED
  BY <1>1, <1>5, <1>6, <1>7

LEMMA BodiesHold ==
  ASSUME NEW a, OnlyBodies(a), NEW n PROVE ~HeldAs(a, "explicit", n)
BY DEF OnlyBodies, HeldAs, BodyKinds

LEMMA ParseExplicit == ASSUME Syntax, ExplicitInv, Parse PROVE ExplicitInv'
<1>1. agenda \in Seq(Item) /\ AgendaFits(agenda, ast) /\ Turns
  BY ParseTurns DEF Syntax
<1>2. CASE BeginExplicit
  <2> DEFINE y == NodeItem("explicit", NewId)
  <2>1. /\ agenda # << >> /\ Head(agenda).what \in BodyKinds
        /\ explicitTypes' = << NewId >> \o explicitTypes
        /\ agenda' = << ExprItem(0), y >> \o agenda
    BY <1>2 DEF BeginExplicit, InBody, Doing, Enter
  <2>2. \A n : ~HeldAs(agenda, "explicit", n)
    BY <1>1, <2>1, BodyAtHead, BodiesHold
  <2>3. explicitTypes = << >>
    BY <2>2 DEF ExplicitInv, ExplicitFits
  <2>4. explicitTypes' = << NewId >>
    BY <2>1, <2>3
  <2>5. NewId \in Nat
    BY DEF Syntax, NewId
  <2>6. y \in Item /\ y.what = "explicit" /\ y.node = NewId
        /\ ExprItem(0) \in Item /\ ExprItem(0).what = "expr"
    BY <2>5, MadeItems DEF Enders
  <2> HIDE DEF y
  <2>7. agenda' = << ExprItem(0) >> \o (<< y >> \o agenda) /\ << y >> \o agenda \in Seq(Item)
    BY <1>1, <2>1, <2>6, PushedTwo
  <2>8. \A n : HeldAs(agenda', "explicit", n) <=> n = NewId
    BY <1>1, <2>2, <2>6, <2>7, HeldPush
  <2> QED
    BY <2>4, <2>8 DEF ExplicitInv, ExplicitFits
<1>3. CASE EndVarDecl
  <2>1. CASE explicitTypes' = explicitTypes /\ agenda' = agenda
    BY <2>1 DEF ExplicitInv
  <2>2. CASE ~(explicitTypes' = explicitTypes /\ agenda' = agenda)
    <3>1. /\ agenda # << >> /\ Head(agenda).what \in {"explicit", "inferred"}
          /\ agenda' = << >> \o Tail(agenda)
          /\ explicitTypes' = IF Head(agenda).what = "inferred" THEN explicitTypes ELSE Tail(explicitTypes)
      BY <1>3, <2>2 DEF EndVarDecl, Doing, Replace, Throw, StopAs, parserVars
    <3>2. agenda' = Tail(agenda) /\ Tail(agenda) \in Seq(Item)
      BY <1>1, <3>1, PushedNone, Tailed
    <3>3. \A n : HeldAs(agenda, "explicit", n) <=>
            (Head(agenda).what = "explicit" /\ Head(agenda).node = n) \/ HeldAs(agenda', "explicit", n)
      BY <1>1, <3>1, <3>2, HeldTail
    <3>4. CASE Head(agenda).what = "inferred"
      BY <3>1, <3>3, <3>4 DEF ExplicitInv, ExplicitFits
    <3>5. CASE Head(agenda).what = "explicit"
      <4>1. OnlyBodies(agenda')
        BY <1>1, <3>1, <3>2, <3>5, AgendaTail DEF Parts, OnlyBodies
      <4>2. explicitTypes = << Head(agenda).node >>
        BY <3>3, <3>5 DEF ExplicitInv, ExplicitFits
      <4>3. explicitTypes' = << >>
        BY <3>1, <3>5, <4>2
      <4> QED
        BY <4>1, <4>3, BodiesHold DEF ExplicitInv, ExplicitFits
    <3> QED
      BY <3>1, <3>4, <3>5
  <2> QED
    BY <2>1, <2>2
<1>4. CASE ~BeginExplicit /\ ~EndVarDecl
  <2>1. explicitTypes' = explicitTypes
    BY <1>4 DEF Parse, BeginFunction, ParseFunction, EndFunction, ParseInteger,
       ParseOtherLiteral, ParseIdentifier, BeginCall, ParseArgument, EndArgument, EndCall,
       ParseOperator, ParseAssignment, EndInfix, EndExpression, BeginInferred, BeginRet, EndRet,
       BeginIf, ParseIfBody, EndIf, BeginExprStatement, EndOfFile, Throw, StopAs, parserVars
  <2> QED
    BY <1>1, <1>4, <2>1, QuietHeld DEF ExplicitInv, ExplicitFits
<1> QED
  BY <1>2, <1>3, <1>4

(* The declaration whose type a literal is to have.                        *)
LEMMA ExplicitLet ==
  ASSUME Syntax, ExplicitInv, explicitTypes # << >>
  PROVE Head(explicitTypes) \in Nat /\ IsNode(ast, Head(explicitTypes), "let")
<1>1. PICK n : HeldAs(agenda, "explicit", n) /\ explicitTypes = << n >>
  BY DEF ExplicitInv, ExplicitFits
<1>2. PICK i \in 1 .. Len(agenda) : agenda[i].what = "explicit" /\ agenda[i].node = n
  BY <1>1 DEF HeldAs
<1>3. ItemFits(ast, agenda[i])
  BY DEF Syntax, AgendaFits
<1>4. IsNode(ast, n, "let")
  BY <1>2, <1>3 DEF ItemFits, KindOf, Levelled
<1> QED
  BY <1>1, <1>4 DEF IsNode

-----------------------------------------------------------------------------
(* Calls are put off.                                                      *)

(* The calls ds that a step adds, one of which is for each new identifier. *)
CallsAdded(ds) ==
  /\ ds \in Seq(DeferedCall) /\ defered' = defered \o ds
  /\ \A i \in 1 .. Len(ds) :
       /\ CallFits(ds[i], ast', tables') /\ Paired(ds, i)
       /\ ds[i].what = "find" => ds[i].node = NewId /\ Len(ds) = 1
  /\ \A n \in 1 .. Len(ast') : n \notin 1 .. Len(ast) =>
       /\ ast'[n].kind = "identifier" => \E i : IsCall(ds, i, "find", n)
       /\ ast'[n].kind = "call" => HeldAs(agenda', "call", n)
  /\ \A n : HeldAs(agenda, "call", n) =>
       HeldAs(agenda', "call", n) \/ \E i : IsCall(ds, i, "callee", n)

LEMMA CallKept ==
  ASSUME NEW t \in Seq(TreeNode), NEW u \in Seq(TreeNode), Extends(t, u),
         NEW T, NEW U, Len(T) <= Len(U), Len(T) \in Nat, Len(U) \in Nat,
         NEW d, CallFits(d, t, T),
         \A i \in 1 .. Len(t[d.node].kids) : i \in 1 .. Len(u[d.node].kids)
  PROVE CallFits(d, u, U)
<1>1. Len(t) \in Nat /\ Len(u) \in Nat /\ Len(t) <= Len(u)
  BY DEF Extends
<1>2. d.node \in 1 .. Len(t) /\ d.node \in 1 .. Len(u) /\ u[d.node].kind = t[d.node].kind
  BY <1>1 DEF CallFits, Extends
<1>3. d.what = "literal" => IsNode(u, d.of, "let")
  BY <1>1 DEF CallFits, IsNode, Extends
<1>4. d.what = "find" => d.of \in 1 .. Len(U)
  BY DEF CallFits
<1>5. d.what \in {"binary", "assign", "let"} => Len(u[d.node].kids) > 0
  <2>1. Len(t[d.node].kids) \in Nat /\ Len(u[d.node].kids) \in Nat
    BY <1>2, NodesTyped
  <2>2. \A k \in Nat : k > 0 => 1 \in 1 .. k
    OBVIOUS
  <2>3. \A k \in Nat : 1 \in 1 .. k => k > 0
    OBVIOUS
  <2> QED
    BY <2>1, <2>2, <2>3 DEF CallFits
<1> QED
  BY <1>2, <1>3, <1>4, <1>5 DEF CallFits

LEMMA JoinedCalls ==
  ASSUME NEW cs \in Seq(DeferedCall), NEW ds \in Seq(DeferedCall), NEW w, NEW n
  PROVE /\ \A i : IsCall(cs, i, w, n) => IsCall(cs \o ds, i, w, n)
        /\ \A i : IsCall(ds, i, w, n) => IsCall(cs \o ds, Len(cs) + i, w, n)
        /\ \A i : IsCall(cs \o ds, i, w, n) => IsCall(cs, i, w, n) \/ IsCall(ds, i - Len(cs), w, n)
<1>1. /\ Len(cs) \in Nat /\ Len(ds) \in Nat /\ Len(cs \o ds) = Len(cs) + Len(ds)
      /\ \A i \in 1 .. Len(cs) : (cs \o ds)[i] = cs[i]
      /\ \A i \in 1 .. Len(ds) : (cs \o ds)[Len(cs) + i] = ds[i]
      /\ \A i \in (Len(cs) + 1) .. (Len(cs) + Len(ds)) : (cs \o ds)[i] = ds[i - Len(cs)]
  BY Joined
<1>2. \A l, k \in Nat : /\ \A i \in 1 .. l : i \in 1 .. (l + k)
                        /\ \A i \in 1 .. k : l + i \in 1 .. (l + k)
                        /\ \A i \in 1 .. (l + k) :
                             i \in 1 .. l \/ (i \in (l + 1) .. (l + k) /\ i - l \in 1 .. k)
  OBVIOUS
<1>3. \A i : IsCall(cs, i, w, n) => IsCall(cs \o ds, i, w, n)
  BY <1>1, <1>2 DEF IsCall
<1>4. \A i : IsCall(ds, i, w, n) => IsCall(cs \o ds, Len(cs) + i, w, n)
  BY <1>1, <1>2 DEF IsCall
<1>5. ASSUME NEW i, IsCall(cs \o ds, i, w, n)
      PROVE IsCall(cs, i, w, n) \/ IsCall(ds, i - Len(cs), w, n)
  BY <1>1, <1>2, <1>5 DEF IsCall
<1> QED
  BY <1>3, <1>4, <1>5

LEMMA CallsKept ==
  ASSUME Syntax, Syntax', CallsInv, Extends(ast, ast'), Steady, Len(tables) <= Len(tables'),
         Len(tables) \in Nat, Len(tables') \in Nat, NEW ds, CallsAdded(ds)
  PROVE CallsInv'
<1> DEFINE cs == defered
<1>1. /\ cs \in Seq(DeferedCall) /\ ds \in Seq(DeferedCall) /\ defered' = cs \o ds
      /\ ast \in Seq(TreeNode) /\ ast' \in Seq(TreeNode)
  BY DEF CallsInv, CallsAdded, Syntax
<1>2. /\ defered' \in Seq(DeferedCall) /\ Len(cs) \in Nat /\ Len(ds) \in Nat
      /\ Len(defered') = Len(cs) + Len(ds)
      /\ \A i \in 1 .. Len(cs) : defered'[i] = cs[i]
      /\ \A i \in 1 .. Len(ds) : defered'[Len(cs) + i] = ds[i]
  <2>1. /\ cs \o ds \in Seq(DeferedCall) /\ Len(cs \o ds) = Len(cs) + Len(ds)
        /\ \A i \in 1 .. Len(cs) : (cs \o ds)[i] = cs[i]
        /\ \A i \in 1 .. Len(ds) : (cs \o ds)[Len(cs) + i] = ds[i]
    BY <1>1, Joined
  <2> QED
    BY <1>1, <2>1
<1>3. \A w, n : /\ \A i : IsCall(cs, i, w, n) => IsCall(defered', i, w, n)
                /\ \A i : IsCall(ds, i, w, n) => IsCall(defered', Len(cs) + i, w, n)
                /\ \A i : IsCall(defered', i, w, n) => IsCall(cs, i, w, n) \/ IsCall(ds, i - Len(cs), w, n)
  BY <1>1, JoinedCalls
<1>4. ASSUME NEW i \in 1 .. Len(defered')
      PROVE i \in 1 .. Len(cs) \/ \E k \in 1 .. Len(ds) : i = Len(cs) + k
  <2>1. i \notin 1 .. Len(cs) => i - Len(cs) \in 1 .. Len(ds) /\ i = Len(cs) + (i - Len(cs))
    BY <1>2
  <2> QED
    BY <2>1
<1> HIDE DEF cs
<1>5. ASSUME NEW i \in 1 .. Len(defered') PROVE CallFits(defered'[i], ast', tables') /\ Paired(defered', i)
  <2>1. CASE i \in 1 .. Len(cs)
    <3>1. CallFits(cs[i], ast, tables) /\ Paired(cs, i)
      BY <2>1 DEF CallsInv, cs
    <3>2. \A k \in 1 .. Len(ast[cs[i].node].kids) : k \in 1 .. Len(ast'[cs[i].node].kids)
      BY <3>1 DEF Steady, CallFits
    <3>3. CallFits(cs[i], ast', tables')
      BY <1>1, <3>1, <3>2, CallKept
    <3> QED
      BY <1>2, <1>3, <2>1, <3>1, <3>3 DEF Paired
  <2>2. ASSUME NEW k \in 1 .. Len(ds), i = Len(cs) + k
        PROVE CallFits(defered'[i], ast', tables') /\ Paired(defered', i)
    <3>1. CallFits(ds[k], ast', tables') /\ Paired(ds, k) /\ defered'[i] = ds[k]
      BY <1>2, <2>2 DEF CallsAdded
    <3>2. k > 1 => Len(cs) + (k - 1) = i - 1 /\ i > 1
      BY <1>2, <2>2
    <3>3. \A w, n : IsCall(ds, k - 1, w, n) => IsCall(defered', Len(cs) + (k - 1), w, n)
      BY <1>3
    <3> QED
      BY <3>1, <3>2, <3>3 DEF Paired
  <2> QED
    BY <1>4, <2>1, <2>2
<1>6. ASSUME NEW i, NEW j, NEW n, IsCall(defered', i, "find", n), IsCall(defered', j, "find", n)
      PROVE i = j
  <2>1. \A k : IsCall(cs, k, "find", n) => n \in 1 .. Len(ast)
    BY DEF CallsInv, CallFits, IsCall, cs
  <2>2. \A k : IsCall(ds, k, "find", n) => n = NewId /\ k = 1
    BY <1>2 DEF CallsAdded, IsCall
  <2>3. NewId \notin 1 .. Len(ast)
    BY <1>1 DEF NewId
  <2>4. IsCall(cs, i, "find", n) \/ IsCall(ds, i - Len(cs), "find", n)
    BY <1>3, <1>6
  <2>5. IsCall(cs, j, "find", n) \/ IsCall(ds, j - Len(cs), "find", n)
    BY <1>3, <1>6
  <2>6. IsCall(cs, i, "find", n) /\ IsCall(cs, j, "find", n) => i = j
    BY DEF CallsInv, cs
  <2>7. i \in Int /\ j \in Int
    BY <1>6 DEF IsCall
  <2>8. i - Len(cs) = 1 /\ j - Len(cs) = 1 => i = j
    BY <1>2, <2>7
  <2> QED
    BY <2>1, <2>2, <2>3, <2>4, <2>5, <2>6, <2>8
<1>7. ASSUME NEW n \in 1 .. Len(ast'), ast'[n].kind = "identifier"
      PROVE \E i : IsCall(defered', i, "find", n)
  <2>1. CASE n \in 1 .. Len(ast)
    <3>1. \E i : IsCall(cs, i, "find", n)
      BY <1>7, <2>1 DEF CallsInv, Extends, cs
    <3> QED
      BY <1>3, <3>1
  <2>2. CASE n \notin 1 .. Len(ast)
    <3>1. \E i : IsCall(ds, i, "find", n)
      BY <1>7, <2>2 DEF CallsAdded
    <3> QED
      BY <1>3, <3>1
  <2> QED
    BY <2>1, <2>2
<1>8. ASSUME NEW n \in 1 .. Len(ast'), ast'[n].kind = "call"
      PROVE HeldAs(agenda', "call", n) \/ \E i : IsCall(defered', i, "callee", n)
  <2>1. CASE n \in 1 .. Len(ast)
    <3>1. HeldAs(agenda, "call", n) \/ \E i : IsCall(cs, i, "callee", n)
      BY <1>8, <2>1 DEF CallsInv, Extends, cs
    <3>2. HeldAs(agenda, "call", n) => HeldAs(agenda', "call", n) \/ \E i : IsCall(ds, i, "callee", n)
      BY DEF CallsAdded
    <3> QED
      BY <1>3, <3>1, <3>2
  <2>2. CASE n \notin 1 .. Len(ast)
    BY <1>8, <2>2 DEF CallsAdded
  <2> QED
    BY <2>1, <2>2
<1> QED
  BY <1>2, <1>5, <1>6, <1>7, <1>8 DEF CallsInv

CallsStay == \A n : HeldAs(agenda, "call", n) => HeldAs(agenda', "call", n)

LEMMA CallStays == ASSUME Syntax, Parse, ~Doing({"call"}) PROVE CallsStay
<1>1. ~EndCall /\ Moves
  BY ParseMoves DEF EndCall
<1> QED
  BY <1>1 DEF Moves, CallsStay

LEMMA NoneAdded ==
  ASSUME CallsInv, defered' = defered, CallsStay,
         \A n \in 1 .. Len(ast') : n \notin 1 .. Len(ast) =>
           /\ ast'[n].kind # "identifier"
           /\ ast'[n].kind = "call" => HeldAs(agenda', "call", n)
  PROVE \E ds : CallsAdded(ds)
<1>1. << >> \in Seq(DeferedCall) /\ defered' = defered \o << >> /\ Len(<< >>) = 0
  BY DEF CallsInv
<1>2. CallsAdded(<< >>)
  BY <1>1 DEF CallsAdded, CallsStay
<1> QED
  BY <1>2

LEMMA OneAdded ==
  ASSUME NEW d, CallFits(d, ast', tables'), d.what # "call", d.what = "find" => d.node = NewId,
         defered' = defered \o << d >>, CallsStay,
         \A n \in 1 .. Len(ast') : n \notin 1 .. Len(ast) =>
           /\ ast'[n].kind = "identifier" => d.what = "find" /\ d.node = n
           /\ ast'[n].kind # "call"
  PROVE \E ds : CallsAdded(ds)
<1> DEFINE ds == << d >>
<1>1. d \in DeferedCall
  BY DEF CallFits
<1>2. /\ ds \in Seq(DeferedCall) /\ Len(ds) = 1 /\ ds[1] = d /\ 1 \in 1 .. Len(ds)
      /\ \A i \in 1 .. Len(ds) : i = 1
  BY <1>1
<1>3. defered' = defered \o ds
  OBVIOUS
<1> HIDE DEF ds
<1>4. \A i \in 1 .. Len(ds) : Paired(ds, i)
  BY <1>2 DEF Paired
<1>5. \A n : d.what = "find" /\ d.node = n => \E i : IsCall(ds, i, "find", n)
  BY <1>2 DEF IsCall
<1>6. CallsAdded(ds)
  BY <1>2, <1>3, <1>4, <1>5 DEF CallsAdded, CallsStay
<1> QED
  BY <1>6

LEMMA NewNode ==
  ASSUME ast \in Seq(TreeNode), NEW x, ast' = ast \o << x >>
  PROVE /\ \A n \in 1 .. Len(ast') : n \notin 1 .. Len(ast) => n = NewId /\ ast'[n] = x
        /\ NewId \in 1 .. Len(ast') /\ ast'[NewId] = x /\ NewId \in Nat
<1>1. Len(ast') = Len(ast) + 1 /\ ast'[Len(ast) + 1] = x /\ Len(ast) \in Nat
  BY AppendedAny
<1> QED
  BY <1>1 DEF NewId

(* The forms of a call.                                                    *)
LEMMA CallForms ==
  /\ \A w, n : /\ Call(w, n).what = w /\ Call(w, n).node = n
               /\ w \in {"binary", "assign", "let", "callee", "call"} /\ n \in Nat =>
                    Call(w, n) \in DeferedCall
  /\ \A w, n, o : /\ CallWith(w, n, o).what = w /\ CallWith(w, n, o).node = n
                  /\ CallWith(w, n, o).of = o
                  /\ w \in {"literal", "find"} /\ n \in Nat /\ o \in Nat =>
                       CallWith(w, n, o) \in DeferedCall
  /\ \A n, t : /\ CallType(n, t).what = "parse_type" /\ CallType(n, t).node = n
               /\ CallType(n, t).word = t
               /\ n \in Nat /\ t \in Types => CallType(n, t) \in DeferedCall
BY DEF Call, CallWith, CallType, DeferedCall

(* Steps that make no node.                                                *)
LEMMA QuietCalls ==
  ASSUME Syntax, CallsInv,
         EndFunction \/ ParseArgument \/ EndArgument \/ EndExpression \/ EndRet \/ ParseIfBody
         \/ EndIf \/ BeginExprStatement \/ EndOfFile
  PROVE \E ds : CallsAdded(ds)
<1>1. ast \in Seq(TreeNode) /\ agenda \in Seq(Item)
  BY DEF Syntax
<1>2. Len(ast') = Len(ast)
  <2>1. ast' = ast \/ \E n : AddKid(n)
    BY DEF EndFunction, ParseArgument, EndArgument, EndExpression, EndRet, ParseIfBody, EndIf,
       BeginExprStatement, EndOfFile, treeVars
  <2> QED
    BY <1>1, <2>1 DEF AddKid
<1>3. defered' = defered
  BY DEF EndFunction, ParseArgument, EndArgument, EndExpression, EndRet, ParseIfBody, EndIf,
     BeginExprStatement, EndOfFile
<1>4. CallsStay
  <2>1. CASE ParseArgument
    <3> DEFINE y == NodeItem("argument", Head(agenda).node)
    <3>1. agenda' = << ExprItem(0), y >> \o agenda /\ agenda # << >> /\ Head(agenda).what = "call"
      BY <2>1 DEF ParseArgument, Enter, Doing
    <3>2. y \in Item /\ ExprItem(0) \in Item
      BY <3>1, HeadNode, MadeItems DEF Levelled, Enders
    <3> HIDE DEF y
    <3>3. agenda' = << ExprItem(0) >> \o (<< y >> \o agenda) /\ << y >> \o agenda \in Seq(Item)
      BY <1>1, <3>1, <3>2, PushedTwo
    <3> QED
      BY <1>1, <3>2, <3>3, HeldPush DEF CallsStay
  <2>2. CASE ~ParseArgument
    <3>1. ~Doing({"call"})
      BY <2>2 DEF EndFunction, EndArgument, EndExpression, EndRet, ParseIfBody, EndIf,
         BeginExprStatement, EndOfFile, InBody, Doing, BodyKinds
    <3> QED
      BY <3>1, CallStays DEF Parse
  <2> QED
    BY <2>1, <2>2
<1> QED
  BY <1>2, <1>3, <1>4, NoneAdded

(* Steps that make a node without a call.                                  *)
LEMMA SilentCalls ==
  ASSUME Syntax, CallsInv, defered' = defered,
         ParseInteger \/ ParseOtherLiteral \/ BeginCall \/ ParseOperator \/ ParseAssignment
         \/ BeginInferred \/ BeginRet \/ BeginIf
  PROVE \E ds : CallsAdded(ds)
<1>1. ast \in Seq(TreeNode) /\ agenda \in Seq(Item)
  BY DEF Syntax
<1>2. CallsStay
  <2>1. ~Doing({"call"})
    BY DEF ParseInteger, ParseOtherLiteral, BeginCall, ParseOperator, ParseAssignment,
       BeginInferred, BeginRet, BeginIf, InBody, Doing, BodyKinds
  <2> QED
    BY <2>1, CallStays DEF Parse
<1>3. CASE ast' = ast
  BY <1>2, <1>3, NoneAdded
<1>4. CASE BeginCall
  <2>1. PICK f \in FnNames : ast' = ast \o << Node("call", f) >>
    BY <1>4 DEF BeginCall, AddNodes
  <2>2. \A n \in 1 .. Len(ast') : n \notin 1 .. Len(ast) => n = NewId /\ ast'[n] = Node("call", f)
    BY <1>1, <2>1, NewNode
  <2>3. HeldAs(agenda', "call", NewId)
    <3> DEFINE x == NodeItem("call", NewId)
               y == InfixItem(Head(agenda).level)
    <3>1. agenda' = << x, y >> \o Tail(agenda) /\ Doing({"expr"})
      BY <1>4 DEF BeginCall, Replace
    <3>2. /\ Head(agenda) \in Item /\ Head(agenda).what = "expr" /\ NewId \in Nat
          /\ Tail(agenda) \in Seq(Item)
      BY <3>1, AtHead
    <3>3. x \in Item /\ x.what = "call" /\ x.node = NewId /\ y \in Item
      <4>1. Head(agenda).level \in 0 .. 10
        BY <3>2, ItemFields DEF Levelled
      <4> QED
        BY <3>2, <4>1, MadeItems
    <3> HIDE DEF x, y
    <3>4. agenda' = << x >> \o (<< y >> \o Tail(agenda)) /\ << y >> \o Tail(agenda) \in Seq(Item)
      BY <3>1, <3>2, <3>3, PushedTwo
    <3> QED
      BY <3>3, <3>4, HeldPush
  <2>4. Node("call", f).kind = "call"
    BY DEF Node
  <2> QED
    BY <1>2, <2>2, <2>3, <2>4, NoneAdded
<1>5. CASE ~BeginCall /\ ast' # ast
  <2>1. PICK x : ast' = ast \o << x >> /\ x.kind \notin {"identifier", "call"}
    <3>1. CASE ParseInteger \/ ParseOtherLiteral
      <4>1. ast' = ast \o << Node("literal", "none") >>
        BY <3>1 DEF ParseInteger, ParseOtherLiteral, AddNodes
      <4>2. Node("literal", "none").kind = "literal"
        BY DEF Node
      <4> QED
        BY <4>1, <4>2
    <3>2. CASE ParseOperator \/ ParseAssignment
      <4> DEFINE x == [Node("binary", "none") EXCEPT !.word = token, !.kids = << value >>]
                 y == [Node("assign", "none") EXCEPT !.kids = << value >>]
      <4>1. ast' = ast \o << x >> \/ ast' = ast \o << y >>
        BY <1>5, <3>2 DEF ParseOperator, ParseAssignment, AddNodes, Throw, StopAs, treeVars
      <4>2. x.kind = "binary" /\ y.kind = "assign"
        BY DEF Node
      <4> HIDE DEF x, y
      <4> QED
        BY <4>1, <4>2
    <3>3. CASE BeginInferred
      <4>1. PICK n : ast' = ast \o << Node("let", n) >>
        BY <3>3 DEF BeginInferred, AddNodes
      <4>2. Node("let", n).kind = "let"
        BY DEF Node
      <4> QED
        BY <4>1, <4>2
    <3>4. CASE BeginRet
      <4> DEFINE x == [Node("ret", "none") EXCEPT !.fn = agenda[Len(agenda)].node]
      <4>1. ast' = ast \o << x >>
        BY <3>4 DEF BeginRet, AddNodes
      <4>2. x.kind = "ret"
        BY DEF Node
      <4> HIDE DEF x
      <4> QED
        BY <4>1, <4>2
    <3>5. CASE BeginIf
      <4>1. ast' = ast \o << Node("if", "none") >>
        BY <3>5 DEF BeginIf, AddNodes
      <4>2. Node("if", "none").kind = "if"
        BY DEF Node
      <4> QED
        BY <4>1, <4>2
    <3> QED
      BY <1>5, <3>1, <3>2, <3>3, <3>4, <3>5
  <2>2. \A n \in 1 .. Len(ast') : n \notin 1 .. Len(ast) => ast'[n] = x
    BY <1>1, <2>1, NewNode
  <2> QED
    BY <1>2, <2>1, <2>2, NoneAdded
<1> QED
  BY <1>3, <1>4, <1>5

LEMMA IntegerCalls ==
  ASSUME Syntax, CallsInv, ExplicitInv, ParseInteger PROVE \E ds : CallsAdded(ds)
<1>1. CASE explicitTypes = << >>
  BY <1>1, SilentCalls DEF ParseInteger
<1>2. CASE explicitTypes # << >>
  <2> DEFINE d == CallWith("literal", NewId, Head(explicitTypes))
             x == Node("literal", "none")
  <2>1. ast' = ast \o << x >> /\ defered' = defered \o << d >>
    BY <1>2 DEF ParseInteger, AddNodes, Defer
  <2>2. Head(explicitTypes) \in Nat /\ IsNode(ast, Head(explicitTypes), "let")
    BY <1>2, ExplicitLet
  <2>3. ast \in Seq(TreeNode) /\ ast' \in Seq(TreeNode) /\ Extends(ast, ast')
    BY ParseSafe DEF Syntax, SyntaxKept, Parse
  <2>4. x.kind = "literal"
    BY DEF Node
  <2>5. CallsStay
    <3>1. ~Doing({"call"})
      BY DEF ParseInteger, Doing
    <3> QED
      BY <3>1, CallStays DEF Parse
  <2> HIDE DEF x
  <2>6. /\ \A n \in 1 .. Len(ast') : n \notin 1 .. Len(ast) => n = NewId /\ ast'[n] = x
        /\ NewId \in 1 .. Len(ast') /\ ast'[NewId] = x /\ NewId \in Nat
    BY <2>1, <2>3, NewNode
  <2>7. d \in DeferedCall /\ d.what = "literal" /\ d.node = NewId /\ d.of = Head(explicitTypes)
    BY <2>2, <2>6, CallForms
  <2> HIDE DEF d
  <2>8. IsNode(ast', Head(explicitTypes), "let")
    BY <2>2, <2>3 DEF IsNode, Extends
  <2>9. CallFits(d, ast', tables')
    BY <2>4, <2>6, <2>7, <2>8 DEF CallFits, CallKinds
  <2> QED
    BY <2>1, <2>4, <2>5, <2>6, <2>7, <2>9, OneAdded
<1> QED
  BY <1>1, <1>2

LEMMA IdentifierCalls ==
  ASSUME Syntax, CallsInv, currentScope \in 1 .. Len(tables), ParseIdentifier
  PROVE \E ds : CallsAdded(ds)
<1> DEFINE d == CallWith("find", NewId, currentScope)
<1>1. PICK n \in AllNames : ast' = ast \o << Node("identifier", n) >>
  BY DEF ParseIdentifier, AddNodes
<1> DEFINE x == Node("identifier", n)
<1>2. defered' = defered \o << d >> /\ tables' = tables /\ ast' = ast \o << x >>
  BY <1>1 DEF ParseIdentifier, Defer, scopeVars
<1>3. ast \in Seq(TreeNode)
  BY DEF Syntax
<1>4. x.kind = "identifier"
  BY DEF Node
<1>5. CallsStay
  <2>1. ~Doing({"call"})
    BY DEF ParseIdentifier, Doing
  <2> QED
    BY <2>1, CallStays DEF Parse
<1> HIDE DEF x
<1>6. /\ \A m \in 1 .. Len(ast') : m \notin 1 .. Len(ast) => m = NewId /\ ast'[m] = x
      /\ NewId \in 1 .. Len(ast') /\ ast'[NewId] = x /\ NewId \in Nat
  BY <1>2, <1>3, NewNode
<1>7. currentScope \in Nat
  OBVIOUS
<1>8. d \in DeferedCall /\ d.what = "find" /\ d.node = NewId /\ d.of = currentScope
  BY <1>6, <1>7, CallForms
<1> HIDE DEF d
<1>9. CallFits(d, ast', tables')
  BY <1>2, <1>4, <1>6, <1>8 DEF CallFits, CallKinds
<1> QED
  BY <1>2, <1>4, <1>5, <1>6, <1>8, <1>9, OneAdded

LEMMA ExplicitCalls == ASSUME Syntax, CallsInv, BeginExplicit PROVE \E ds : CallsAdded(ds)
<1>1. PICK n \in VarNames, t \in Types :
        ast' = ast \o << Node("let", n) >> /\ defered' = defered \o << CallType(NewId, t) >>
  BY DEF BeginExplicit, AddNodes, Defer
<1> DEFINE d == CallType(NewId, t)
           x == Node("let", n)
<1>2. ast \in Seq(TreeNode)
  BY DEF Syntax
<1>3. x.kind = "let"
  BY DEF Node
<1>4. CallsStay
  <2>1. ~Doing({"call"})
    BY DEF BeginExplicit, InBody, Doing, BodyKinds
  <2> QED
    BY <2>1, CallStays DEF Parse
<1> HIDE DEF x
<1>5. /\ \A m \in 1 .. Len(ast') : m \notin 1 .. Len(ast) => m = NewId /\ ast'[m] = x
      /\ NewId \in 1 .. Len(ast') /\ ast'[NewId] = x /\ NewId \in Nat
  BY <1>1, <1>2, NewNode DEF x
<1>6. d \in DeferedCall /\ d.what = "parse_type" /\ d.node = NewId /\ d.word = t
  BY <1>5, CallForms
<1>7. defered' = defered \o << d >>
  BY <1>1
<1> HIDE DEF d
<1>8. CallFits(d, ast', tables')
  BY <1>3, <1>5, <1>6 DEF CallFits, CallKinds
<1> QED
  BY <1>3, <1>4, <1>5, <1>6, <1>7, <1>8, OneAdded

(* The head has got its last kid, which sets its type.                     *)
LEMMA CompletedCalls ==
  ASSUME Syntax, CallsInv, agenda # << >>, Head(agenda).what \in {"right", "assign", "inferred"},
         AddKid(Head(agenda).node), CallsStay, NEW w, w = ast[Head(agenda).node].kind,
         defered' = defered \o << Call(w, Head(agenda).node) >>
  PROVE \E ds : CallsAdded(ds)
<1> DEFINE n == Head(agenda).node
           d == Call(w, n)
<1>1. n \in Nat /\ n \in 1 .. Len(ast) /\ w = KindOf(Head(agenda).what)
  BY HeadNode DEF Levelled
<1>2. Given(ast, ast', n, value)
  BY Giving DEF Enders
<1>3. /\ Len(ast') = Len(ast) /\ ast'[n].kind = w /\ ast'[n].kids = ast[n].kids \o << value >>
      /\ ast \in Seq(TreeNode)
  BY <1>1, <1>2 DEF Given, Extends, Syntax
<1>4. Len(ast'[n].kids) > 0
  <2>1. ast[n].kids \in Seq(Nat) /\ Len(ast[n].kids) \in Nat
    BY <1>1, <1>3, NodesTyped
  <2>2. Len(ast[n].kids \o << value >>) = Len(ast[n].kids) + 1
    BY <2>1, AppendedAny
  <2>3. Len(ast[n].kids \o << value >>) > 0
    BY <2>1, <2>2
  <2> QED
    BY <1>3, <2>3
<1>5. w \in {"binary", "assign", "let"}
  BY <1>1 DEF KindOf
<1> HIDE DEF n
<1>6. d \in DeferedCall /\ d.what = w /\ d.node = n /\ d.what # "call"
      /\ d.what \notin {"find", "literal", "parse_type"}
  BY <1>1, <1>5, CallForms
<1>7. defered' = defered \o << d >>
  BY DEF n
<1> HIDE DEF d
<1>8. CallFits(d, ast', tables')
  BY <1>1, <1>3, <1>4, <1>5, <1>6 DEF CallFits, CallKinds
<1> QED
  BY <1>3, <1>6, <1>7, <1>8, OneAdded

LEMMA EndingCalls == ASSUME Syntax, CallsInv, EndInfix \/ EndVarDecl PROVE \E ds : CallsAdded(ds)
<1>1. CallsStay
  <2>1. ~Doing({"call"})
    BY DEF EndInfix, EndVarDecl, Doing
  <2> QED
    BY <2>1, CallStays DEF Parse
<1>2. CASE EndInfix
  BY <1>1, <1>2, CompletedCalls DEF EndInfix, Doing, Defer
<1>3. CASE EndVarDecl /\ defered' = defered
  <2>1. ast' = ast \/ \E n : AddKid(n)
    BY <1>3 DEF EndVarDecl, Throw, StopAs, treeVars
  <2>2. Len(ast') = Len(ast)
    BY <2>1 DEF AddKid, Syntax
  <2> QED
    BY <1>1, <1>3, <2>2, NoneAdded
<1>4. CASE EndVarDecl /\ defered' # defered
  <2>1. /\ agenda # << >> /\ Head(agenda).what = "inferred" /\ AddKid(Head(agenda).node)
        /\ defered' = defered \o << Call("let", Head(agenda).node) >>
    BY <1>4 DEF EndVarDecl, Doing, Defer, Throw, StopAs
  <2>2. ast[Head(agenda).node].kind = "let"
    BY <2>1, HeadNode DEF Levelled, KindOf
  <2> QED
    BY <1>1, <2>1, <2>2, CompletedCalls
<1> QED
  BY <1>2, <1>3, <1>4

LEMMA EndCallCalls == ASSUME Syntax, CallsInv, EndCall PROVE \E ds : CallsAdded(ds)
<1> DEFINE n == Head(agenda).node
           c == Call("callee", n)
           d == Call("call", n)
           ds == << c, d >>
<1>1. /\ agenda # << >> /\ Head(agenda).what = "call" /\ defered' = defered \o << c, d >>
      /\ ast' = ast /\ tables' = tables
  BY DEF EndCall, Doing, Defer, scopeVars
<1>2. n \in Nat /\ n \in 1 .. Len(ast) /\ ast[n].kind = "call"
  BY <1>1, HeadNode DEF Levelled, KindOf
<1> HIDE DEF n
<1>3. /\ c \in DeferedCall /\ c.what = "callee" /\ c.node = n
      /\ d \in DeferedCall /\ d.what = "call" /\ d.node = n
  BY <1>2, CallForms
<1> HIDE DEF c, d
<1>4. /\ ds \in Seq(DeferedCall) /\ Len(ds) = 2 /\ ds[1] = c /\ ds[2] = d
      /\ \A i \in 1 .. Len(ds) : i = 1 \/ i = 2
      /\ 1 \in 1 .. Len(ds)
  BY <1>3
<1>5. defered' = defered \o ds
  BY <1>1
<1> HIDE DEF ds
<1>6. IsCall(ds, 1, "callee", n)
  BY <1>3, <1>4 DEF IsCall
<1>7. \A i \in 1 .. Len(ds) : Paired(ds, i)
  <2>1. 2 - 1 = 1 /\ 2 > 1
    OBVIOUS
  <2>2. Paired(ds, 1)
    BY <1>3, <1>4 DEF Paired
  <2>3. Paired(ds, 2)
    BY <1>3, <1>4, <1>6, <2>1 DEF Paired
  <2> QED
    BY <1>4, <2>2, <2>3
<1>8. CallFits(c, ast', tables') /\ CallFits(d, ast', tables')
  BY <1>1, <1>2, <1>3 DEF CallFits, CallKinds
<1>9. \A m : HeldAs(agenda, "call", m) => HeldAs(agenda', "call", m) \/ m = n
  BY ParseMoves DEF Moves, Parse, n
<1>10. CallsAdded(ds)
  BY <1>1, <1>3, <1>4, <1>5, <1>6, <1>7, <1>8, <1>9 DEF CallsAdded
<1> QED
  BY <1>10

LEMMA FunctionCalls == ASSUME Syntax, NodesInv, CallsInv, BeginFunction PROVE \E ds : CallsAdded(ds)
<1>1. PICK h \in Headers : ParseFunction(h.name, h.params, h.ret, h.ext)
  BY DEF BeginFunction
<1>2. CallsStay
  <2>1. agenda = << >>
    BY <1>1 DEF ParseFunction
  <2>2. Len(agenda) = 0
    BY <2>1
  <2> QED
    BY <2>2 DEF CallsStay, HeldAs
<1>3. CASE ~ParametersAddable(h.params) \/ fnTypes[h.name] # 0
  <2>1. ast' = ast /\ defered' = defered
    BY <1>1, <1>3 DEF ParseFunction, Throw, StopAs, treeVars
  <2> QED
    BY <1>2, <2>1, NoneAdded
<1>4. CASE ~(~ParametersAddable(h.params) \/ fnTypes[h.name] # 0)
  <2> DEFINE p == h.params
             ds == [i \in 1 .. Len(p) |-> CallType(NewId + i, p[i][2])]
  <2>1. AddsFunction(h) /\ defered' = defered \o ds
    BY <1>1, <1>4 DEF ParseFunction, AddsFunction, Defer
  <2>2. Planted(ast, ast', h.name, h.params, h.ret)
    BY <2>1, FunctionFitted
  <2>3. p \in Seq(VarNames \X Types) /\ Len(p) \in Nat /\ Len(ast) \in Nat /\ NewId = Len(ast) + 1
    BY HeadersAssumption DEF Syntax, NewId
  <2>4. \A i \in 1 .. Len(p) : NewId + i \in Nat /\ p[i][2] \in Types
    BY <2>3
  <2>5. ds \in Seq(DeferedCall) /\ Len(ds) = Len(p) /\ \A i \in 1 .. Len(p) : ds[i] = CallType(NewId + i, p[i][2])
    BY <2>3, <2>4, CallForms
  <2> HIDE DEF ds
  <2>6. ASSUME NEW i \in 1 .. Len(p)
        PROVE /\ CallFits(ds[i], ast', tables') /\ ds[i].what = "parse_type" /\ ds[i].what # "find"
              /\ Paired(ds, i)
    <3>1. /\ ds[i] \in DeferedCall /\ ds[i].what = "parse_type" /\ ds[i].word \in Types
          /\ ds[i].node = NewId + i
      BY <2>4, <2>5, CallForms
    <3>2. ast'[NewId + i].kind = "arg" /\ Len(ast') = Len(ast) + 1 + Len(p)
      <4>1. ast'[Len(ast) + 1 + i] = Node("arg", p[i][1]) /\ Len(ast') = Len(ast) + 1 + Len(p)
        BY <2>2 DEF Planted
      <4>2. Node("arg", p[i][1]).kind = "arg"
        BY DEF Node
      <4> QED
        BY <2>3, <4>1, <4>2
    <3>3. \A l, k \in Nat : \A j \in 1 .. k : (l + 1) + j \in 1 .. (l + 1 + k)
      OBVIOUS
    <3>4. NewId + i \in 1 .. Len(ast')
      BY <2>3, <3>2, <3>3
    <3> QED
      BY <3>1, <3>2, <3>4 DEF CallFits, CallKinds, Paired
  <2>7. ASSUME NEW n \in 1 .. Len(ast'), n \notin 1 .. Len(ast)
        PROVE ast'[n].kind \notin {"identifier", "call"}
    <3>1. n \in 1 .. (Len(ast) + 1 + Len(p))
      BY <2>2, <2>7 DEF Planted
    <3>2. n = Len(ast) + 1 \/ \E i \in 1 .. Len(p) : n = Len(ast) + 1 + i
      BY <2>3, <2>7, <3>1, Split
    <3>3. ast'[Len(ast) + 1].kind = "fn"
      BY <2>2 DEF Planted
    <3>4. ASSUME NEW i \in 1 .. Len(p) PROVE ast'[Len(ast) + 1 + i].kind = "arg"
      <4>1. ast'[Len(ast) + 1 + i] = Node("arg", p[i][1])
        BY <2>2 DEF Planted
      <4>2. Node("arg", p[i][1]).kind = "arg"
        BY DEF Node
      <4> QED
        BY <4>1, <4>2
    <3> QED
      BY <3>2, <3>3, <3>4
  <2>8. CallsAdded(ds)
    BY <1>2, <2>1, <2>5, <2>6, <2>7 DEF CallsAdded, CallsStay
  <2> QED
    BY <2>8
<1> QED
  BY <1>3, <1>4

LEMMA SymbolScopes ==
  ASSUME NEW T \in Seq(Table), NEW s, NEW n, NEW d, NEW U, U = WithSymbol(T, s, n, d)
  PROVE SameScopes(T, U) /\ U \in Seq({U[r] : r \in 1 .. Len(T)})
<1>1. \A V : V = [r \in 1 .. Len(T) |-> V[r]] => V \in [1 .. Len(T) -> {V[r] : r \in 1 .. Len(T)}]
  OBVIOUS
<1>2. PICK x : U = [T EXCEPT ![s] = x] /\ x = [T[s] EXCEPT !.symbols = [@ EXCEPT ![n] = d]]
  BY DEF WithSymbol
<1>3. U \in [1 .. Len(T) -> {U[r] : r \in 1 .. Len(T)}] /\ Len(T) \in Nat
  <2>1. DOMAIN T = 1 .. Len(T) /\ Len(T) \in Nat
    OBVIOUS
  <2>2. U = [r \in 1 .. Len(T) |-> U[r]]
    BY <1>2, <2>1
  <2> QED
    BY <1>1, <2>1, <2>2
<1>4. U \in Seq({U[r] : r \in 1 .. Len(T)}) /\ Len(U) = Len(T)
  BY <1>3
<1>5. \A r \in 1 .. Len(T) : U[r] = T[r] \/ (r = s /\ U[r] = x)
  BY <1>2
<1>6. \A r \in 1 .. Len(T) : T[r] \in Table
  OBVIOUS
<1>7. s \in 1 .. Len(T) => x.parent = T[s].parent
  BY <1>2, <1>6 DEF Table
<1>8. \A r \in 1 .. Len(T) : U[r].parent = T[r].parent
  BY <1>5, <1>7
<1> QED
  BY <1>3, <1>4, <1>8 DEF SameScopes

LEMMA AppendScopes ==
  ASSUME NEW S, NEW U \in Seq(S), NEW T, SameScopes(T, U), NEW x
  PROVE SameScopes(T, Append(U, x))
BY DEF SameScopes

LEMMA TablesGrow == ASSUME TablesInv, Parse PROVE SameScopes(tables, tables')
<1>1. tables \in Seq(Table)
  BY DEF TablesInv, TablesFit
<1>2. \/ tables' = tables
      \/ \E s, n, d : tables' = WithSymbol(tables, s, n, d)
      \/ \E x : tables' = Append(tables, x)
      \/ \E s, n, d, x : tables' = Append(WithSymbol(tables, s, n, d), x)
  <2>1. CASE BeginFunction
    <3>1. PICK h \in Headers : ParseFunction(h.name, h.params, h.ret, h.ext)
      BY <2>1 DEF BeginFunction
    <3>2. \/ tables' = tables
          \/ tables' = Append(tables, ParameterTable(h.params))
          \/ tables' = Append(WithSymbol(tables, currentScope, h.name, NewId),
                              ParameterTable(h.params))
      BY <3>1 DEF ParseFunction, Throw, StopAs, scopeVars
    <3> QED
      BY <3>2
  <2>2. CASE EndFunction \/ EndVarDecl
    <3>1. \/ tables' = tables
          \/ tables' = WithSymbol(tables, tables[currentScope].parent,
                                  ast[Head(agenda).node].name, Head(agenda).node)
          \/ tables' = WithSymbol(tables, currentScope, ast[Head(agenda).node].name,
                                  Head(agenda).node)
      BY <2>2 DEF EndFunction, EndVarDecl, Throw, StopAs, scopeVars
    <3> QED
      BY <3>1
  <2>3. CASE ParseIfBody
    BY <2>3 DEF ParseIfBody
  <2>4. CASE tables' = tables
    BY <2>4
  <2> QED
    BY <2>1, <2>2, <2>3, <2>4
       DEF Parse, ParseInteger, ParseOtherLiteral, ParseIdentifier, BeginCall, ParseArgument,
       EndArgument, EndCall, ParseOperator, ParseAssignment, EndInfix, EndExpression,
       BeginExplicit, BeginInferred, BeginRet, EndRet, BeginIf, EndIf, BeginExprStatement,
       EndOfFile, Throw, StopAs, scopeVars
<1>3. \A s, n, d : SameScopes(tables, WithSymbol(tables, s, n, d))
  BY <1>1, SymbolScopes
<1>4. SameScopes(tables, tables)
  BY <1>1 DEF SameScopes
<1>5. \A x : SameScopes(tables, Append(tables, x))
  BY <1>1, <1>4, AppendScopes
<1>6. \A s, n, d, x : SameScopes(tables, Append(WithSymbol(tables, s, n, d), x))
  BY <1>1, SymbolScopes, AppendScopes
<1> QED
  BY <1>2, <1>3, <1>4, <1>5, <1>6

LEMMA ParseCalls ==
  ASSUME Syntax, NodesInv, TablesInv, ScopesInv, ExplicitInv, CallsInv, Parse
  PROVE CallsInv'
<1>1. PICK sc : ScopesFit(sc, agenda, tables, currentScope)
  BY ParsesWhen DEF ScopesInv
<1>2. currentScope \in 1 .. Len(tables)
  BY <1>1, ScopeOpen DEF Syntax
<1>3. Syntax' /\ Extends(ast, ast') /\ Steady /\ TablesFit(ast', tables')
  BY <1>1, ParseSafe, ParseNodes, ParseScopes DEF SyntaxKept, ScopesGo
<1>4. \E ds : CallsAdded(ds)
  <2>1. ParseOtherLiteral \/ BeginCall \/ ParseOperator \/ ParseAssignment \/ BeginInferred
        \/ BeginRet \/ BeginIf => defered' = defered
    BY DEF ParseOtherLiteral, BeginCall, ParseOperator, ParseAssignment, BeginInferred,
       BeginRet, BeginIf, Throw, StopAs
  <2> QED
    BY <1>2, <2>1, QuietCalls, SilentCalls, IntegerCalls, IdentifierCalls, ExplicitCalls,
       EndingCalls, EndCallCalls, FunctionCalls DEF Parse
<1>5. Len(tables) <= Len(tables')
  BY TablesGrow DEF SameScopes
<1> QED
  BY <1>3, <1>4, <1>5, CallsKept DEF TablesInv, TablesFit

-----------------------------------------------------------------------------
(* Looking a name up.                                                      *)

LEMMA LeastScope ==
  ASSUME NEW S, S \subseteq Nat, S # {}
  PROVE \E x \in S : \A y \in S : x <= y
<1>1. PICK x \in S : \A y \in S : ~(<< y, x >> \in OpToRel(<, Nat))
  BY NatLessThanWellFounded, WFMin
<1>2. \A y \in S : ~(y < x)
  BY <1>1 DEF OpToRel
<1> QED
  BY <1>2

(* What a look-up finds in scope s, given what it finds in the others.     *)
Found(T, n, f, s) ==
  IF s = 0 THEN 0 ELSE IF T[s].symbols[n] # 0 THEN T[s].symbols[n] ELSE f[T[s].parent]
Finds(T, n, k, f) == \A s \in 0 .. k : f[s] = Found(T, n, f, s)

LEMMA TableRange ==
  ASSUME NEW t, NEW T, TablesFit(t, T), NEW n \in AllNames, NEW s \in 1 .. Len(T)
  PROVE /\ T[s].parent \in 0 .. (s - 1) /\ T[s].parent \in 0 .. Len(T)
        /\ T[s].symbols[n] \in Nat /\ Declared(t, T[s].symbols[n], n)
<1>1. T \in Seq(Table) /\ T[s] \in Table /\ Len(T) \in Nat /\ TableFits(t, T[s], s)
  BY DEF TablesFit
<1>2. T[s].symbols \in [AllNames -> Nat]
  BY <1>1 DEF Table
<1>3. T[s].parent \in 0 .. (s - 1)
  BY <1>1 DEF TableFits
<1>4. T[s].parent \in 0 .. Len(T)
  BY <1>1, <1>3
<1> QED
  BY <1>1, <1>2, <1>3, <1>4 DEF TableFits

LEMMA FoundDeclared ==
  ASSUME NEW t, NEW T, TablesFit(t, T), NEW n \in AllNames, NEW f, Finds(T, n, Len(T), f)
  PROVE \A s \in 0 .. Len(T) : f[s] \in Nat /\ Declared(t, f[s], n)
<1> DEFINE Bad == {s \in 0 .. Len(T) : ~(f[s] \in Nat /\ Declared(t, f[s], n))}
<1> SUFFICES ASSUME Bad # {} PROVE FALSE
  OBVIOUS
<1>1. PICK s \in Bad : \A k \in Bad : s <= k
  BY LeastScope, Bad \subseteq Nat
<1>2. s \in 0 .. Len(T) /\ f[s] = Found(T, n, f, s) /\ Len(T) \in Nat
  BY <1>1 DEF Finds, TablesFit
<1>3. s # 0
  BY <1>1, <1>2 DEF Found, Declared
<1>4. /\ T[s].parent \in 0 .. (s - 1) /\ T[s].parent \in 0 .. Len(T)
      /\ T[s].symbols[n] \in Nat /\ Declared(t, T[s].symbols[n], n)
  BY <1>2, <1>3, TableRange
<1>5. T[s].parent \notin Bad
  BY <1>1, <1>2, <1>4
<1> QED
  BY <1>1, <1>2, <1>3, <1>4, <1>5 DEF Found

LEMMA FindExists ==
  ASSUME NEW t, NEW T, TablesFit(t, T), NEW n \in AllNames
  PROVE \E f : f = [s \in 0 .. Len(T) |-> Found(T, n, f, s)]
<1> DEFINE Good(f, k) == f = [s \in 0 .. k |-> Found(T, n, f, s)]
           Bad == {k \in 0 .. Len(T) : ~\E f : Good(f, k)}
<1>0. Len(T) \in Nat /\ Len(T) \in 0 .. Len(T)
  BY DEF TablesFit
<1>1. SUFFICES ASSUME Bad # {} PROVE FALSE
  <2>1. ASSUME Bad = {} PROVE \E f : Good(f, Len(T))
    <3> HIDE DEF Good
    <3> QED
      BY <1>0, <2>1
  <2> QED
    BY <2>1
<1>2. PICK k \in Bad : \A j \in Bad : k <= j
  BY <1>1, LeastScope, Bad \subseteq Nat
<1>3. k # 0
  <2> DEFINE f == [s \in 0 .. 0 |-> 0]
  <2>1. Good(f, 0)
    BY DEF Found
  <2> HIDE DEF Good
  <2> QED
    BY <1>2, <2>1
<1>4. k \in 1 .. Len(T) /\ k - 1 \in 0 .. Len(T) /\ k - 1 \notin Bad
  <2> HIDE DEF Good
  <2> QED
    BY <1>0, <1>2, <1>3
<1>5. PICK f : Good(f, k - 1)
  <2> HIDE DEF Good
  <2> QED
    BY <1>4
<1> DEFINE g == [s \in 0 .. k |-> Found(T, n, f, s)]
<1>6. T[k].parent \in 0 .. (k - 1)
  BY <1>4, TableRange
<1>7. ASSUME NEW s \in 0 .. k PROVE Found(T, n, f, s) = Found(T, n, g, s)
  <2>1. s # 0 => T[s].parent \in 0 .. (k - 1)
    <3>1. s # 0 => s \in 1 .. Len(T) /\ s \in 1 .. k
      BY <1>4
    <3>2. s # 0 => T[s].parent \in 0 .. (s - 1)
      BY <3>1, TableRange
    <3> QED
      BY <3>1, <3>2
  <2>2. \A r \in 0 .. (k - 1) : f[r] = g[r]
    <3>1. \A r \in 0 .. (k - 1) : f[r] = Found(T, n, f, r) /\ r \in 0 .. k
      BY <1>4, <1>5
    <3> QED
      BY <3>1
  <2> HIDE DEF g
  <2> QED
    BY <2>1, <2>2 DEF Found
<1>8. Good(g, k)
  BY <1>7
<1> HIDE DEF Good, g
<1> QED
  BY <1>2, <1>8

LEMMA LooksUp ==
  ASSUME NEW t, NEW T, TablesFit(t, T), NEW n \in AllNames, NEW s \in 0 .. Len(T)
  PROVE /\ find_base(T, s, n) \in Nat /\ Declared(t, find_base(T, s, n), n)
        /\ s = 0 => find_base(T, s, n) = 0
        /\ s # 0 => find_base(T, s, n) = IF T[s].symbols[n] # 0 THEN T[s].symbols[n]
                                         ELSE find_base(T, T[s].parent, n)
<1> DEFINE Def(f) == f = [r \in 0 .. Len(T) |-> Found(T, n, f, r)]
           h == CHOOSE f : Def(f)
<1>1. Def(h)
  <2>1. \E f : Def(f)
    BY FindExists
  <2> QED
    BY <2>1
<1>2. \A r : find_base(T, r, n) = h[r]
  BY DEF find_base, Found
<1>3. Finds(T, n, Len(T), h)
  BY <1>1 DEF Finds
<1> HIDE DEF h
<1>4. h[s] \in Nat /\ Declared(t, h[s], n)
  BY <1>3, FoundDeclared
<1>5. h[s] = Found(T, n, h, s)
  BY <1>3 DEF Finds
<1> QED
  BY <1>2, <1>4, <1>5 DEF Found

-----------------------------------------------------------------------------
(* After the parse the tree keeps its nodes and their kids.                *)

BuildInv ==
  Syntax /\ NodesInv /\ TrailInv /\ TablesInv /\ ScopesInv /\ ExplicitInv /\ CallsInv

Later ==
  /\ UNCHANGED << parserVars, trail, tables, fnTypes, defered >>
  /\ SyntaxKept /\ Len(ast') = Len(ast) /\ TypesFit(Len(ast))
  /\ \A m \in 1 .. Len(ast) : ast'[m].kids = ast[m].kids
  /\ phase # "parsing" /\ phase' # "parsing"
  /\ \/ currentScope' = currentScope /\ (phase' = "resolving" => phase = "resolving")
     \/ phase = "resolving" /\ phase' = "checking" /\ currentScope' = Outer(currentScope)

LEMMA LaterScopes ==
  ASSUME Syntax, TablesInv, ScopesInv, Later PROVE ScopesInv'
<1>1. agenda' = agenda /\ tables' = tables
  BY DEF Later, parserVars
<1>2. CASE currentScope' = currentScope /\ (phase' = "resolving" => phase = "resolving")
  BY <1>1, <1>2 DEF ScopesInv, Later
<1>3. CASE phase = "resolving" /\ phase' = "checking" /\ currentScope' = Outer(currentScope)
  <2>1. PICK sc : ScopesFit(sc, agenda, tables, currentScope)
    BY <1>3 DEF ScopesInv
  <2>2. currentScope \in 1 .. Len(tables)
    BY <2>1, ScopeOpen DEF Syntax
  <2>3. /\ Len(tables) \in Nat /\ tables[currentScope].parent \in 0 .. (currentScope - 1)
    BY <2>2 DEF TablesInv, TablesFit, TableFits
  <2>4. currentScope' \in 0 .. Len(tables')
    BY <1>1, <1>3, <2>2, <2>3 DEF Outer
  <2> QED
    BY <1>3, <2>4 DEF ScopesInv
<1> QED
  BY <1>2, <1>3 DEF Later

LEMMA LaterCalls ==
  ASSUME Syntax, TablesInv, CallsInv, Later PROVE CallsInv'
<1>1. /\ agenda' = agenda /\ tables' = tables /\ defered' = defered /\ Len(ast') = Len(ast)
      /\ Syntax' /\ Extends(ast, ast')
  BY DEF Later, parserVars, SyntaxKept
<1>2. Steady
  BY DEF Steady, Later
<1>3. CallsStay
  BY <1>1 DEF CallsStay
<1>4. \E ds : CallsAdded(ds)
  BY <1>1, <1>3, NoneAdded
<1>5. Len(tables) \in Nat
  BY DEF TablesInv, TablesFit
<1> QED
  BY <1>1, <1>2, <1>4, <1>5, CallsKept

LEMMA LaterKeeps ==
  ASSUME BuildInv, Later PROVE BuildInv'
<1>1. /\ UNCHANGED << explicitTypes, token, agenda, value, trail, tables, fnTypes, defered >>
      /\ Syntax /\ Syntax' /\ Extends(ast, ast') /\ Len(ast') = Len(ast)
  BY DEF Later, parserVars, SyntaxKept, BuildInv
<1>2. ast \in Seq(TreeNode) /\ ast' \in Seq(TreeNode)
  BY <1>1 DEF Syntax
<1>3. Steady
  BY DEF Steady, Later
<1>4. Moves
  <2>1. \A w, n : HeldAs(agenda', w, n) <=> HeldAs(agenda, w, n)
    BY <1>1
  <2> QED
    BY <2>1 DEF Moves, Held
<1>5. NodesInv'
  <2>1. \A n \in 1 .. Len(ast') : NameFits(ast'[n])
    BY <1>1 DEF BuildInv, NodesInv, NameFits, Extends
  <2> QED
    BY <1>1, <2>1 DEF BuildInv, NodesInv, Later, TypesFit
<1>6. TrailInv'
  <2>1. ASSUME NEW p \in 1 .. Len(trail) PROVE StepFits(trail[p])'
    <3>1. PICK e : e = trail[p]
      OBVIOUS
    <3>2. StepFits(e)
      BY <3>1 DEF BuildInv, TrailInv
    <3>3. StepFits(e)'
      BY <1>1, <1>3, <1>4, <3>2, StepsKept
    <3> QED
      BY <1>1, <3>1, <3>3 DEF StepFits
  <2> QED
    BY <1>1, <2>1 DEF BuildInv, TrailInv
<1>7. TablesInv'
  BY <1>1, <1>2, TablesKept, FunctionsKept DEF BuildInv, TablesInv
<1>8. ExplicitInv'
  BY <1>1 DEF BuildInv, ExplicitInv
<1> QED
  BY <1>1, <1>5, <1>6, <1>7, <1>8, LaterScopes, LaterCalls DEF BuildInv

-----------------------------------------------------------------------------
(* The calls that were put off are run.                                    *)

Settled == UNCHANGED << ast, parserVars, trail, tables, fnTypes, defered >>

LEMMA SettledLater ==
  ASSUME BuildInv, Settled, TypesFit(Len(ast)), phase # "parsing", phase' # "parsing",
         currentScope' = currentScope, phase' = "resolving" => phase = "resolving"
  PROVE Later
<1>1. SyntaxKept
  BY StopSafe DEF BuildInv, Settled
<1> QED
  BY <1>1 DEF Settled, Later

LEMMA OneType ==
  ASSUME NodesInv, NEW n \in 1 .. Len(ast), NEW t \in NodeTypes,
         types' = [types EXCEPT ![n] = t], muts' = muts
  PROVE TypesFit(Len(ast))
<1>1. types \in Seq(NodeTypes) /\ n \in 1 .. Len(types) /\ Len(types) = Len(ast)
  BY DEF NodesInv
<1>2. [types EXCEPT ![n] = t] \in Seq(NodeTypes) /\ Len([types EXCEPT ![n] = t]) = Len(types)
  BY <1>1, Replaced
<1> QED
  BY <1>1, <1>2 DEF NodesInv, TypesFit

LEMMA SameTypes == ASSUME NodesInv, types' = types, muts' = muts PROVE TypesFit(Len(ast))
BY DEF NodesInv, TypesFit

LEMMA RunsOne ==
  ASSUME BuildInv, PhaseInv, phase = "resolving", position < Len(defered)
  PROVE /\ position + 1 \in 1 .. Len(defered) /\ position \in Nat
        /\ CallFits(Running, ast, tables) /\ Paired(defered, position + 1)
        /\ Running.node \in 1 .. Len(ast) /\ ast \in Seq(TreeNode) /\ ast[Running.node] \in TreeNode
        /\ NodeFits(ast, Running.node) /\ NameFits(ast[Running.node])
<1>1. defered \in Seq(DeferedCall) /\ position \in Nat
  BY DEF BuildInv, CallsInv, PhaseInv
<1>2. position + 1 \in 1 .. Len(defered)
  BY <1>1
<1>3. CallFits(Running, ast, tables) /\ Paired(defered, position + 1)
  BY <1>2 DEF BuildInv, CallsInv, Running
<1>4. Running.node \in 1 .. Len(ast) /\ ast \in Seq(TreeNode)
  BY <1>3 DEF CallFits, BuildInv, Syntax
<1> QED
  BY <1>1, <1>2, <1>3, <1>4, NodesTyped DEF BuildInv, Syntax, TreeFits, NodesInv

LEMMA RunSettled ==
  ASSUME BuildInv, PhaseInv, NEW what, RunsCall(what), CallDone, UNCHANGED << ast, muts >>,
         NEW t \in NodeTypes, SetType(t)
  PROVE Later
<1>1. Running.node \in 1 .. Len(ast)
  BY RunsOne DEF RunsCall
<1>2. TypesFit(Len(ast))
  BY <1>1, OneType DEF BuildInv, SetType
<1> QED
  BY <1>2, SettledLater DEF RunsCall, CallDone, Settled, scopeVars

LEMMA StopLater ==
  ASSUME BuildInv, phase # "parsing", NEW outcome \in {"threw", "undefined", "aborted"},
         StopAs(outcome)
  PROVE Later
<1>1. TypesFit(Len(ast))
  BY SameTypes DEF BuildInv, StopAs, treeVars
<1> QED
  BY <1>1, SettledLater DEF StopAs, treeVars, scopeVars, Settled

LEMMA TypesKnown ==
  /\ IntegralTypes \subseteq NodeTypes /\ Types \subseteq NodeTypes
  /\ "bool" \in NodeTypes /\ "i64" \in IntegralTypes /\ "u8" \in IntegralTypes
BY WordTypes DEF NodeTypes, IntegralTypes

LEMMA FirstKid ==
  ASSUME BuildInv, NEW n \in 1 .. Len(ast), Len(ast[n].kids) > 0
  PROVE ast[n].kids[1] \in 1 .. Len(ast) /\ types[ast[n].kids[1]] \in NodeTypes
<1>1. KidsFit(ast, n) /\ Len(ast[n].kids) \in Nat
  BY NodesTyped DEF BuildInv, Syntax, TreeFits, NodeFits
<1>2. 1 \in 1 .. Len(ast[n].kids)
  BY <1>1
<1>3. ast[n].kids[1] \in 1 .. Len(ast)
  BY <1>1, <1>2 DEF KidsFit
<1> QED
  BY <1>3 DEF BuildInv, NodesInv

LEMMA TypesRun ==
  ASSUME BuildInv, PhaseInv, RunParseType \/ RunLiteral \/ RunBinary \/ RunLetOrAssign
  PROVE Later
<1>1. CASE RunParseType
  <2>1. Running.word \in NodeTypes
    BY <1>1, RunsOne, TypesKnown DEF RunParseType, RunsCall, CallFits
  <2> QED
    BY <1>1, <2>1, RunSettled DEF RunParseType
<1>2. CASE RunLiteral
  <2> DEFINE t == types[Running.of]
  <2>1. CASE t = "null"
    BY <1>2, <2>1, StopLater DEF RunLiteral, RunsCall
  <2>2. CASE t # "null"
    <3> DEFINE s == IF TypeId(t) \in IntegralTypes THEN TypeId(t) ELSE "i64"
    <3>1. s \in NodeTypes
      BY TypesKnown
    <3>2. RunsCall({"literal"}) /\ SetType(s) /\ CallDone /\ UNCHANGED << ast, muts >>
      BY <1>2, <2>2 DEF RunLiteral
    <3> HIDE DEF s
    <3> QED
      BY <3>1, <3>2, RunSettled
  <2> QED
    BY <2>1, <2>2
<1>3. CASE RunBinary \/ RunLetOrAssign
  <2> DEFINE k == ast[Running.node].kids[1]
             s == IF ast[Running.node].word \in Equalities THEN "bool" ELSE types[k]
  <2>1. PICK what : /\ RunsCall(what) /\ what \subseteq {"binary", "let", "assign"}
                    /\ CallDone /\ UNCHANGED << ast, muts >>
                    /\ SetType(s) \/ SetType(types[k])
    <3>1. CASE RunBinary
      BY <3>1 DEF RunBinary
    <3>2. CASE RunLetOrAssign
      BY <3>2 DEF RunLetOrAssign
    <3> QED
      BY <1>3, <3>1, <3>2
  <2>2. Running.node \in 1 .. Len(ast) /\ Len(ast[Running.node].kids) > 0
    BY <2>1, RunsOne DEF RunsCall, CallFits
  <2>3. types[k] \in NodeTypes /\ s \in NodeTypes
    BY <2>2, FirstKid, TypesKnown
  <2> HIDE DEF k, s
  <2> QED
    BY <2>1, <2>3, RunSettled
<1> QED
  BY <1>1, <1>2, <1>3

(* What a name means, once it is found.                                    *)
LEMMA NameFound ==
  ASSUME BuildInv, NEW n \in AllNames, NEW s \in 1 .. Len(tables)
  PROVE /\ find_base(tables, s, n) \in Nat
        /\ find_base(tables, s, n) # 0 => find_base(tables, s, n) \in 1 .. Len(ast)
<1>1. TablesFit(ast, tables) /\ s \in 0 .. Len(tables)
  BY DEF BuildInv, TablesInv
<1>2. find_base(tables, s, n) \in Nat /\ Declared(ast, find_base(tables, s, n), n)
  BY <1>1, LooksUp
<1> QED
  BY <1>2 DEF Declared

LEMMA FindRuns ==
  ASSUME BuildInv, PhaseInv, RunFind PROVE Later
<1> DEFINE n == Running.node
           d == find_base(tables, Running.of, ast[n].name)
<1>1. RunsCall({"find"})
  BY DEF RunFind
<1>2. n \in 1 .. Len(ast) /\ ast[n].name \in AllNames /\ Running.of \in 1 .. Len(tables)
  <2>1. /\ CallFits(Running, ast, tables) /\ Running.what = "find" /\ n \in 1 .. Len(ast)
        /\ NameFits(ast[n])
    BY <1>1, RunsOne DEF RunsCall
  <2> QED
    BY <2>1 DEF CallFits, CallKinds, NameFits
<1>3. d \in Nat /\ (d # 0 => d \in 1 .. Len(ast))
  BY <1>2, NameFound
<1>4. CASE d = 0
  BY <1>1, <1>4, StopLater DEF RunFind, Throw, RunsCall
<1>5. CASE d # 0
  <2>1. /\ types' = [types EXCEPT ![n] = types[d]] /\ CallDone /\ UNCHANGED ast
        /\ \E b \in BOOLEAN : muts' = [muts EXCEPT ![n] = b]
    <3>1. muts[d] \in BOOLEAN
      BY <1>3, <1>5 DEF BuildInv, NodesInv
    <3> QED
      BY <1>5, <3>1 DEF RunFind, SetType
  <2>2. TypesFit(Len(ast))
    <3>1. /\ types \in Seq(NodeTypes) /\ Len(types) = Len(ast) /\ n \in 1 .. Len(types)
          /\ muts \in Seq(BOOLEAN) /\ Len(muts) = Len(ast) /\ n \in 1 .. Len(muts)
      BY <1>2 DEF BuildInv, NodesInv
    <3>2. types[d] \in NodeTypes
      BY <1>3, <1>5, <3>1
    <3> HIDE DEF d, n
    <3>3. types' \in Seq(NodeTypes) /\ Len(types') = Len(ast)
      BY <2>1, <3>1, <3>2, Replaced
    <3>4. muts' \in Seq(BOOLEAN) /\ Len(muts') = Len(ast)
      BY <2>1, <3>1, Replaced
    <3> QED
      BY <3>3, <3>4 DEF TypesFit
  <2> HIDE DEF d
  <2> QED
    BY <1>1, <2>1, <2>2, SettledLater DEF RunsCall, CallDone, Settled, scopeVars
<1> QED
  BY <1>4, <1>5

LEMMA CalleeRuns ==
  ASSUME BuildInv, PhaseInv, RunCallee
  PROVE /\ Later
        /\ phase' = "resolving" => ast'[Running.node].fn # 0
        /\ \A m \in 1 .. Len(ast) : m # Running.node => ast'[m].fn = ast[m].fn
<1> DEFINE n == Running.node
           c == fnTypes[ast[n].name]
<1>1. RunsCall({"callee"}) /\ phase = "resolving"
  BY DEF RunCallee, RunsCall
<1>2. n \in 1 .. Len(ast) /\ ast[n].name \in FnNames
  <2>1. /\ CallFits(Running, ast, tables) /\ Running.what = "callee" /\ n \in 1 .. Len(ast)
        /\ NameFits(ast[n])
    BY <1>1, RunsOne DEF RunsCall
  <2> QED
    BY <2>1 DEF CallFits, CallKinds, NameFits
<1>3. c # 0 => IsNode(ast, c, "fn")
  BY <1>2 DEF BuildInv, TablesInv, FunctionsFit
<1>4. CASE c = 0
  <2>1. StopAs("threw")
    BY <1>4 DEF RunCallee, Throw
  <2> QED
    BY <1>1, <2>1, StopLater DEF StopAs, treeVars
<1>5. CASE c # 0
  <2>1. ast' = [ast EXCEPT ![n].fn = c] /\ CallDone /\ UNCHANGED << types, muts >>
    BY <1>5 DEF RunCallee
  <2>2. Called(ast, ast', n, c) /\ ast \in Seq(TreeNode)
    BY <1>2, <1>3, <1>5, <2>1, FunctionCalled DEF BuildInv, Syntax
  <2> HIDE DEF c, n
  <2>3. SyntaxKept
    BY <1>2, <1>3, <1>5, <2>1, CalleeSafe DEF BuildInv, CallDone
  <2>4. TypesFit(Len(ast))
    BY <2>1, SameTypes DEF BuildInv
  <2>5. Later
    BY <1>1, <2>1, <2>2, <2>3, <2>4 DEF Later, Called, CallDone, scopeVars
  <2>6. c \in Nat
    BY <1>3, <1>5 DEF IsNode
  <2> QED
    BY <1>5, <2>2, <2>5 DEF Called, n
<1> QED
  BY <1>4, <1>5

LEMMA CallRuns ==
  ASSUME BuildInv, PhaseInv, ResolvedInv, RunCall PROVE Later
<1> DEFINE n == Running.node
           f == ast[n].fn
<1>1. RunsCall({"call"}) /\ phase = "resolving" /\ CallDone /\ UNCHANGED << ast, muts >>
      /\ SetType(ast[f].word)
  BY DEF RunCall, RunsCall
<1>2. /\ Running.what = "call" /\ n \in 1 .. Len(ast) /\ Paired(defered, position + 1)
      /\ NodeFits(ast, n) /\ position \in Nat /\ defered[position + 1] = Running
  BY <1>1, RunsOne DEF RunsCall, Running
<1>3. IsCall(defered, position, "callee", n)
  <2>1. (position + 1) - 1 = position
    BY <1>2
  <2>2. IsCall(defered, (position + 1) - 1, "callee", n)
    BY <1>2 DEF Paired
  <2> QED
    BY <2>1, <2>2
<1>4. RunFits(position)
  BY <1>1, <1>2, <1>3 DEF ResolvedInv, Done, IsCall
<1>5. f # 0
  BY <1>3, <1>4 DEF RunFits, IsCall
<1>6. f \in 1 .. Len(ast) /\ ast[f].kind = "fn"
  BY <1>2, <1>5 DEF NodeFits, IsNode
<1>7. ast[f].word \in NodeTypes
  <2>1. NodeFits(ast, f)
    BY <1>6 DEF BuildInv, Syntax, TreeFits
  <2> QED
    BY <1>6, <2>1 DEF NodeFits
<1> QED
  BY <1>1, <1>7, RunSettled

LEMMA ResolveLater ==
  ASSUME BuildInv, PhaseInv, ResolvedInv, Resolve PROVE Later
<1>1. CASE EndParse
  <2>1. TypesFit(Len(ast)) /\ SyntaxKept
    BY <1>1, SameTypes, StopSafe DEF EndParse, treeVars, BuildInv
  <2> QED
    BY <1>1, <2>1 DEF EndParse, treeVars, Later, Outer
<1> QED
  BY <1>1, TypesRun, FindRuns, CalleeRuns, CallRuns DEF Resolve

(* What the steps of the loop over the calls have in common.               *)
LEMMA ResolveSteps ==
  ASSUME Resolve
  PROVE /\ phase = "resolving"
        /\ \/ phase' \in {"threw", "undefined"} /\ position' = position
           \/ phase' = "resolving" /\ position < Len(defered) /\ position' = position + 1
           \/ phase' = "checking" /\ EndParse
        /\ ~RunFind => muts' = muts
        /\ ~RunCallee => ast' = ast
BY DEF Resolve, RunParseType, RunLiteral, RunFind, RunBinary, RunLetOrAssign, RunCallee,
       RunCall, EndParse, RunsCall, CallDone, StopAs, Throw, treeVars

LEMMA ResolveFlags ==
  ASSUME BuildInv, PhaseInv, Resolve
  PROVE /\ \A m \in 1 .. Len(ast) : ast[m].fn # 0 => ast'[m].fn # 0
        /\ \A m \in 1 .. Len(ast) :
             m # Running.node \/ ~RunFind => muts'[m] = muts[m]
<1>1. ASSUME NEW m \in 1 .. Len(ast), ast[m].fn # 0 PROVE ast'[m].fn # 0
  <2>1. CASE RunCallee
    <3>1. phase' = "resolving" \/ ast' = ast
      BY <2>1 DEF RunCallee, Throw, StopAs, treeVars, CallDone, RunsCall
    <3> QED
      BY <1>1, <2>1, <3>1, CalleeRuns
  <2> QED
    BY <1>1, <2>1, ResolveSteps
<1>2. ASSUME NEW m \in 1 .. Len(ast), m # Running.node \/ ~RunFind PROVE muts'[m] = muts[m]
  <2>1. CASE RunFind
    <3>1. muts' = muts \/ \E b : muts' = [muts EXCEPT ![Running.node] = b]
      BY <2>1 DEF RunFind, Throw, StopAs, treeVars
    <3>2. muts \in Seq(BOOLEAN) /\ m \in 1 .. Len(muts)
      BY DEF BuildInv, NodesInv
    <3> QED
      BY <1>2, <2>1, <3>1, <3>2
  <2> QED
    BY <2>1, ResolveSteps
<1> QED
  BY <1>1, <1>2

(* What was found remains found.                                           *)
LEMMA RunKept ==
  ASSUME BuildInv, PhaseInv, ResolvedInv, Resolve, NEW i \in 1 .. Len(defered), i <= position,
         i # position + 1 \/ ~RunFind, position < Len(defered)
  PROVE RunFits(i)'
<1> DEFINE n == defered[i].node
<1>1. phase = "resolving" /\ Done(i) /\ RunFits(i)
  BY ResolveSteps DEF Done, ResolvedInv
<1>2. Later /\ Extends(ast, ast') /\ tables' = tables /\ defered' = defered /\ Len(ast') = Len(ast)
  BY ResolveLater DEF Later, SyntaxKept
<1>3. n \in 1 .. Len(ast) /\ CallFits(defered[i], ast, tables)
  BY DEF BuildInv, CallsInv, CallFits
<1>4. ast'[n].name = ast[n].name
  BY <1>2, <1>3 DEF Extends
<1>5. Meant(i)' = Meant(i)
  BY <1>2, <1>4 DEF Meant
<1>6. position + 1 \in 1 .. Len(defered) /\ position \in Nat /\ defered[position + 1] = Running
  BY <1>1, RunsOne DEF Running
<1>7. defered[i].what = "find" /\ RunFind => n # Running.node
  <2>1. RunFind => IsCall(defered, position + 1, "find", Running.node)
    BY <1>6 DEF RunFind, RunsCall, IsCall
  <2>2. defered[i].what = "find" => IsCall(defered, i, "find", n)
    BY DEF IsCall
  <2>3. i # position + 1
    BY <1>6
  <2>4. \A k, j, m : IsCall(defered, k, "find", m) /\ IsCall(defered, j, "find", m) => k = j
    BY DEF BuildInv, CallsInv
  <2> QED
    BY <2>1, <2>2, <2>3, <2>4
<1>8. RunFind => ast[Running.node].kind = "identifier"
  BY <1>1, <1>6, RunsOne DEF RunFind, RunsCall, CallFits, CallKinds
<1>9. ASSUME defered[i].what = "find"
      PROVE /\ Meant(i) \in 1 .. Len(ast')
            /\ ast'[Meant(i)].kind = "let" => muts'[n] = muts'[Meant(i)]
  <2>1. Meant(i) \in 1 .. Len(ast) /\ (ast[Meant(i)].kind = "let" => muts[n] = muts[Meant(i)])
    BY <1>1, <1>9 DEF RunFits
  <2>2. ast'[Meant(i)].kind = ast[Meant(i)].kind
    BY <1>2, <2>1 DEF Extends
  <2>3. muts'[n] = muts[n]
    BY <1>3, <1>7, <1>9, ResolveFlags
  <2>4. ast[Meant(i)].kind = "let" => muts'[Meant(i)] = muts[Meant(i)]
    BY <1>8, <2>1, ResolveFlags
  <2> QED
    BY <1>2, <2>1, <2>2, <2>3, <2>4
<1>10. defered[i].what = "callee" => ast'[n].fn # 0
  BY <1>1, <1>3, ResolveFlags DEF RunFits
<1> QED
  BY <1>2, <1>5, <1>9, <1>10 DEF RunFits

LEMMA FindFits ==
  ASSUME BuildInv, PhaseInv, RunFind, phase' = "resolving", NEW i, i = position + 1
  PROVE RunFits(i)'
<1> DEFINE n == Running.node
           d == Meant(i)
<1>1. /\ i \in 1 .. Len(defered) /\ defered[i] = Running /\ n \in 1 .. Len(ast)
      /\ CallFits(Running, ast, tables) /\ NameFits(ast[n]) /\ Running.what = "find"
  BY RunsOne DEF RunFind, RunsCall, Running
<1>2. ast[n].kind = "identifier" /\ ast[n].name \in AllNames /\ Running.of \in 1 .. Len(tables)
  BY <1>1 DEF CallFits, CallKinds, NameFits
<1>3. d \in Nat /\ (d # 0 => d \in 1 .. Len(ast))
  BY <1>1, <1>2, NameFound DEF Meant
<1>4. d # 0
  BY <1>1 DEF RunFind, Meant, Throw, StopAs
<1>5. /\ ast' = ast /\ tables' = tables /\ defered' = defered
      /\ \E b : muts' = [muts EXCEPT ![n] = b] /\ (ast[d].kind = "let" => b = muts[d])
  BY <1>1, <1>4 DEF RunFind, Meant, CallDone, scopeVars
<1>6. muts \in Seq(BOOLEAN) /\ n \in 1 .. Len(muts) /\ d \in 1 .. Len(muts)
  BY <1>1, <1>3, <1>4 DEF BuildInv, NodesInv
<1>7. ast[d].kind = "let" => muts'[n] = muts'[d]
  <2>1. ast[d].kind = "let" => d # n
    BY <1>2
  <2> HIDE DEF d, n
  <2> QED
    BY <1>5, <1>6, <2>1
<1>8. Meant(i)' = d /\ defered'[i] = Running
  BY <1>1, <1>5 DEF Meant
<1> HIDE DEF d
<1> QED
  BY <1>1, <1>3, <1>4, <1>5, <1>7, <1>8 DEF RunFits

LEMMA ResolveResolved ==
  ASSUME BuildInv, PhaseInv, ResolvedInv, Resolve PROVE ResolvedInv'
<1> SUFFICES ASSUME NEW i \in 1 .. Len(defered'), Done(i)' PROVE RunFits(i)'
  BY DEF ResolvedInv
<1>1. /\ defered' = defered /\ phase = "resolving" /\ position \in Nat
      /\ defered \in Seq(DeferedCall)
  BY ResolveLater, ResolveSteps DEF Later, PhaseInv, BuildInv, CallsInv
<1>2. CASE phase' = "resolving" /\ position < Len(defered) /\ position' = position + 1
  <2>1. i <= position + 1
    BY <1>2 DEF Done, Resolved
  <2>2. CASE i <= position
    <3>1. i # position + 1
      BY <1>1, <2>2
    <3> QED
      BY <1>1, <1>2, <2>2, <3>1, RunKept
  <2>3. CASE i = position + 1
    <3>1. CASE RunFind
      BY <1>2, <2>3, <3>1, FindFits
    <3>2. CASE RunCallee
      <4>1. Running.node = defered[i].node /\ defered[i].what # "find"
        BY <2>3, <3>2 DEF RunCallee, RunsCall, Running
      <4> QED
        BY <1>1, <1>2, <3>2, <4>1, CalleeRuns DEF RunFits
    <3>3. CASE ~RunFind /\ ~RunCallee
      <4>1. defered[i].what \notin {"find", "callee"}
        BY <1>2, <2>3, <3>3 DEF Resolve, RunParseType, RunLiteral, RunBinary, RunLetOrAssign,
           RunCall, EndParse, RunsCall, Running
      <4> QED
        BY <1>1, <4>1 DEF RunFits
    <3> QED
      BY <3>1, <3>2, <3>3
  <2> QED
    BY <1>1, <2>1, <2>2, <2>3
<1>3. CASE phase' = "checking" /\ EndParse
  <2>1. /\ position = Len(defered) /\ ast' = ast /\ muts' = muts /\ tables' = tables
    BY <1>3 DEF EndParse, treeVars
  <2>2. i <= position
    BY <1>1, <2>1
  <2>3. RunFits(i)
    BY <1>1, <2>2 DEF ResolvedInv, Done
  <2> QED
    BY <1>1, <2>1, <2>3 DEF RunFits, Meant
<1>4. phase' \notin {"threw", "undefined"}
  BY DEF Done, Resolved
<1> QED
  BY <1>2, <1>3, <1>4, ResolveSteps

LEMMA ParseBuild == ASSUME BuildInv, Parse PROVE BuildInv'
BY ParseSafe, ParseNodes, ParseTrailInv, ParseTables, ParseExplicit, ParseCalls
   DEF BuildInv, SyntaxKept

LEMMA ParseResolved == ASSUME Parse, PhaseInv PROVE ResolvedInv'
<1>1. /\ phase = "parsing" /\ phase' \in {"parsing", "resolving", "threw"} /\ position = 0
      /\ phase' = "resolving" => EndOfFile
  BY ParsesWhen DEF PhaseInv, Parse, BeginFunction, ParseFunction, EndFunction, BeginCall,
     ParseArgument, EndArgument, ParseOperator, ParseAssignment, EndExpression, BeginExplicit,
     BeginInferred, BeginRet, BeginIf, ParseIfBody, BeginExprStatement, Throw, StopAs,
     ParseInteger, ParseOtherLiteral, ParseIdentifier, EndCall, EndInfix, EndVarDecl, EndRet,
     EndIf
<1>2. \A i \in 1 .. Len(defered') : ~Done(i)'
  BY <1>1 DEF EndOfFile, Done, Resolved
<1> QED
  BY <1>2 DEF ResolvedInv

-----------------------------------------------------------------------------
(* The type checker.                                                       *)

Visits ==
  /\ phase = "checking" /\ position < Len(trail)
  /\ UNCHANGED << ast, muts, trail, scopeVars, defered, parserVars, addrTables >>
  /\ (UsesNull /\ types' = types) \/ \E count \in Nat : Report(count)

LEMMA ArgumentErrors ==
  ASSUME ast \in Seq(TreeNode), Subject \in TreeNode, NEW f, ast[f] \in TreeNode, Subject.fn = f
  PROVE /\ CheckedArgs \subseteq Nat
        /\ \A S : S \subseteq CheckedArgs => Cardinality(S) \in Nat /\ (Cardinality(S) = 0 => S = {})
<1>1. Len(Subject.kids) \in Nat /\ Len(ast[f].kids) \in Nat
  BY DEF TreeNode
<1>2. PICK k \in Nat : CheckedArgs = 1 .. k
  BY <1>1 DEF CheckedArgs
<1>3. IsFiniteSet(CheckedArgs)
  BY <1>2, FS_Interval
<1> QED
  BY <1>2, <1>3, FS_Subset, FS_CardinalityType, FS_EmptySet

LEMMA SubjectFits ==
  ASSUME BuildInv, PhaseInv, position < Len(trail)
  PROVE /\ position + 1 \in 1 .. Len(trail) /\ Visited = trail[position + 1]
        /\ StepFits(Visited) /\ Visited.node \in 1 .. Len(ast) /\ Subject = ast[Visited.node]
        /\ Subject \in TreeNode /\ NodeFits(ast, Visited.node) /\ KidsFit(ast, Visited.node)
<1>1. position + 1 \in 1 .. Len(trail)
  <2>1. position \in Nat /\ Len(trail) \in Nat
    BY DEF PhaseInv, BuildInv, TrailInv
  <2> QED
    BY <2>1
<1>2. StepFits(Visited) /\ Visited = trail[position + 1]
  BY <1>1 DEF Visited, BuildInv, TrailInv
<1>3. Visited.node \in 1 .. Len(ast)
  BY <1>2 DEF StepFits
<1> QED
  BY <1>1, <1>2, <1>3, NodesTyped DEF BuildInv, Syntax, TreeFits, NodeFits, Subject

(* Every call that was parsed has its function.                            *)
LEMMA FunctionsKnown ==
  ASSUME BuildInv, PhaseInv, ResolvedInv, Resolved, agenda = << >>,
         NEW n \in 1 .. Len(ast), ast[n].kind = "call"
  PROVE IsNode(ast, ast[n].fn, "fn")
<1>1. ~HeldAs(agenda, "call", n)
  BY DEF HeldAs
<1>2. PICK i : IsCall(defered, i, "callee", n)
  BY <1>1 DEF BuildInv, CallsInv
<1>3. ast[n].fn # 0
  BY <1>2 DEF ResolvedInv, Done, RunFits, IsCall
<1> QED
  BY <1>3 DEF BuildInv, Syntax, TreeFits, NodeFits

LEMMA CheckVisits ==
  ASSUME BuildInv, PhaseInv, ResolvedInv, Check PROVE Visits \/ EndCheck
<1>1. CASE CheckNothing
  BY <1>1 DEF CheckNothing, Passes, Visits, checkerRest
<1>2. CASE CheckBinary
  BY <1>2 DEF CheckBinary, Checks, Unless, Visits, checkerRest, UsesNull, StopAs, treeVars
<1>3. CASE CheckAssign
  <2>1. AssignErrors \in Nat
    BY DEF AssignErrors
  <2> QED
    BY <1>3, <2>1 DEF CheckAssign, Checks, Visits, checkerRest, UsesNull, StopAs, treeVars
<1>4. CASE CheckVarDecl
  BY <1>4 DEF CheckVarDecl, Checks, Unless, Visits, checkerRest, UsesNull, StopAs, treeVars
<1>5. CASE CheckRet
  BY <1>5 DEF CheckRet, Checks, Unless, Visits, checkerRest, UsesNull, StopAs, treeVars
<1>6. CASE CheckIf
  BY <1>6 DEF CheckIf, Checks, Unless, Visits, checkerRest, UsesNull, StopAs, treeVars
<1>7. CASE CheckCall
  <2> DEFINE count == Cardinality({i \in CheckedArgs : ~Fits(Kid(i), Target(i))})
                      + (IF Len(Subject.kids) = Len(ast[Subject.fn].kids) THEN 0 ELSE 1)
  <2>1. phase = "checking" /\ position < Len(trail) /\ Subject.kind = "call"
    BY <1>7 DEF CheckCall, Checks
  <2>2. IsNode(ast, Subject.fn, "fn")
    BY <2>1, SubjectFits, FunctionsKnown DEF Resolved, PhaseInv
  <2>3. ast \in Seq(TreeNode) /\ Subject \in TreeNode /\ ast[Subject.fn] \in TreeNode
    BY <2>1, <2>2, SubjectFits, NodesTyped DEF BuildInv, Syntax, IsNode
  <2>4. count \in Nat
    <3>1. Cardinality({i \in CheckedArgs : ~Fits(Kid(i), Target(i))}) \in Nat
      BY <2>3, ArgumentErrors
    <3> QED
      BY <3>1
  <2>5. UsesNull \/ (Report(count) /\ UNCHANGED checkerRest)
    <3>1. CASE \E i \in CheckedArgs : types[Kid(i)] = "null"
      BY <1>7, <3>1, Zenon DEF CheckCall
    <3>2. CASE ~\E i \in CheckedArgs : types[Kid(i)] = "null"
      BY <1>7, <3>2, Zenon DEF CheckCall
    <3> QED
      BY <3>1, <3>2
  <2> HIDE DEF count
  <2>6. UsesNull => UNCHANGED checkerRest /\ types' = types
    BY DEF UsesNull, StopAs, treeVars, checkerRest
  <2> QED
    BY <1>7, <2>1, <2>4, <2>5, <2>6 DEF Visits, checkerRest
<1> QED
  BY <1>1, <1>2, <1>3, <1>4, <1>5, <1>6, <1>7 DEF Check

(* What follows a visit, and the last one.                                 *)
LEMMA CheckSteps ==
  ASSUME BuildInv, PhaseInv, Visits \/ EndCheck
  PROVE /\ phase = "checking"
        /\ UNCHANGED << ast, muts, trail, scopeVars, defered, parserVars, addrTables >>
        /\ position' \in Nat /\ errors' \in Nat
        /\ \/ phase' = "undefined" \/ phase' = "threw"
           \/ /\ phase' = "checking" /\ position < Len(trail) /\ position' = position + 1
              /\ errors' = 0 => errors = 0 /\ Report(0)
           \/ /\ EndCheck /\ phase' = "generating" /\ position' = 0
              /\ errors = 0 /\ errors' = errors
<1>1. position \in Nat /\ errors \in Nat
  BY DEF PhaseInv
<1>2. CASE EndCheck
  BY <1>1, <1>2 DEF EndCheck, checkerRest
<1>3. CASE Visits /\ UsesNull
  BY <1>1, <1>3 DEF Visits, UsesNull, StopAs
<1>4. ASSUME Visits, NEW count \in Nat, Report(count)
      PROVE /\ position' \in Nat /\ errors' \in Nat
            /\ phase' = "threw" \/ (phase' = "checking" /\ position' = position + 1)
            /\ errors' = 0 => errors = 0 /\ Report(0)
  <2>1. \A e, c \in Nat : e + c \in Nat /\ (e + c = 0 => e = 0 /\ c = 0)
    OBVIOUS
  <2>2. errors' = errors + count /\ position + 1 \in Nat
    BY <1>1, <1>4 DEF Report
  <2>3. errors' \in Nat /\ (errors' = 0 => errors = 0 /\ count = 0)
    BY <1>1, <2>1, <2>2
  <2>4. \/ phase' = "threw" /\ position' = position
        \/ phase' = phase /\ position' = position + 1
    BY <1>4 DEF Report
  <2>5. errors' = 0 => Report(0)
    BY <1>4, <2>3
  <2> QED
    BY <1>1, <1>4, <2>2, <2>3, <2>4, <2>5 DEF Visits
<1> QED
  BY <1>2, <1>3, <1>4 DEF Visits

LEMMA RetypedFits ==
  ASSUME NodesInv, NEW n \in 1 .. Len(ast), NEW t PROVE Retyped(n, t) \in NodeTypes
<1>1. types[n] \in NodeTypes
  BY DEF NodesInv
<1> QED
  BY <1>1, TypesKnown DEF Retyped, Converts

LEMMA OnlyKid ==
  ASSUME BuildInv, PhaseInv, position < Len(trail), Visited.step = "leave",
         Subject.kind \in {"ret", "let", "if", "binary", "assign"}
  PROVE Kid(1) \in 1 .. Len(ast) /\ (Subject.kind \in {"binary", "assign"} => Kid(2) \in 1 .. Len(ast))
<1>1. Complete(ast, Visited.node) /\ Subject = ast[Visited.node] /\ KidsFit(ast, Visited.node)
  BY SubjectFits DEF StepFits
<1>2. /\ 1 \in 1 .. Len(Subject.kids)
      /\ Subject.kind \in {"binary", "assign"} => 2 \in 1 .. Len(Subject.kids)
  BY <1>1, FewKids DEF Complete
<1> QED
  BY <1>1, <1>2 DEF KidsFit, Kid

LEMMA CheckTypes ==
  ASSUME BuildInv, PhaseInv, Check PROVE types' \in Seq(NodeTypes) /\ Len(types') = Len(ast)
<1>1. types \in Seq(NodeTypes) /\ Len(types) = Len(ast) /\ Len(ast) \in Nat
  BY DEF BuildInv, NodesInv, Syntax
<1>2. CASE CheckRet
  <2>1. CASE types[Kid(1)] = "null"
    BY <1>1, <1>2, <2>1 DEF CheckRet, UsesNull, StopAs, treeVars
  <2>2. CASE types[Kid(1)] # "null"
    <3> DEFINE k == Kid(1)
               t == Retyped(k, ast[Subject.fn].word)
    <3>1. types' = [types EXCEPT ![k] = t]
      BY <1>2, <2>2 DEF CheckRet
    <3>2. k \in 1 .. Len(types)
      BY <1>1, <1>2, OnlyKid DEF CheckRet, Checks, IsChecked
    <3>3. t \in NodeTypes
      BY <1>1, <3>2, RetypedFits DEF BuildInv
    <3> HIDE DEF k, t
    <3> QED
      BY <1>1, <3>1, <3>2, <3>3, Replaced
  <2> QED
    BY <2>1, <2>2
<1>3. CASE CheckCall
  <2>1. CASE \E i \in CheckedArgs : types[Kid(i)] = "null"
    <3>1. UsesNull
      BY <1>3, <2>1, Zenon DEF CheckCall
    <3> QED
      BY <1>1, <3>1 DEF UsesNull, StopAs, treeVars
  <2>2. CASE ~\E i \in CheckedArgs : types[Kid(i)] = "null"
    <3> DEFINE t(n) == IF \E i \in CheckedArgs : Kid(i) = n
                       THEN Retyped(n, Target(CHOOSE i \in CheckedArgs : Kid(i) = n))
                       ELSE types[n]
    <3>1. types' = [n \in 1 .. Len(types) |-> t(n)]
      BY <1>3, <2>2, Zenon DEF CheckCall
    <3>2. \A n \in 1 .. Len(types) : t(n) \in NodeTypes
      BY <1>1, RetypedFits DEF BuildInv
    <3> HIDE DEF t
    <3> QED
      BY <1>1, <3>1, <3>2
  <2> QED
    BY <2>1, <2>2
<1>4. CASE ~CheckRet /\ ~CheckCall
  <2>1. types' = types
    BY <1>4 DEF Check, CheckNothing, CheckBinary, CheckAssign, CheckVarDecl, CheckIf, EndCheck,
       UsesNull, StopAs, treeVars
  <2> QED
    BY <1>1, <2>1
<1> QED
  BY <1>2, <1>3, <1>4

LEMMA CheckLater ==
  ASSUME BuildInv, PhaseInv, ResolvedInv, Check
  PROVE /\ Later /\ UNCHANGED << ast, muts, tables, defered >>
        /\ phase = "checking" /\ phase' \in {"checking", "generating", "threw", "undefined"}
<1>1. /\ phase = "checking" /\ phase' \in {"checking", "generating", "threw", "undefined"}
      /\ UNCHANGED << ast, muts, trail, scopeVars, defered, parserVars, addrTables >>
  BY CheckVisits, CheckSteps
<1>2. TypesFit(Len(ast))
  BY <1>1, CheckTypes DEF TypesFit, BuildInv, NodesInv
<1>3. Later
  BY <1>1, <1>2, SettledLater DEF Settled, scopeVars
<1> QED
  BY <1>1, <1>3 DEF scopeVars

-----------------------------------------------------------------------------
(* The code generator, and the end.                                        *)

LEMMA GenerateSteps ==
  ASSUME Generate
  PROVE /\ phase = "generating"
        /\ UNCHANGED << treeVars, scopeVars, defered, parserVars, errors >>
        /\ \/ phase' \in {"done", "aborted"} /\ position' = position
           \/ phase' = "generating" /\ position < Len(trail) /\ position' = position + 1
BY DEF Generate, PushAddrTable, PopAddrTable, AddAddrEntry, FindAddrEntry, GenerateOther,
   EndGenerate, Generates, StopAs, generatorRest

LEMMA GenerateLater ==
  ASSUME BuildInv, Generate \/ (UNCHANGED vars /\ phase # "parsing") PROVE Later
<1>1. /\ phase # "parsing" /\ phase' # "parsing" /\ (phase' = "resolving" => phase = "resolving")
      /\ UNCHANGED << treeVars, scopeVars, defered, parserVars >>
  BY GenerateSteps DEF vars, parserState, treeVars, scopeVars, parserVars
<1>2. TypesFit(Len(ast))
  BY <1>1, SameTypes DEF BuildInv, treeVars
<1> QED
  BY <1>1, <1>2, SettledLater DEF Settled, scopeVars, treeVars

-----------------------------------------------------------------------------
(* The parts of the invariant together.                                    *)

LEMMA StepCases ==
  ASSUME [FrontNext]_vars
  PROVE \/ Parse /\ UNCHANGED << errors, addrTables >>
        \/ Resolve /\ UNCHANGED << errors, addrTables >>
        \/ Check \/ Generate \/ UNCHANGED vars
BY DEF FrontNext, Terminated

LEMMA BuildStep ==
  ASSUME BuildInv, PhaseInv, ResolvedInv, [FrontNext]_vars PROVE BuildInv'
<1>1. CASE UNCHANGED vars /\ phase = "parsing"
  <2>1. UNCHANGED << phase, ast, types, muts, trail, tables, currentScope, fnTypes, defered,
                     explicitTypes, token, agenda, value >>
    BY <1>1 DEF vars, parserState
  <2> QED
    BY <2>1 DEF BuildInv, Syntax, NodesInv, TrailInv, StepFits, TablesInv, ScopesInv,
       ExplicitInv, CallsInv
<1>2. CASE Parse
  BY <1>2, ParseBuild
<1>3. CASE Resolve
  BY <1>3, ResolveLater, LaterKeeps
<1>4. CASE Check
  BY <1>4, CheckLater, LaterKeeps
<1>5. CASE Generate \/ (UNCHANGED vars /\ phase # "parsing")
  BY <1>5, GenerateLater, LaterKeeps
<1> QED
  BY <1>1, <1>2, <1>3, <1>4, <1>5, StepCases

LEMMA ResolvedStep ==
  ASSUME BuildInv, PhaseInv, ResolvedInv, [FrontNext]_vars PROVE ResolvedInv'
<1>1. CASE Parse
  BY <1>1, ParseResolved
<1>2. CASE Resolve
  BY <1>2, ResolveResolved
<1>3. CASE Check \/ Generate \/ UNCHANGED vars
  <2>1. /\ UNCHANGED << ast, muts, tables, defered >>
        /\ UNCHANGED << phase, position >> \/ (phase' # "resolving" /\ phase \in {"checking", "generating"})
    BY <1>3, CheckLater, GenerateSteps DEF vars, parserState, treeVars, scopeVars
  <2>2. ASSUME NEW i \in 1 .. Len(defered), Done(i)' PROVE Done(i)
    BY <2>1, <2>2 DEF Done, Resolved
  <2> QED
    BY <2>1, <2>2 DEF ResolvedInv, RunFits, Meant
<1> QED
  BY <1>1, <1>2, <1>3, StepCases

LEMMA PhaseStep ==
  ASSUME BuildInv, PhaseInv, ResolvedInv, [FrontNext]_vars PROVE PhaseInv'
<1>1. /\ position \in Nat /\ errors \in Nat /\ Len(trail) \in Nat /\ Len(defered) \in Nat
  BY DEF PhaseInv, BuildInv, TrailInv, CallsInv
<1>2. CASE Parse /\ UNCHANGED << errors, addrTables >>
  <2>1. /\ phase = "parsing" /\ phase' \in {"parsing", "resolving", "threw"} /\ position = 0
        /\ position' = position /\ errors = 0 /\ errors' = errors
        /\ phase' = "resolving" => EndOfFile
    BY <1>2, ParsesWhen DEF PhaseInv, Parse, BeginFunction, ParseFunction, EndFunction, BeginCall,
       ParseArgument, EndArgument, ParseOperator, ParseAssignment, EndExpression, BeginExplicit,
       BeginInferred, BeginRet, BeginIf, ParseIfBody, BeginExprStatement, Throw, StopAs,
       ParseInteger, ParseOtherLiteral, ParseIdentifier, EndCall, EndInfix, EndVarDecl, EndRet,
       EndIf, EndOfFile
  <2>2. EndOfFile => agenda' = << >> /\ defered' = defered
    BY DEF EndOfFile, parserVars
  <2> QED
    BY <1>1, <2>1, <2>2 DEF PhaseInv
<1>3. CASE Resolve /\ UNCHANGED << errors, addrTables >>
  <2>1. /\ phase = "resolving" /\ agenda' = agenda /\ defered' = defered /\ trail' = trail
    BY <1>3, ResolveSteps, ResolveLater DEF Later, parserVars
  <2>2. EndParse => position' = 0
    BY DEF EndParse
  <2> QED
    BY <1>1, <1>3, <2>1, <2>2, ResolveSteps DEF PhaseInv
<1>4. CASE Check
  <2>1. trail' = trail /\ agenda' = agenda
    BY <1>4, CheckVisits, CheckSteps DEF parserVars
  <2> QED
    BY <1>1, <1>4, <2>1, CheckVisits, CheckSteps DEF PhaseInv
<1>5. CASE Generate
  <2>1. trail' = trail /\ agenda' = agenda
    BY <1>5, GenerateSteps DEF parserVars, treeVars
  <2> QED
    BY <1>1, <1>5, <2>1, GenerateSteps DEF PhaseInv
<1>6. CASE UNCHANGED vars
  BY <1>6 DEF PhaseInv, vars, parserState
<1> QED
  BY <1>2, <1>3, <1>4, <1>5, <1>6, StepCases

LEMMA BuildInit == FrontInit => BuildInv /\ PhaseInv /\ ResolvedInv
<1> SUFFICES ASSUME FrontInit PROVE BuildInv /\ PhaseInv /\ ResolvedInv
  OBVIOUS
<1>1. /\ phase = "parsing" /\ ast = << >> /\ types = << >> /\ muts = << >> /\ trail = << >>
      /\ tables = << EmptyTable(0, AllNames) >> /\ currentScope = 1
      /\ fnTypes = [f \in FnNames |-> 0] /\ defered = << >> /\ explicitTypes = << >>
      /\ token = "none" /\ agenda = << >> /\ value = 0 /\ position = 0 /\ errors = 0
  BY DEF FrontInit, Init
<1>2. Syntax
  <2>1. ast \in Seq(TreeNode) /\ agenda \in Seq(Item) /\ Len(ast) = 0 /\ Len(agenda) = 0
    BY <1>1
  <2>2. TreeFits(ast)
    BY <2>1 DEF TreeFits, Tree, IsKid
  <2>3. AgendaFits(agenda, ast)
    BY <1>1, <2>1 DEF AgendaFits
  <2> QED
    BY <1>1, <2>1, <2>2, <2>3 DEF Syntax, ValueFits
<1>3. NodesInv /\ TrailInv /\ ExplicitInv /\ CallsInv
  BY <1>1 DEF NodesInv, TrailInv, ExplicitInv, ExplicitFits, HeldAs, CallsInv, IsCall
<1>4. TablesInv
  <2> DEFINE x == EmptyTable(0, AllNames)
  <2>1. x \in Table /\ TableFits(ast, x, 1)
    BY EmptyTables
  <2> HIDE DEF x
  <2>2. << x >> \in Seq(Table) /\ Len(<< x >>) = 1 /\ << x >>[1] = x
    BY <2>1
  <2>3. TablesFit(ast, tables)
    BY <1>1, <2>1, <2>2 DEF TablesFit, x
  <2> QED
    BY <1>1, <2>3 DEF TablesInv, FunctionsFit
<1>5. ScopesInv
  <2>1. Len(tables) = 1 /\ Len(agenda) = 0
    BY <1>1
  <2>2. << 1 >> \in Seq(Nat) /\ Len(<< 1 >>) = 1 /\ << 1 >>[1] = 1
    OBVIOUS
  <2>3. ScopesFit(<< 1 >>, agenda, tables, currentScope)
    BY <1>1, <2>1, <2>2 DEF ScopesFit
  <2> QED
    BY <1>1, <2>1, <2>3 DEF ScopesInv
<1>6. PhaseInv /\ ResolvedInv
  BY <1>1 DEF PhaseInv, ResolvedInv
<1> QED
  BY <1>2, <1>3, <1>4, <1>5, <1>6 DEF BuildInv

-----------------------------------------------------------------------------
(* What the checker has accepted.                                          *)

AssignFits(n) ==
  ast[n].kind = "assign" /\ ast[Binding(ast[n].kids[1])].kind = "let" =>
    muts[Binding(ast[n].kids[1])]

TypesAgree(n) ==
  LET kids == ast[n].kids IN
  /\ ast[n].kind \in {"binary", "assign"} =>
       TypeId(types[kids[1]]) = TypeId(types[kids[2]])
  /\ ast[n].kind = "let" => types[n] = types[kids[1]]
  /\ ast[n].kind = "if" => types[kids[1]] = "bool"
  /\ ast[n].kind = "ret" => types[kids[1]] = ast[ast[n].fn].word
  /\ ast[n].kind = "call" =>
       LET parameters == ast[ast[n].fn].kids IN
         /\ Len(kids) = Len(parameters)
         /\ \A i \in 1 .. Len(kids) : types[kids[i]] = types[parameters[i]]

LEMMA TypedParts == ASSUME NEW n PROVE TypedNode(n) <=> AssignFits(n) /\ TypesAgree(n)
BY DEF TypedNode, AssignFits, TypesAgree

LEMMA AssignKept ==
  ASSUME UNCHANGED << ast, muts, tables, defered >>, NEW n, AssignFits(n) PROVE AssignFits(n)'
BY DEF AssignFits, Binding, LookedUpIn

LEMMA TypedKept ==
  ASSUME UNCHANGED << ast, types, muts, tables, defered >>, NEW n, TypedNode(n)
  PROVE TypedNode(n)'
<1>1. TypesAgree(n)'
  BY TypedParts DEF TypesAgree
<1>2. AssignFits(n)'
  BY TypedParts, AssignKept
<1> QED
  BY <1>1, <1>2 DEF TypedNode, AssignFits, TypesAgree

(* Only literals that are kids of m get another type.                      *)
Retypes(m) ==
  \A n \in 1 .. Len(ast) :
    types'[n] = types[n] \/ (ast[n].kind = "literal" /\ \E i : IsKid(ast, n, m, i))

LEMMA OthersAgree ==
  ASSUME BuildInv, PhaseInv, ResolvedInv, Resolved, agenda = << >>, ast' = ast,
         NEW m, Retypes(m), NEW n \in 1 .. Len(ast), n # m, Complete(ast, n), TypesAgree(n)
  PROVE TypesAgree(n)'
<1>1. KidsFit(ast, n) /\ Tree(ast)
  BY DEF BuildInv, Syntax, TreeFits, NodeFits
<1>2. ASSUME NEW i \in 1 .. Len(ast[n].kids) PROVE types'[ast[n].kids[i]] = types[ast[n].kids[i]]
  <2>1. ast[n].kids[i] \in 1 .. Len(ast) /\ IsKid(ast, ast[n].kids[i], n, i)
    BY <1>1 DEF KidsFit, IsKid
  <2>2. ASSUME NEW j PROVE ~IsKid(ast, ast[n].kids[i], m, j)
    BY <1>1, <2>1 DEF Tree
  <2> QED
    BY <2>1, <2>2 DEF Retypes
<1>3. ast[n].kind # "literal" => types'[n] = types[n]
  BY DEF Retypes
<1>4. /\ ast[n].kind \in {"binary", "assign"} => 1 \in 1 .. Len(ast[n].kids) /\ 2 \in 1 .. Len(ast[n].kids)
      /\ ast[n].kind \in {"let", "ret", "if"} => 1 \in 1 .. Len(ast[n].kids)
  BY FewKids DEF Complete
<1>5. ASSUME ast[n].kind = "call", NEW i \in 1 .. Len(ast[ast[n].fn].kids)
      PROVE types'[ast[ast[n].fn].kids[i]] = types[ast[ast[n].fn].kids[i]]
  <2>1. IsNode(ast, ast[n].fn, "fn")
    BY <1>5, FunctionsKnown
  <2>2. KidsFit(ast, ast[n].fn)
    BY <2>1 DEF IsNode, BuildInv, Syntax, TreeFits, NodeFits
  <2>3. ast[ast[n].fn].kids[i] \in 1 .. Len(ast) /\ ast[ast[ast[n].fn].kids[i]].kind = "arg"
    BY <2>1, <2>2 DEF KidsFit, IsNode
  <2> QED
    BY <2>3 DEF Retypes
<1> QED
  BY <1>2, <1>3, <1>4, <1>5 DEF TypesAgree

(* What a name is bound to is what was found for it.                       *)
LEMMA BindingFound ==
  ASSUME BuildInv, NEW i, NEW n, IsCall(defered, i, "find", n) PROVE Binding(n) = Meant(i)
<1> DEFINE S == {defered[k] : k \in 1 .. Len(defered)}
           d == CHOOSE d \in S : d.what = "find" /\ d.node = n
<1>1. defered[i] \in S /\ defered[i].what = "find" /\ defered[i].node = n
  BY DEF IsCall
<1>2. d \in S /\ d.what = "find" /\ d.node = n
  BY <1>1
<1>3. d = defered[i]
  <2>1. PICK k \in 1 .. Len(defered) : d = defered[k]
    BY <1>2
  <2>2. IsCall(defered, k, "find", n)
    BY <1>2, <2>1 DEF IsCall
  <2>3. k = i
    BY <2>2 DEF BuildInv, CallsInv
  <2> QED
    BY <2>1, <2>3
<1>4. Binding(n) = find_base(tables, d.of, ast[n].name)
  BY DEF Binding, LookedUpIn
<1> QED
  BY <1>1, <1>3, <1>4 DEF Meant

LEMMA MutsBound ==
  ASSUME BuildInv, ResolvedInv, Resolved, NEW n \in 1 .. Len(ast), ast[n].kind = "identifier"
  PROVE ast[Binding(n)].kind = "let" => muts[n] = muts[Binding(n)]
<1>1. PICK i : IsCall(defered, i, "find", n)
  BY DEF BuildInv, CallsInv
<1>2. Binding(n) = Meant(i)
  BY <1>1, BindingFound
<1>3. RunFits(i)
  BY <1>1 DEF ResolvedInv, Done, IsCall
<1> QED
  BY <1>1, <1>2, <1>3 DEF RunFits, IsCall

(* A check that reports nothing: what it asks for is there.                *)
Accepts == Check /\ phase' = "checking" /\ errors = 0 /\ errors' = 0 /\ IsChecked(Visited)

LEMMA NothingReported ==
  ASSUME NEW count \in Nat, errors = 0, errors' = 0, Report(count) PROVE count = 0
BY DEF Report

LEMMA SimpleAccepts ==
  ASSUME BuildInv, PhaseInv, ResolvedInv, Accepts, NEW m, m = Visited.node,
         CheckNothing \/ CheckBinary \/ CheckVarDecl \/ CheckIf
  PROVE types' = types /\ TypedNode(m)
<1>1. Subject = ast[m]
  BY DEF Subject
<1>2. ASSUME NEW P, Unless(P) PROVE P
  BY <1>2, NothingReported DEF Unless, Accepts
<1>3. phase' = "checking"
  BY DEF Accepts
<1>4. CASE CheckNothing
  BY <1>1, <1>4 DEF CheckNothing, TypedNode, Accepts
<1>5. CASE CheckBinary
  <2>1. UNCHANGED types /\ Unless(TypeId(types[Kid(1)]) = TypeId(types[Kid(2)]))
    BY <1>3, <1>5 DEF CheckBinary, UsesNull, StopAs
  <2> QED
    BY <1>1, <1>2, <1>5, <2>1 DEF CheckBinary, Checks, TypedNode, Kid
<1>6. CASE CheckVarDecl
  <2>1. UNCHANGED types /\ Unless(types[Visited.node] = types[Kid(1)])
    BY <1>3, <1>6 DEF CheckVarDecl, UsesNull, StopAs
  <2> QED
    BY <1>1, <1>2, <1>6, <2>1 DEF CheckVarDecl, Checks, TypedNode, Kid
<1>7. CASE CheckIf
  <2>1. UNCHANGED types /\ Unless(types[Kid(1)] = "bool")
    BY <1>3, <1>7 DEF CheckIf, UsesNull, StopAs
  <2> QED
    BY <1>1, <1>2, <1>7, <2>1 DEF CheckIf, Checks, TypedNode, Kid
<1> QED
  BY <1>4, <1>5, <1>6, <1>7

LEMMA AssignAccepts ==
  ASSUME BuildInv, PhaseInv, ResolvedInv, Accepts, NEW m, m = Visited.node, CheckAssign
  PROVE types' = types /\ TypedNode(m)
<1>1. Subject = ast[m] /\ Subject.kind = "assign" /\ phase' = "checking"
  BY DEF Subject, CheckAssign, Checks, Accepts
<1>2. UNCHANGED types /\ Report(AssignErrors)
  BY <1>1 DEF CheckAssign, UsesNull, StopAs
<1>3. muts[Kid(1)] /\ TypeId(types[Kid(1)]) = TypeId(types[Kid(2)])
  <2>1. AssignErrors \in Nat
    BY DEF AssignErrors
  <2>2. AssignErrors = 0
    BY <1>2, <2>1, NothingReported DEF Accepts
  <2> QED
    BY <2>2 DEF AssignErrors
<1>4. ast[m].kids[1] \in 1 .. Len(ast) /\ ast[ast[m].kids[1]].kind = "identifier"
  <2>1. NodeFits(ast, m) /\ KidsFit(ast, m) /\ Complete(ast, m)
    BY SubjectFits DEF CheckAssign, Checks, IsChecked, StepFits
  <2>2. 1 \in 1 .. Len(ast[m].kids)
    BY <1>1, <2>1, FewKids DEF Complete
  <2> QED
    BY <1>1, <2>1, <2>2 DEF NodeFits, KidsFit
<1>5. ast[Binding(ast[m].kids[1])].kind = "let" => muts[ast[m].kids[1]] = muts[Binding(ast[m].kids[1])]
  <2>1. Resolved
    BY DEF CheckAssign, Checks, Resolved
  <2> QED
    BY <1>4, <2>1, MutsBound
<1>6. AssignFits(m)
  BY <1>1, <1>3, <1>5 DEF AssignFits, Kid
<1>7. TypesAgree(m)
  BY <1>1, <1>3 DEF TypesAgree, Kid
<1> QED
  BY <1>2, <1>6, <1>7, TypedParts

LEMMA RetAccepts ==
  ASSUME BuildInv, PhaseInv, ResolvedInv, Accepts, NEW m, m = Visited.node, CheckRet
  PROVE Retypes(m) /\ TypesAgree(m)'
<1> DEFINE k == Kid(1)
           t == ast[Subject.fn].word
<1>1. /\ Subject = ast[m] /\ ast[m].kind = "ret" /\ phase' = "checking" /\ ast' = ast
      /\ m \in 1 .. Len(ast)
  BY SubjectFits DEF Subject, CheckRet, Checks, Accepts, checkerRest, UsesNull, StopAs, treeVars
<1>2. Unless(Fits(k, t)) /\ types' = [types EXCEPT ![k] = Retyped(k, t)]
  BY <1>1 DEF CheckRet, UsesNull, StopAs
<1>3. Fits(k, t)
  BY <1>2, NothingReported DEF Unless, Accepts
<1>4. k \in 1 .. Len(ast) /\ k = ast[m].kids[1] /\ IsKid(ast, k, m, 1)
  <2>1. k \in 1 .. Len(ast) /\ k = ast[m].kids[1] /\ Complete(ast, m)
    BY <1>1, OnlyKid, SubjectFits DEF CheckRet, Checks, IsChecked, Kid, StepFits
  <2> QED
    BY <1>1, <2>1, FewKids DEF Complete, IsKid
<1>5. types \in Seq(NodeTypes) /\ Len(types) = Len(ast)
  BY DEF BuildInv, NodesInv
<1>6. types'[k] = Retyped(k, t) /\ \A n \in 1 .. Len(ast) : n # k => types'[n] = types[n]
  <2>1. types'[k] = Retyped(k, t) /\ \A n \in 1 .. Len(types) : n # k => types'[n] = types[n]
    <3> HIDE DEF k, t
    <3> QED
      BY <1>2, <1>4, <1>5
  <2> QED
    BY <1>5, <2>1
<1>7. Retyped(k, t) = t /\ (Retyped(k, t) # types[k] => ast[k].kind = "literal")
  BY <1>3 DEF Fits, Retyped, Converts
<1> HIDE DEF k
<1>8. Retypes(m)
  BY <1>4, <1>6, <1>7 DEF Retypes
<1>9. TypesAgree(m)'
  BY <1>1, <1>4, <1>6, <1>7 DEF TypesAgree
<1> QED
  BY <1>8, <1>9

LEMMA CallAccepts ==
  ASSUME BuildInv, PhaseInv, ResolvedInv, Accepts, NEW m, m = Visited.node, CheckCall
  PROVE Retypes(m) /\ TypesAgree(m)'
<1> DEFINE f == ast[m].fn
           ks == ast[m].kids
           ps == ast[f].kids
<1>1. /\ Subject = ast[m] /\ ast[m].kind = "call" /\ phase = "checking" /\ phase' = "checking"
      /\ m \in 1 .. Len(ast) /\ position < Len(trail)
  BY SubjectFits DEF CheckCall, Checks, Accepts
<1>2. IsNode(ast, f, "fn") /\ f \in 1 .. Len(ast)
  <2>1. Resolved /\ agenda = << >>
    BY <1>1 DEF Resolved, PhaseInv
  <2>2. IsNode(ast, f, "fn")
    BY <1>1, <2>1, FunctionsKnown
  <2> QED
    BY <2>2 DEF IsNode
<1>3. /\ KidsFit(ast, m) /\ KidsFit(ast, f) /\ Tree(ast)
      /\ Subject \in TreeNode /\ ast[f] \in TreeNode /\ ast \in Seq(TreeNode)
  BY <1>1, <1>2, SubjectFits, NodesTyped DEF BuildInv, Syntax, TreeFits, NodeFits
<1>4. ~\E i \in CheckedArgs : types[Kid(i)] = "null"
  <2>1. ~UsesNull
    BY <1>1 DEF UsesNull, StopAs
  <2> QED
    BY <2>1, Zenon DEF CheckCall
<1> DEFINE Bad == {i \in CheckedArgs : ~Fits(Kid(i), Target(i))}
           lens == IF Len(ks) = Len(ps) THEN 0 ELSE 1
           t(n) == IF \E i \in CheckedArgs : Kid(i) = n
                   THEN Retyped(n, Target(CHOOSE i \in CheckedArgs : Kid(i) = n))
                   ELSE types[n]
<1>5. Report(Cardinality(Bad) + lens) /\ types' = [n \in 1 .. Len(types) |-> t(n)] /\ ast' = ast
  <2>1. /\ Report(Cardinality(Bad) + (IF Len(Subject.kids) = Len(ast[Subject.fn].kids) THEN 0 ELSE 1))
        /\ types' = [n \in 1 .. Len(types) |-> t(n)] /\ UNCHANGED checkerRest
    BY <1>4, Zenon DEF CheckCall
  <2> HIDE DEF Bad, t
  <2> QED
    BY <1>1, <2>1 DEF checkerRest
<1>6. Bad = {} /\ Len(ks) = Len(ps)
  <2>1. Cardinality(Bad) \in Nat /\ (Cardinality(Bad) = 0 => Bad = {})
    BY <1>1, <1>3, ArgumentErrors
  <2> HIDE DEF Bad
  <2>2. Cardinality(Bad) + lens \in Nat
    BY <2>1
  <2>3. Cardinality(Bad) + lens = 0
    BY <1>5, <2>2, NothingReported DEF Accepts
  <2> QED
    BY <2>1, <2>3
<1>7. CheckedArgs = 1 .. Len(ks) /\ \A i : Kid(i) = ks[i] /\ Target(i) = types[ps[i]]
  BY <1>1, <1>3, <1>6 DEF CheckedArgs, Kid, Target, TreeNode
<1>8. ASSUME NEW i \in 1 .. Len(ks)
      PROVE /\ Fits(ks[i], types[ps[i]]) /\ IsKid(ast, ks[i], m, i) /\ ks[i] \in 1 .. Len(ast)
            /\ ast[ks[i]].kind # "arg" /\ ps[i] \in 1 .. Len(ast) /\ ast[ps[i]].kind = "arg"
            /\ \A j \in 1 .. Len(ks) : ks[j] = ks[i] => j = i
  <2>1. Fits(ks[i], types[ps[i]])
    BY <1>6, <1>7
  <2>2. \A j \in 1 .. Len(ks) : IsKid(ast, ks[j], m, j) /\ ks[j] \in 1 .. Len(ast)
    BY <1>1, <1>3 DEF IsKid, KidsFit
  <2>3. ast[ks[i]].kind \in Operands
    BY <1>1, <1>3 DEF KidsFit
  <2>4. ps[i] \in 1 .. Len(ast) /\ ast[ps[i]].kind = "arg"
    BY <1>2, <1>3, <1>6 DEF KidsFit, IsNode
  <2>5. ASSUME NEW j \in 1 .. Len(ks), ks[j] = ks[i] PROVE j = i
    BY <1>3, <2>2, <2>5 DEF Tree
  <2> QED
    BY <2>1, <2>2, <2>3, <2>4, <2>5 DEF Operands
<1>9. types \in Seq(NodeTypes) /\ Len(types) = Len(ast)
  BY DEF BuildInv, NodesInv
<1>10. ASSUME NEW i \in 1 .. Len(ks) PROVE t(ks[i]) = Retyped(ks[i], types[ps[i]])
  <2>1. (CHOOSE j \in CheckedArgs : Kid(j) = ks[i]) = i
    <3>1. \A j : j \in CheckedArgs /\ Kid(j) = ks[i] <=> j = i
      BY <1>7, <1>8
    <3> QED
      BY <3>1
  <2>2. \E j \in CheckedArgs : Kid(j) = ks[i]
    BY <1>7
  <2> QED
    BY <1>7, <2>1, <2>2
<1>11. ASSUME NEW n, \A i \in 1 .. Len(ks) : ks[i] # n PROVE t(n) = types[n]
  BY <1>7, <1>11
<1> HIDE DEF t
<1>12. \A n \in 1 .. Len(ast) : types'[n] = t(n)
  BY <1>5, <1>9
<1>13. ASSUME NEW i \in 1 .. Len(ks)
       PROVE /\ Retyped(ks[i], types[ps[i]]) = types[ps[i]]
             /\ types[ps[i]] # types[ks[i]] => ast[ks[i]].kind = "literal"
  BY <1>8 DEF Fits, Retyped, Converts
<1> HIDE DEF ks, ps
<1>14. Retypes(m)
  <2> SUFFICES ASSUME NEW n \in 1 .. Len(ast)
               PROVE types'[n] = types[n] \/ (ast[n].kind = "literal" /\ \E i : IsKid(ast, n, m, i))
    BY DEF Retypes
  <2>1. CASE \A i \in 1 .. Len(ks) : ks[i] # n
    BY <1>11, <1>12, <2>1
  <2>2. ASSUME NEW i \in 1 .. Len(ks), ks[i] = n
        PROVE types'[n] = types[n] \/ (ast[n].kind = "literal" /\ \E j : IsKid(ast, n, m, j))
    BY <1>8, <1>10, <1>12, <1>13, <2>2
  <2> QED
    BY <2>1, <2>2
<1>15. ASSUME NEW i \in 1 .. Len(ks) PROVE types'[ks[i]] = types'[ps[i]]
  <2>1. types'[ps[i]] = types[ps[i]]
    BY <1>8, <1>11, <1>12
  <2>2. types'[ks[i]] = types[ps[i]]
    BY <1>8, <1>10, <1>12, <1>13
  <2> QED
    BY <2>1, <2>2
<1>16. TypesAgree(m)'
  BY <1>1, <1>5, <1>6, <1>15 DEF TypesAgree, ks, ps
<1> QED
  BY <1>14, <1>16

(* The nodes checked so far, and the one that is being checked.            *)
LEMMA NodesChecked ==
  ASSUME BuildInv, PhaseInv, ResolvedInv, CheckedInv, Check, phase' = "checking", errors' = 0
  PROVE \A p \in 1 .. (position + 1) : IsChecked(trail[p]) => TypedNode(trail[p].node)'
<1>0. PICK m : m = Visited.node
  OBVIOUS
<1>1. /\ phase = "checking" /\ errors = 0 /\ position < Len(trail) /\ position \in Nat
      /\ UNCHANGED << ast, muts, tables, defered >> /\ Visits
  <2>1. Visits \/ EndCheck
    BY CheckVisits
  <2> QED
    BY <2>1, CheckSteps DEF PhaseInv, Visits, EndCheck, scopeVars
<1>2. /\ position + 1 \in 1 .. Len(trail) /\ Visited = trail[position + 1]
      /\ m \in 1 .. Len(ast)
  BY <1>0, <1>1, SubjectFits
<1>3. /\ \A p \in 1 .. position : p \in 1 .. Len(trail)
      /\ \A p \in 1 .. (position + 1) : p \in 1 .. position \/ p = position + 1
  BY <1>1, <1>2
<1>4. \A p \in 1 .. position : IsChecked(trail[p]) => TypedNode(trail[p].node)
  BY <1>1 DEF CheckedInv
<1>5. \A p \in 1 .. position : IsChecked(trail[p]) =>
        trail[p].node \in 1 .. Len(ast) /\ Complete(ast, trail[p].node)
  BY <1>3 DEF BuildInv, TrailInv, StepFits, IsChecked
<1>6. Resolved /\ agenda = << >>
  BY <1>1 DEF Resolved, PhaseInv
<1>7. CASE types' = types /\ (IsChecked(Visited) => TypedNode(m))
  <2> SUFFICES ASSUME NEW p \in 1 .. (position + 1), NEW n, n = trail[p].node, IsChecked(trail[p])
               PROVE TypedNode(n)'
    <3>1. ASSUME NEW p \in 1 .. (position + 1), IsChecked(trail[p]) PROVE TypedNode(trail[p].node)'
      <4>1. PICK n : n = trail[p].node
        OBVIOUS
      <4>2. TypedNode(n)'
        BY <3>1, <4>1
      <4>3. trail' = trail
        BY <1>1 DEF Visits
      <4> QED
        BY <4>1, <4>2, <4>3
    <3> QED
      BY <3>1
  <2>1. TypedNode(n)
    BY <1>0, <1>2, <1>3, <1>4, <1>7
  <2> QED
    BY <1>1, <1>7, <2>1, TypedKept
<1>8. CASE Retypes(m) /\ TypesAgree(m)' /\ AssignFits(m)
  <2> SUFFICES ASSUME NEW p \in 1 .. (position + 1), NEW n, n = trail[p].node, IsChecked(trail[p])
               PROVE TypedNode(n)'
    <3>1. ASSUME NEW p \in 1 .. (position + 1), IsChecked(trail[p]) PROVE TypedNode(trail[p].node)'
      <4>1. PICK n : n = trail[p].node
        OBVIOUS
      <4>2. TypedNode(n)'
        BY <3>1, <4>1
      <4>3. trail' = trail
        BY <1>1 DEF Visits
      <4> QED
        BY <4>1, <4>2, <4>3
    <3> QED
      BY <3>1
  <2>1. CASE n = m
    <3>1. AssignFits(n)'
      BY <1>1, <1>8, <2>1, AssignKept
    <3>2. TypesAgree(n)'
      BY <1>1, <1>8, <2>1 DEF TypesAgree
    <3> QED
      BY <3>1, <3>2 DEF TypedNode, AssignFits, TypesAgree
  <2>2. CASE n # m
    <3>1. p \in 1 .. position
      BY <1>0, <1>2, <1>3, <2>2
    <3>2. TypedNode(n) /\ n \in 1 .. Len(ast) /\ Complete(ast, n)
      BY <1>4, <1>5, <3>1
    <3>3. TypesAgree(n) /\ AssignFits(n)
      BY <3>2, TypedParts
    <3>4. TypesAgree(n)'
      BY <1>1, <1>6, <1>8, <2>2, <3>2, <3>3, OthersAgree
    <3>5. AssignFits(n)'
      BY <1>1, <3>3, AssignKept
    <3> QED
      BY <3>4, <3>5 DEF TypedNode, AssignFits, TypesAgree
  <2> QED
    BY <2>1, <2>2
<1>9. CASE ~IsChecked(Visited)
  <2>1. types' = types
    BY <1>1, <1>9 DEF Check, CheckNothing, CheckBinary, CheckAssign, CheckVarDecl, CheckRet,
       CheckIf, CheckCall, EndCheck, Checks
  <2> QED
    BY <1>7, <1>9, <2>1
<1>10. CASE IsChecked(Visited)
  <2>1. Accepts
    BY <1>1, <1>10 DEF Accepts
  <2>3. CASE CheckNothing \/ CheckBinary \/ CheckVarDecl \/ CheckIf
    BY <1>0, <1>7, <2>1, <2>3, SimpleAccepts
  <2>4. CASE CheckAssign
    BY <1>0, <1>7, <2>1, <2>4, AssignAccepts
  <2>5. CASE CheckRet \/ CheckCall
    <3>1. Retypes(m) /\ TypesAgree(m)'
      BY <1>0, <2>1, <2>5, RetAccepts, CallAccepts
    <3>2. AssignFits(m)
      BY <1>0, <2>5 DEF CheckRet, CheckCall, Checks, Subject, AssignFits
    <3> QED
      BY <1>8, <3>1, <3>2
  <2>6. ~EndCheck
    BY <1>1 DEF EndCheck
  <2> QED
    BY <2>3, <2>4, <2>5, <2>6 DEF Check
<1> QED
  BY <1>9, <1>10

LEMMA CheckedStep ==
  ASSUME BuildInv, PhaseInv, ResolvedInv, CheckedInv, [FrontNext]_vars PROVE CheckedInv'
<1>1. CASE Parse \/ Resolve
  <2>1. phase' \in {"parsing", "resolving", "threw", "undefined"}
        \/ (phase' = "checking" /\ position' = 0)
    <3>1. Resolve => phase' \in {"resolving", "threw", "undefined"} \/ (phase' = "checking" /\ EndParse)
      BY ResolveSteps
    <3>2. EndParse => position' = 0
      BY DEF EndParse
    <3> QED
      BY <1>1, <3>1, <3>2, ParsesWhen
  <2>2. phase' # "generating" /\ (phase' = "checking" => 1 .. position' = {})
    BY <2>1
  <2> QED
    BY <2>2 DEF CheckedInv
<1>2. CASE Check
  <2>1. Visits \/ EndCheck
    BY <1>2, CheckVisits
  <2>2. ast' = ast /\ muts' = muts /\ tables' = tables /\ defered' = defered /\ trail' = trail
    BY <2>1, CheckSteps DEF scopeVars
  <2>3. CASE phase' = "checking" /\ errors' = 0
    <3>1. position' = position + 1
      BY <2>1, <2>3, CheckSteps
    <3>2. \A p \in 1 .. (position + 1) : IsChecked(trail[p]) => TypedNode(trail[p].node)'
      BY <1>2, <2>3, NodesChecked
    <3>3. \A p \in 1 .. position' : IsChecked(trail[p])' => TypedNode(trail[p].node)'
      BY <2>2, <3>1, <3>2 DEF IsChecked
    <3> QED
      BY <2>3, <3>3 DEF CheckedInv
  <2>4. CASE phase' = "generating"
    <3>1. EndCheck /\ position = Len(trail) /\ errors = 0 /\ phase = "checking" /\ types' = types
      BY <2>1, <2>4, CheckSteps DEF EndCheck, Visits, PhaseInv
    <3>2. ASSUME NEW p \in 1 .. Len(trail'), NEW n, n = trail'[p].node, IsChecked(trail[p])'
          PROVE TypedNode(n)'
      <4>1. TypedNode(n)
        BY <2>2, <3>1, <3>2 DEF CheckedInv, IsChecked
      <4> QED
        BY <2>2, <3>1, <4>1, TypedKept
    <3>3. ASSUME NEW p \in 1 .. Len(trail'), IsChecked(trail[p])' PROVE TypedNode(trail[p].node)'
      <4>1. PICK n : n = trail'[p].node
        OBVIOUS
      <4>2. TypedNode(n)'
        BY <3>2, <3>3, <4>1
      <4> QED
        BY <4>1, <4>2
    <3> QED
      BY <2>4, <3>3 DEF CheckedInv
  <2> QED
    BY <2>3, <2>4 DEF CheckedInv
<1>3. CASE Generate \/ UNCHANGED vars
  <2>1. /\ UNCHANGED << ast, types, muts, trail, tables, defered >>
        /\ UNCHANGED << phase, position, errors >> \/ (phase = "generating" /\ phase' # "checking")
    BY <1>3, GenerateSteps DEF vars, parserState, treeVars, scopeVars
  <2>2. ASSUME NEW p, TypedNode(trail[p].node) PROVE TypedNode(trail[p].node)'
    <3>1. PICK n : n = trail[p].node
      OBVIOUS
    <3>2. TypedNode(n)'
      BY <2>1, <2>2, <3>1, TypedKept
    <3> QED
      BY <2>1, <3>1, <3>2
  <2> QED
    BY <2>1, <2>2 DEF CheckedInv, IsChecked
<1> QED
  BY <1>1, <1>2, <1>3, StepCases

-----------------------------------------------------------------------------
(* The scopes that were open at each step of the trail.                    *)

LEMMA ChainKept ==
  ASSUME NEW c, NEW T, NEW U, Chain(c, T), SameScopes(T, U) PROVE Chain(c, U)
<1>1. \A i \in 1 .. Len(c) : c[i] \in 1 .. Len(T) /\ c[i] \in 1 .. Len(U) /\ U[c[i]].parent = T[c[i]].parent
  BY DEF Chain, SameScopes
<1>2. \A i \in 1 .. (Len(c) - 1) : i \in 1 .. Len(c)
  BY DEF Chain
<1> QED
  BY <1>1, <1>2 DEF Chain

LEMMA ChainPushed ==
  ASSUME NEW c, NEW T, Chain(c, T), NEW s \in 1 .. Len(T), T[s].parent = Head(c)
  PROVE Chain(<< s >> \o c, T) /\ Head(<< s >> \o c) = s
<1> DEFINE d == << s >> \o c
<1>1. c \in Seq(Nat) /\ c # << >> /\ s \in Nat /\ Len(c) \in Nat \ {0} /\ Head(c) = c[1]
  BY Tailed DEF Chain
<1>2. /\ d \in Seq(Nat) /\ Len(d) = Len(c) + 1 /\ d[1] = s /\ Head(d) = s /\ d # << >>
      /\ \A i \in 1 .. Len(c) : d[i + 1] = c[i]
      /\ \A i \in 2 .. (Len(c) + 1) : d[i] = c[i - 1]
  BY <1>1, Pushed
<1> HIDE DEF d
<1>3. \A i \in 1 .. Len(d) : d[i] \in 1 .. Len(T)
  <2>1. \A i \in 1 .. (Len(c) + 1) : i = 1 \/ (i \in 2 .. (Len(c) + 1) /\ i - 1 \in 1 .. Len(c))
    BY <1>1
  <2> QED
    BY <1>2, <2>1 DEF Chain
<1>4. \A i \in 1 .. (Len(d) - 1) : T[d[i]].parent = d[i + 1]
  <2>1. \A i \in 1 .. (Len(d) - 1) : i \in 1 .. Len(c) /\ d[i + 1] = c[i]
    BY <1>1, <1>2
  <2>2. \A i \in 1 .. Len(c) : i = 1 \/ (/\ i \in 2 .. (Len(c) + 1) /\ i - 1 \in 1 .. (Len(c) - 1)
                                         /\ (i - 1) + 1 = i)
    BY <1>1
  <2>3. \A i \in 1 .. (Len(c) - 1) : T[c[i]].parent = c[i + 1]
    BY DEF Chain
  <2>4. ASSUME NEW i \in 1 .. (Len(d) - 1) PROVE T[d[i]].parent = d[i + 1]
    <3>1. i \in 1 .. Len(c) /\ d[i + 1] = c[i]
      BY <2>1
    <3>2. CASE i = 1
      BY <1>1, <1>2, <3>1, <3>2
    <3>3. CASE i # 1
      <4>1. i \in 2 .. (Len(c) + 1) /\ i - 1 \in 1 .. (Len(c) - 1) /\ (i - 1) + 1 = i
        BY <2>2, <3>1, <3>3
      <4>2. d[i] = c[i - 1] /\ T[c[i - 1]].parent = c[(i - 1) + 1]
        BY <1>2, <2>3, <4>1
      <4> QED
        BY <3>1, <4>1, <4>2
    <3> QED
      BY <3>2, <3>3
  <2> QED
    BY <2>4
<1>5. d[Len(d)] = 1
  <2>1. Len(c) \in 1 .. Len(c) /\ c[Len(c)] = 1
    BY <1>1 DEF Chain
  <2> QED
    BY <1>2, <2>1
<1> QED
  BY <1>2, <1>3, <1>4, <1>5 DEF Chain, d

LEMMA ChainPopped ==
  ASSUME NEW c, NEW T, Chain(c, T), Head(c) # 1
  PROVE Chain(Tail(c), T) /\ Head(Tail(c)) = T[Head(c)].parent /\ Len(c) > 1
<1>1. /\ c \in Seq(Nat) /\ c # << >> /\ Len(c) \in Nat \ {0} /\ Head(c) = c[1]
      /\ Tail(c) \in Seq(Nat) /\ Len(Tail(c)) = Len(c) - 1
      /\ \A i \in 1 .. Len(Tail(c)) : Tail(c)[i] = c[i + 1]
  BY Tailed DEF Chain
<1> DEFINE d == Tail(c)
<1>2. Len(c) > 1
  BY <1>1 DEF Chain
<1> HIDE DEF d
<1>3. d \in Seq(Nat) /\ Len(d) = Len(c) - 1 /\ \A i \in 1 .. Len(d) : d[i] = c[i + 1]
  BY <1>1 DEF d
<1>4. d # << >> /\ Head(d) = d[1] /\ 1 \in 1 .. Len(d) /\ 1 \in 1 .. (Len(c) - 1)
  BY <1>1, <1>2, <1>3, Tailed
<1>5. \A i \in 1 .. Len(d) : d[i] \in 1 .. Len(T)
  <2>1. \A i \in 1 .. Len(d) : i + 1 \in 1 .. Len(c)
    BY <1>1, <1>3
  <2> QED
    BY <1>3, <2>1 DEF Chain
<1>6. \A i \in 1 .. (Len(d) - 1) : T[d[i]].parent = d[i + 1]
  <2>1. \A i \in 1 .. (Len(d) - 1) : i \in 1 .. Len(d) /\ i + 1 \in 1 .. Len(d) /\ i + 1 \in 1 .. (Len(c) - 1)
    BY <1>1, <1>3
  <2> QED
    BY <1>3, <2>1 DEF Chain
<1>7. d[Len(d)] = 1
  <2>1. Len(d) \in 1 .. Len(d) /\ Len(d) + 1 = Len(c)
    BY <1>1, <1>2, <1>3
  <2> QED
    BY <1>3, <2>1 DEF Chain
<1>8. T[c[1]].parent = c[2] /\ d[1] = c[2]
  BY <1>3, <1>4 DEF Chain
<1> QED
  BY <1>1, <1>2, <1>3, <1>4, <1>5, <1>6, <1>7, <1>8 DEF Chain, d

(* The steps of the parser, as to the trail and the open scope.            *)
ScopeStays == trail' = trail /\ (phase' \in {"parsing", "resolving"} => currentScope' = currentScope)
Adds(e) == trail' = Append(trail, e) /\ StepFits(e)'
ScopeGoes(e) ==
  /\ Opens(e) =>
       /\ currentScope' = Len(tables) + 1 /\ Len(tables') = Len(tables) + 1
       /\ tables'[currentScope'].parent = currentScope
  /\ Closes(e, ast') =>
       currentScope' = tables[currentScope].parent /\ currentScope # 1
  /\ ~Opens(e) /\ ~Closes(e, ast') => currentScope' = currentScope

LEMMA SameStep ==
  ASSUME NEW S, NEW tr \in Seq(S), NEW e, NEW d, Append(tr, e) = Append(tr, d) PROVE e = d
<1>1. \A x : Append(tr, x)[Len(tr) + 1] = x
  OBVIOUS
<1> QED
  BY <1>1

LEMMA TrailGrows ==
  ASSUME Syntax, NodesInv, TrailInv, Parse, NEW e, trail' = Append(trail, e)
  PROVE Adds(e)
<1>1. trail \in Seq(TrailStep)
  BY DEF TrailInv
<1>2. Append(trail, e) # trail
  <2>1. Len(Append(trail, e)) = Len(trail) + 1 /\ Len(trail) \in Nat
    BY <1>1
  <2> QED
    BY <2>1
<1>3. PICK d : trail' = Append(trail, d) /\ StepFits(d)'
  BY <1>2, ParseTrails DEF Trails
<1>4. d = e
  BY <1>1, <1>3, SameStep
<1> QED
  BY <1>3, <1>4 DEF Adds, StepFits

(* A node that is no body is left: the scope remains.                      *)
LEMMA LeftGoes ==
  ASSUME Syntax, NodesInv, TrailInv, Parse, NEW e, trail' = Append(trail, e),
         e.step = "leave", ast'[e.node].kind \notin BodyKinds, currentScope' = currentScope
  PROVE Adds(e) /\ ScopeGoes(e)
BY TrailGrows DEF ScopeGoes, Opens, Closes

LEMMA LeavesGo ==
  ASSUME Syntax, NodesInv, TrailInv, ParseInteger \/ ParseOtherLiteral \/ ParseIdentifier
  PROVE \E e : Adds(e) /\ ScopeGoes(e)
<1>1. Parse /\ currentScope' = currentScope /\ trail' = Append(trail, Step("leave", NewId))
  BY DEF Parse, ParseInteger, ParseOtherLiteral, ParseIdentifier, Return, LeaveAs, scopeVars
<1>2. PICK kind \in {"literal", "identifier"}, n \in AllNames \cup {"none"} :
        ast' = ast \o << Node(kind, n) >>
  <2>1. CASE ParseInteger
    BY <2>1 DEF ParseInteger, AddNodes
  <2>2. CASE ParseOtherLiteral
    BY <2>2 DEF ParseOtherLiteral, AddNodes
  <2>3. CASE ParseIdentifier
    BY <2>3 DEF ParseIdentifier, AddNodes
  <2> QED
    BY <2>1, <2>2, <2>3
<1>3. ast'[NewId].kind = kind
  BY <1>2, AppendedAny DEF Syntax, NewId, Node
<1>4. PICK e : e = Step("leave", NewId)
  OBVIOUS
<1>5. e.step = "leave" /\ e.node = NewId
  BY <1>4 DEF Step
<1> QED
  BY <1>1, <1>3, <1>4, <1>5, LeftGoes DEF BodyKinds

LEMMA EndsGo ==
  ASSUME Syntax, NodesInv, TrailInv, EndCall \/ EndInfix \/ EndVarDecl \/ EndRet
  PROVE ScopeStays \/ \E e : Adds(e) /\ ScopeGoes(e)
<1> DEFINE n == Head(agenda).node
<1>1. /\ Parse /\ currentScope' = currentScope /\ agenda # << >>
      /\ Head(agenda).what \in {"call", "right", "assign", "explicit", "inferred", "ret"}
  BY DEF Parse, EndCall, EndInfix, EndVarDecl, EndRet, Throw, StopAs, scopeVars, Doing
<1>2. CASE trail' = trail
  BY <1>1, <1>2 DEF ScopeStays
<1>3. CASE trail' # trail
  <2>1. PICK e : trail' = Append(trail, e) /\ e.step = "leave" /\ e.node = n
    <3>1. CASE EndCall
      BY <3>1 DEF EndCall, Step
    <3>2. CASE EndInfix
      BY <3>2 DEF EndInfix, Step
    <3>3. CASE EndVarDecl \/ EndRet
      BY <1>3, <3>3 DEF EndVarDecl, EndRet, Return, LeaveAs, Step, Throw, StopAs, treeVars
    <3> QED
      BY <3>1, <3>2, <3>3
  <2>2. n \in 1 .. Len(ast) /\ ast[n].kind \notin BodyKinds
    BY <1>1, HeadNode DEF Levelled, KindOf, BodyKinds
  <2>3. ast'[n].kind \notin BodyKinds
    BY <1>1, <2>2, ParseSafe DEF SyntaxKept, Extends
  <2> HIDE DEF n
  <2> QED
    BY <1>1, <2>1, <2>3, LeftGoes
<1> QED
  BY <1>2, <1>3

LEMMA BodiesGo ==
  ASSUME Syntax, NodesInv, TrailInv, TablesInv,
         NEW sc, ScopesFit(sc, agenda, tables, currentScope), EndFunction \/ EndIf
  PROVE \E e : Adds(e) /\ ScopeGoes(e)
<1> DEFINE n == Head(agenda).node
<1>1. /\ Parse /\ agenda # << >> /\ Head(agenda).what \in BodyKinds
      /\ currentScope' = tables[currentScope].parent
      /\ trail' = Append(trail, Step("leave", n)) /\ ast' = ast
  BY DEF Parse, EndIf, EndFunction, Doing, Return, LeaveAs, BodyKinds
<1>2. n \in 1 .. Len(ast) /\ ast[n].kind \in BodyKinds
  BY <1>1, HeadNode DEF Levelled, KindOf, BodyKinds
<1> HIDE DEF n
<1>3. currentScope # 1
  <2>1. TablesFit(ast, tables) /\ agenda \in Seq(Item)
    BY DEF TablesInv, Syntax
  <2>2. ScopesFit(Tail(sc), Tail(agenda), tables, tables[currentScope].parent) /\ Tail(agenda) \in Seq(Item)
    BY <1>1, <2>1, ScopePopped, Tailed
  <2>3. tables[currentScope].parent \in 1 .. Len(tables)
    BY <2>2, ScopeOpen
  <2>4. tables[1].parent \in 0 .. (1 - 1)
    BY <2>1 DEF TablesFit, TableFits
  <2> QED
    BY <2>3, <2>4
<1>4. PICK e : e = Step("leave", n)
  OBVIOUS
<1>5. e.step = "leave" /\ e.node = n
  BY <1>4 DEF Step
<1>6. Adds(e)
  BY <1>1, <1>4, TrailGrows
<1>7. ScopeGoes(e)
  BY <1>1, <1>2, <1>3, <1>5 DEF ScopeGoes, Opens, Closes
<1> QED
  BY <1>6, <1>7

LEMMA EntersGo ==
  ASSUME Syntax, NodesInv, TrailInv, TablesInv, BeginFunction \/ ParseIfBody
  PROVE ScopeStays \/ \E e : Adds(e) /\ ScopeGoes(e)
<1>1. CASE trail' = trail
  <2>1. currentScope' = currentScope
    <3>1. CASE ParseIfBody
      <4>1. trail' = Append(trail, Step("enter", Head(agenda).node)) /\ trail \in Seq(TrailStep)
        BY <3>1 DEF ParseIfBody, TrailInv
      <4>2. Len(trail') = Len(trail) + 1 /\ Len(trail) \in Nat
        BY <4>1
      <4> QED
        BY <1>1, <4>2
    <3>2. CASE BeginFunction
      <4>1. PICK h \in Headers : ParseFunction(h.name, h.params, h.ret, h.ext)
        BY <3>2 DEF BeginFunction
      <4>2. \A x : Append(trail, x) # trail
        <5>1. \A x : Len(Append(trail, x)) = Len(trail) + 1 /\ Len(trail) \in Nat
          BY DEF TrailInv
        <5> QED
          BY <5>1
      <4> QED
        BY <1>1, <4>1, <4>2 DEF ParseFunction, Throw, StopAs, scopeVars
    <3> QED
      BY <3>1, <3>2
  <2> QED
    BY <1>1, <2>1 DEF ScopeStays
<1>2. CASE trail' # trail
  <2>1. PICK e, x : /\ trail' = Append(trail, e) /\ e.step = "enter"
                    /\ tables' = Append(tables, x) /\ x.parent = currentScope
                    /\ currentScope' = Len(tables) + 1
    <3>1. CASE ParseIfBody
      BY <3>1 DEF ParseIfBody, Step, EmptyTable
    <3>2. CASE BeginFunction
      <4>1. PICK h \in Headers : ParseFunction(h.name, h.params, h.ret, h.ext)
        BY <3>2 DEF BeginFunction
      <4>2. ParameterTable(h.params).parent = currentScope
        BY DEF ParameterTable, EmptyTable
      <4>3. PICK e : e = Step("enter", NewId)
        OBVIOUS
      <4>4. e.step = "enter"
        BY <4>3 DEF Step
      <4> QED
        BY <1>2, <4>1, <4>2, <4>3, <4>4 DEF ParseFunction, Throw, StopAs, treeVars
    <3> QED
      BY <3>1, <3>2
  <2>2. Parse
    BY DEF Parse
  <2>3. Adds(e)
    BY <2>1, <2>2, TrailGrows
  <2>4. Len(tables') = Len(tables) + 1 /\ tables'[Len(tables) + 1] = x
    <3>1. tables \in Seq(Table)
      BY DEF TablesInv, TablesFit
    <3> QED
      BY <2>1, <3>1
  <2>5. ScopeGoes(e)
    BY <2>1, <2>4 DEF ScopeGoes, Opens, Closes
  <2> QED
    BY <2>3, <2>5
<1> QED
  BY <1>1, <1>2

LEMMA ParseGoes ==
  ASSUME Syntax, NodesInv, TrailInv, TablesInv, ScopesInv, Parse
  PROVE ScopeStays \/ \E e : Adds(e) /\ ScopeGoes(e)
<1>1. PICK sc : ScopesFit(sc, agenda, tables, currentScope)
  BY ParsesWhen DEF ScopesInv
<1>2. CASE ParseInteger \/ ParseOtherLiteral \/ ParseIdentifier
  BY <1>2, LeavesGo
<1>3. CASE EndCall \/ EndInfix \/ EndVarDecl \/ EndRet
  BY <1>3, EndsGo
<1>4. CASE EndFunction \/ EndIf
  BY <1>1, <1>4, BodiesGo
<1>5. CASE BeginFunction \/ ParseIfBody
  BY <1>5, EntersGo
<1>6. CASE trail' = trail /\ currentScope' = currentScope
  BY <1>6 DEF ScopeStays
<1> QED
  BY <1>2, <1>3, <1>4, <1>5, <1>6 DEF Parse, BeginCall, ParseArgument, EndArgument, ParseOperator,
     ParseAssignment, EndExpression, BeginExplicit, BeginInferred, BeginRet, BeginIf,
     BeginExprStatement, EndOfFile, Throw, StopAs, treeVars, scopeVars

LEMMA HistoryKept ==
  ASSUME NEW h, NEW tr, NEW t, NEW T, NEW u, NEW U, History(h, tr, t, T), SameScopes(T, U),
         Extends(t, u), \A p \in 1 .. Len(tr) : tr[p].node \in 1 .. Len(t)
  PROVE History(h, tr, u, U)
<1>1. \A p \in 1 .. Len(h) : Chain(h[p], U)
  BY ChainKept DEF History
<1>2. \A p \in 1 .. Len(tr) : Closes(tr[p], u) <=> Closes(tr[p], t)
  BY DEF Closes, Extends
<1> QED
  BY <1>1, <1>2 DEF History, Goes

LEMMA HistoryGrown ==
  ASSUME NEW h \in Seq(Seq(Nat)), NEW tr \in Seq(TrailStep), NEW e \in TrailStep, NEW t, NEW T,
         NEW d, History(h, tr, t, T), Chain(d, T), Goes(h[Len(h)], e, t, d)
  PROVE /\ Append(h, d) \in Seq(Seq(Nat)) /\ History(Append(h, d), Append(tr, e), t, T)
        /\ Append(h, d)[Len(Append(h, d))] = d
        /\ \A p \in 1 .. Len(h) : Append(h, d)[p] = h[p]
<1> DEFINE g == Append(h, d)
           ts == Append(tr, e)
<1>1. d \in Seq(Nat)
  BY DEF Chain
<1>2. /\ g \in Seq(Seq(Nat)) /\ Len(g) = Len(h) + 1 /\ g[Len(h) + 1] = d
      /\ \A p \in 1 .. Len(h) : g[p] = h[p]
  BY <1>1, Appended
<1>3. /\ ts \in Seq(TrailStep) /\ Len(ts) = Len(tr) + 1 /\ ts[Len(tr) + 1] = e
      /\ \A p \in 1 .. Len(tr) : ts[p] = tr[p]
  BY Appended
<1>4. Len(h) = Len(tr) + 1 /\ h[1] = << 1 >> /\ Len(tr) \in Nat /\ Len(h) \in Nat
  BY DEF History
<1> HIDE DEF g, ts
<1>5. ASSUME NEW p \in 1 .. Len(g) PROVE Chain(g[p], T)
  <2>1. p \in 1 .. Len(h) \/ p = Len(h) + 1
    BY <1>2, <1>4
  <2> QED
    BY <1>2, <2>1 DEF History
<1>6. ASSUME NEW p \in 1 .. Len(ts) PROVE Goes(g[p], ts[p], t, g[p + 1])
  <2>1. CASE p \in 1 .. Len(tr)
    <3>1. p \in 1 .. Len(h) /\ p + 1 \in 1 .. Len(h)
      BY <1>4, <2>1
    <3>2. g[p] = h[p] /\ g[p + 1] = h[p + 1] /\ ts[p] = tr[p]
      BY <1>2, <1>3, <2>1, <3>1
    <3> QED
      BY <2>1, <3>2 DEF History
  <2>2. CASE p \notin 1 .. Len(tr)
    <3>1. p = Len(tr) + 1 /\ p = Len(h) /\ p \in 1 .. Len(h)
      BY <1>3, <1>4, <2>2
    <3>2. g[p] = h[Len(h)] /\ g[p + 1] = d /\ ts[p] = e
      BY <1>2, <1>3, <3>1
    <3> QED
      BY <3>2
  <2> QED
    BY <2>1, <2>2
<1>7. g[1] = << 1 >> /\ g[Len(g)] = d /\ Len(g) = Len(ts) + 1
  BY <1>2, <1>3, <1>4
<1> QED
  BY <1>2, <1>5, <1>6, <1>7 DEF History, g, ts

(* A chain that the step e leads to, with the scope that is open then.     *)
LEMMA ChainGoes ==
  ASSUME NEW c, Chain(c, tables), Head(c) = currentScope, NEW e, ScopeGoes(e),
         SameScopes(tables, tables')
  PROVE \E d : Chain(d, tables') /\ Goes(c, e, ast', d) /\ Head(d) = currentScope'
<1>1. Chain(c, tables')
  BY ChainKept
<1>2. CASE Opens(e)
  <2>1. /\ currentScope' \in 1 .. Len(tables') /\ tables'[currentScope'].parent = Head(c)
    BY <1>2 DEF ScopeGoes, SameScopes
  <2>2. PICK s : s = currentScope'
    OBVIOUS
  <2>3. Chain(<< s >> \o c, tables') /\ Head(<< s >> \o c) = s
    BY <1>1, <2>1, <2>2, ChainPushed
  <2>4. ~Closes(e, ast')
    BY <1>2 DEF Opens, Closes
  <2>5. Goes(c, e, ast', << s >> \o c)
    BY <1>2, <2>3, <2>4 DEF Goes
  <2> QED
    BY <2>2, <2>3, <2>5
<1>3. CASE Closes(e, ast')
  <2>1. Head(c) # 1 /\ currentScope' = tables[Head(c)].parent
    BY <1>3 DEF ScopeGoes
  <2>2. Chain(Tail(c), tables') /\ Head(Tail(c)) = tables'[Head(c)].parent
    BY <1>1, <2>1, ChainPopped
  <2>3. Head(c) \in 1 .. Len(tables)
    <3>1. Len(c) \in Nat \ {0} /\ Head(c) = c[1]
      BY Tailed DEF Chain
    <3> QED
      BY <3>1 DEF Chain
  <2>4. ~Opens(e)
    BY <1>3 DEF Opens, Closes
  <2>5. Goes(c, e, ast', Tail(c))
    BY <1>3, <2>4 DEF Goes
  <2> QED
    BY <2>1, <2>2, <2>3, <2>5 DEF SameScopes
<1>4. CASE ~Opens(e) /\ ~Closes(e, ast')
  BY <1>1, <1>4 DEF ScopeGoes, Goes
<1> QED
  BY <1>2, <1>3, <1>4

LEMMA TrailNodes == ASSUME TrailInv PROVE \A p \in 1 .. Len(trail) : trail[p].node \in 1 .. Len(ast)
BY DEF TrailInv, StepFits

LEMMA EntriesKept ==
  ASSUME Len(ast) \in Nat, Len(ast') \in Nat, Len(ast) <= Len(ast')
  PROVE Entries \subseteq Entries'
BY DEF Entries

LEMMA WiderTables ==
  ASSUME NEW S, NEW R, NEW N, S \subseteq R, NEW a \in Seq([N -> S]) PROVE a \in Seq([N -> R])
<1>1. \A f : f \in [N -> S] => f \in [N -> R]
  OBVIOUS
<1>2. [N -> S] \subseteq [N -> R]
  BY <1>1
<1> QED
  BY <1>2

LEMMA ParseHistory ==
  ASSUME Syntax, NodesInv, TrailInv, TablesInv, ScopesInv, HistoryInv, Parse,
         addrTables' = addrTables
  PROVE HistoryInv'
<1>1. PICK h \in Seq(Seq(Nat)) : History(h, trail, ast, tables) /\ Open(h) /\ AddrFits(h)
  BY DEF HistoryInv
<1>2. SameScopes(tables, tables') /\ Extends(ast, ast') /\ Len(ast) \in Nat /\ Len(ast') \in Nat
  BY TablesGrow, ParseSafe DEF SyntaxKept, Syntax
<1>3. phase = "parsing" /\ phase' \in {"parsing", "resolving", "threw"}
  BY ParsesWhen
<1>4. \A g : AddrFits(g)'
  <2>1. Entries \subseteq Entries' /\ addrTables \in Seq([AllNames -> Entries]) /\ Len(addrTables) = 1
    BY <1>1, <1>2, <1>3, EntriesKept DEF AddrFits, Extends
  <2>2. addrTables' \in Seq([AllNames -> Entries'])
    BY <2>1, WiderTables
  <2> QED
    BY <1>3, <2>1, <2>2 DEF AddrFits
<1>5. History(h, trail, ast', tables')
  BY <1>1, <1>2, TrailNodes, HistoryKept
<1>6. CASE ScopeStays
  <2>1. History(h, trail, ast, tables)' /\ Open(h)'
    BY <1>1, <1>3, <1>5, <1>6 DEF ScopeStays, Open
  <2> QED
    BY <1>4, <2>1 DEF HistoryInv
<1>7. ASSUME NEW e, Adds(e), ScopeGoes(e) PROVE HistoryInv'
  <2>1. trail \in Seq(TrailStep) /\ e \in TrailStep /\ trail' = Append(trail, e)
    BY <1>7 DEF Adds, StepFits, TrailInv
  <2>2. PICK c : c = h[Len(h)]
    OBVIOUS
  <2>3. Chain(c, tables) /\ Head(c) = currentScope
    <3>1. Len(h) \in 1 .. Len(h)
      BY <1>1, <2>1 DEF History
    <3> QED
      BY <1>1, <1>3, <2>2, <3>1 DEF History, Open
  <2>4. PICK d : Chain(d, tables') /\ Goes(c, e, ast', d) /\ Head(d) = currentScope'
    BY <1>2, <1>7, <2>3, ChainGoes
  <2>5. PICK g : g = Append(h, d)
    OBVIOUS
  <2>6. g \in Seq(Seq(Nat)) /\ History(g, trail', ast', tables') /\ g[Len(g)] = d
    BY <1>5, <2>1, <2>2, <2>4, <2>5, HistoryGrown
  <2>7. Open(g)' /\ AddrFits(g)'
    BY <1>4, <2>4, <2>6 DEF Open
  <2> QED
    BY <2>6, <2>7 DEF HistoryInv
<1> QED
  BY <1>6, <1>7, ParseGoes

(* After the parse the history remains; the generator moves along it.      *)
LEMMA LaterHistory ==
  ASSUME Syntax, TrailInv, Later, TablesInv,
         NEW h \in Seq(Seq(Nat)), History(h, trail, ast, tables), Open(h), AddrFits(h)'
  PROVE HistoryInv'
<1>1. Extends(ast, ast') /\ trail' = trail /\ tables' = tables
  BY DEF Later, SyntaxKept
<1>2. SameScopes(tables, tables')
  BY <1>1 DEF TablesInv, TablesFit, SameScopes
<1>3. History(h, trail', ast', tables')
  BY <1>1, <1>2, TrailNodes, HistoryKept
<1>4. Open(h)'
  BY DEF Later, Open
<1> QED
  BY <1>3, <1>4 DEF HistoryInv

LEMMA ResolveHistory ==
  ASSUME BuildInv, PhaseInv, ResolvedInv, HistoryInv, Resolve, addrTables' = addrTables
  PROVE HistoryInv'
<1>1. PICK h \in Seq(Seq(Nat)) : History(h, trail, ast, tables) /\ Open(h) /\ AddrFits(h)
  BY DEF HistoryInv
<1>2. Later /\ phase = "resolving" /\ phase' \in {"threw", "undefined", "resolving", "checking"}
  BY ResolveLater, ResolveSteps
<1>3. AddrFits(h)'
  BY <1>1, <1>2 DEF AddrFits, Entries, Later
<1> QED
  BY <1>1, <1>2, <1>3, LaterHistory DEF BuildInv

LEMMA CheckHistory ==
  ASSUME BuildInv, PhaseInv, ResolvedInv, HistoryInv, Check PROVE HistoryInv'
<1>1. PICK h \in Seq(Seq(Nat)) : History(h, trail, ast, tables) /\ Open(h) /\ AddrFits(h)
  BY DEF HistoryInv
<1>2. Later /\ phase = "checking" /\ phase' \in {"checking", "generating", "threw", "undefined"}
  BY CheckLater
<1>3. addrTables' = addrTables /\ (phase' = "generating" => position' = 0)
  BY CheckVisits, CheckSteps
<1>4. Len(h[1]) = 1
  BY <1>1 DEF History
<1>5. AddrFits(h)'
  BY <1>1, <1>2, <1>3, <1>4 DEF AddrFits, Entries, Later
<1> QED
  BY <1>1, <1>2, <1>5, LaterHistory DEF BuildInv

LEMMA VisitGoes ==
  ASSUME PhaseInv, TrailInv, NEW h \in Seq(Seq(Nat)), History(h, trail, ast, tables),
         phase = "generating", position < Len(trail)
  PROVE /\ position + 1 \in 1 .. Len(trail) /\ Visited.node \in 1 .. Len(ast)
        /\ (position + 1) + 1 \in 1 .. Len(h) /\ Chain(h[(position + 1) + 1], tables)
        /\ Chain(h[position + 1], tables)
        /\ Goes(h[position + 1], Visited, ast, h[(position + 1) + 1])
<1>1. position \in Nat /\ Len(trail) \in Nat /\ Len(h) = Len(trail) + 1
  BY DEF PhaseInv, TrailInv, History
<1>2. /\ position + 1 \in 1 .. Len(trail) /\ position + 1 \in 1 .. Len(h)
      /\ (position + 1) + 1 \in 1 .. Len(h)
  BY <1>1
<1> QED
  BY <1>2, TrailNodes DEF History, Visited

(* The table of a function has its parameters, that of an if nothing.      *)
LEMMA TablePushed ==
  ASSUME Syntax, PushAddrTable, Visited.node \in 1 .. Len(ast)
  PROVE \E x \in [AllNames -> Entries] : addrTables' = << x >> \o addrTables
<1> DEFINE x == [n \in AllNames |->
                   IF Subject.kind = "fn" /\ \E i \in 1 .. Len(Subject.kids) : ast[Kid(i)].name = n
                   THEN Slot(CHOOSE k \in 1 .. Len(ast) :
                               ast[k].name = n /\ \E i \in 1 .. Len(Subject.kids) : Kid(i) = k)
                   ELSE Frame!NoSlot]
<1>1. \A i \in 1 .. Len(Subject.kids) : Kid(i) \in 1 .. Len(ast)
  <2>1. KidsFit(ast, Visited.node)
    BY DEF Syntax, TreeFits, NodeFits
  <2> QED
    BY <2>1 DEF KidsFit, Subject, Kid
<1>2. ASSUME NEW n, \E i \in 1 .. Len(Subject.kids) : ast[Kid(i)].name = n
      PROVE Slot(CHOOSE k \in 1 .. Len(ast) :
                   ast[k].name = n /\ \E i \in 1 .. Len(Subject.kids) : Kid(i) = k) \in Entries
  <2>1. \E k \in 1 .. Len(ast) : ast[k].name = n /\ \E i \in 1 .. Len(Subject.kids) : Kid(i) = k
    BY <1>1, <1>2
  <2>2. (CHOOSE k \in 1 .. Len(ast) :
           ast[k].name = n /\ \E i \in 1 .. Len(Subject.kids) : Kid(i) = k) \in 1 .. Len(ast)
    BY <2>1
  <2> QED
    BY <2>2 DEF Entries
<1>3. x \in [AllNames -> Entries]
  BY <1>2 DEF Entries
<1>4. addrTables' = << x >> \o addrTables
  BY DEF PushAddrTable
<1> HIDE DEF x
<1> QED
  BY <1>3, <1>4

LEMMA TablePopped ==
  ASSUME NEW S, NEW a \in Seq(S), a # << >> PROVE Tail(a) \in Seq(S) /\ Len(Tail(a)) = Len(a) - 1
BY Tailed

LEMMA GenerateHistory ==
  ASSUME BuildInv, PhaseInv, HistoryInv, Generate PROVE HistoryInv'
<1>1. PICK h \in Seq(Seq(Nat)) : History(h, trail, ast, tables) /\ Open(h) /\ AddrFits(h)
  BY DEF HistoryInv
<1>2. Later /\ phase = "generating" /\ ast' = ast
  BY GenerateLater, GenerateSteps DEF treeVars
<1>3. Entries' = Entries
  BY <1>2 DEF Entries
<1>4. addrTables \in Seq([AllNames -> Entries]) /\ Len(addrTables) = Len(h[position + 1])
  BY <1>1, <1>2 DEF AddrFits
<1>5. SUFFICES AddrFits(h)'
  BY <1>1, <1>2, LaterHistory DEF BuildInv
<1>6. CASE phase' \in {"done", "aborted"} /\ addrTables' = addrTables
  BY <1>3, <1>4, <1>6 DEF AddrFits
<1>7. CASE phase' = "generating" /\ position < Len(trail) /\ position' = position + 1
  <2> DEFINE p == position + 1
  <2>1. /\ Visited.node \in 1 .. Len(ast) /\ Chain(h[p + 1], tables) /\ Chain(h[p], tables)
        /\ Goes(h[p], Visited, ast, h[p + 1])
    BY <1>1, <1>2, <1>7, VisitGoes DEF BuildInv
  <2>2. h[p] \in Seq(Nat) /\ Len(h[p]) \in Nat \ {0} /\ Len(h[p + 1]) \in Nat \ {0}
    BY <2>1, Tailed DEF Chain
  <2>3. addrTables # << >>
    BY <1>4, <2>2
  <2>4. SUFFICES addrTables' \in Seq([AllNames -> Entries]) /\ Len(addrTables') = Len(h[p + 1])
    BY <1>3, <1>7 DEF AddrFits
  <2>5. CASE PushAddrTable
    <3>1. PICK x \in [AllNames -> Entries] : addrTables' = << x >> \o addrTables
      BY <2>1, <2>5, TablePushed DEF BuildInv
    <3>2. addrTables' \in Seq([AllNames -> Entries]) /\ Len(addrTables') = Len(addrTables) + 1
      BY <1>4, <3>1, Pushed
    <3>3. Opens(Visited)
      BY <2>5 DEF PushAddrTable, Generates, Opens
    <3>4. h[p + 1] = << Head(h[p + 1]) >> \o h[p] /\ Head(h[p + 1]) \in Nat
      BY <2>1, <3>3, Tailed DEF Goes, Chain
    <3>5. Len(h[p + 1]) = Len(h[p]) + 1
      <4>1. PICK s \in Nat : s = Head(h[p + 1])
        BY <3>4
      <4>2. Len(<< s >> \o h[p]) = Len(h[p]) + 1
        BY <2>2, Pushed
      <4> QED
        BY <3>4, <4>1, <4>2
    <3> QED
      BY <1>4, <3>2, <3>5
  <2>6. CASE PopAddrTable
    <3>1. Closes(Visited, ast)
      BY <2>6 DEF PopAddrTable, Generates, Closes, Subject, BodyKinds
    <3>2. h[p + 1] = Tail(h[p]) /\ h[p] # << >>
      BY <2>1, <2>2, <3>1 DEF Goes, Chain
    <3>3. Len(h[p + 1]) = Len(h[p]) - 1
      BY <2>2, <3>2, Tailed
    <3>4. addrTables' = Tail(addrTables)
      BY <2>6 DEF PopAddrTable
    <3> QED
      BY <1>4, <2>3, <3>3, <3>4, TablePopped
  <2>7. CASE ~PushAddrTable /\ ~PopAddrTable
    <3>1. ~Opens(Visited) /\ ~Closes(Visited, ast)
      BY <1>2, <1>7, <2>7 DEF Generate, AddAddrEntry, FindAddrEntry, GenerateOther, EndGenerate,
         Generates, Opens, Closes, Subject, BodyKinds
    <3>2. h[p + 1] = h[p]
      BY <2>1, <3>1 DEF Goes
    <3>3. CASE AddAddrEntry
      <4>1. Slot(Visited.node) \in Entries
        BY <2>1 DEF Entries
      <4>2. addrTables' = Frame!WithEntry(addrTables, Subject.name, Slot(Visited.node))
        BY <3>3 DEF AddAddrEntry
      <4>3. 1 \in 1 .. Len(addrTables) /\ addrTables[1] \in [AllNames -> Entries]
        <5>1. Len(addrTables) \in Nat \ {0}
          BY <1>4, <2>2
        <5> QED
          BY <1>4, <5>1
      <4>4. PICK slot : slot = Slot(Visited.node)
        OBVIOUS
      <4>5. PICK x : x = IF addrTables[1][Subject.name] = Frame!NoSlot
                         THEN [addrTables[1] EXCEPT ![Subject.name] = slot] ELSE addrTables[1]
        OBVIOUS
      <4>6. x \in [AllNames -> Entries]
        BY <4>1, <4>3, <4>4, <4>5
      <4>7. addrTables' = [addrTables EXCEPT ![1] = x]
        BY <4>2, <4>4, <4>5 DEF Frame!WithEntry
      <4>8. addrTables' \in Seq([AllNames -> Entries]) /\ Len(addrTables') = Len(addrTables)
        BY <1>4, <4>3, <4>6, <4>7, Replaced
      <4> QED
        BY <1>4, <3>2, <4>8
    <3>4. CASE ~AddAddrEntry
      <4>1. addrTables' = addrTables
        BY <2>7, <3>4 DEF Generate, FindAddrEntry, GenerateOther, EndGenerate
      <4> QED
        BY <1>4, <3>2, <4>1
    <3> QED
      BY <3>3, <3>4
  <2> QED
    BY <2>5, <2>6, <2>7
<1> QED
  <2>1. phase' \in {"done", "aborted"} => addrTables' = addrTables
    BY <1>2 DEF Generate, PushAddrTable, PopAddrTable, AddAddrEntry, FindAddrEntry, GenerateOther,
       EndGenerate, generatorRest
  <2> QED
    BY <1>6, <1>7, <2>1, GenerateSteps

LEMMA HistoryStep ==
  ASSUME BuildInv, PhaseInv, ResolvedInv, HistoryInv, [FrontNext]_vars PROVE HistoryInv'
<1>1. CASE Parse /\ UNCHANGED << errors, addrTables >>
  BY <1>1, ParseHistory DEF BuildInv
<1>2. CASE Resolve /\ UNCHANGED << errors, addrTables >>
  BY <1>2, ResolveHistory
<1>3. CASE UNCHANGED vars
  <2>1. UNCHANGED << phase, ast, trail, tables, currentScope, addrTables, position >>
    BY <1>3 DEF vars, parserState
  <2> QED
    BY <2>1 DEF HistoryInv, Open, AddrFits, Entries
<1> QED
  BY <1>1, <1>2, <1>3, CheckHistory, GenerateHistory, StepCases

LEMMA HistoryInit == FrontInit => HistoryInv
<1> SUFFICES ASSUME FrontInit PROVE HistoryInv
  OBVIOUS
<1>1. /\ phase = "parsing" /\ trail = << >> /\ tables = << EmptyTable(0, AllNames) >>
      /\ currentScope = 1 /\ addrTables = << Frame!EmptyScope(AllNames) >>
  BY DEF FrontInit, Init
<1>2. PICK c : c = << 1 >>
  OBVIOUS
<1>3. c \in Seq(Nat) /\ c # << >> /\ Len(c) = 1 /\ c[1] = 1 /\ Head(c) = 1
  BY <1>2
<1>4. Chain(c, tables)
  BY <1>1, <1>3 DEF Chain
<1>5. PICK h : h = << c >>
  OBVIOUS
<1>6. h \in Seq(Seq(Nat)) /\ Len(h) = 1 /\ h[1] = c
  BY <1>3, <1>5
<1>7. History(h, trail, ast, tables) /\ Open(h)
  BY <1>1, <1>2, <1>3, <1>4, <1>6 DEF History, Open
<1>8. Frame!EmptyScope(AllNames) \in [AllNames -> Entries]
  BY DEF Frame!EmptyScope, Entries
<1>9. AddrFits(h)
  BY <1>1, <1>8 DEF AddrFits
<1> QED
  BY <1>6, <1>7, <1>9 DEF HistoryInv

-----------------------------------------------------------------------------
(* The invariant, and what follows from it.                                *)

LEMMA PhasesStep == ASSUME phase \in Phases, BuildInv, PhaseInv, ResolvedInv, [FrontNext]_vars
                    PROVE phase' \in Phases
<1>1. UNCHANGED vars => phase' = phase
  BY DEF vars, parserState
<1>2. phase' \in {"parsing", "resolving", "checking", "generating", "done", "threw",
                  "undefined", "aborted"} \/ phase' = phase
  BY <1>1, StepCases, ParsesWhen, ResolveSteps, CheckLater, GenerateSteps
<1> QED
  BY <1>2 DEF Phases, Stopped

FrontInv ==
  /\ phase \in Phases
  /\ BuildInv /\ PhaseInv /\ ResolvedInv /\ CheckedInv /\ HistoryInv

LEMMA FrontSafe == FrontSpec => []FrontInv
<1>1. FrontInit => FrontInv
  <2>1. FrontInit => CheckedInv /\ phase \in Phases
    BY DEF FrontInit, Init, CheckedInv, Phases
  <2> QED
    BY <2>1, BuildInit, HistoryInit DEF FrontInv
<1>2. FrontInv /\ [FrontNext]_vars => FrontInv'
  BY PhasesStep, BuildStep, PhaseStep, ResolvedStep, CheckedStep, HistoryStep DEF FrontInv
<1> QED
  BY <1>1, <1>2, PTL DEF FrontSpec

(* The parser, the checker and the generator only ever use nodes, scopes   *)
(* and tables that are there: no child, owner or callee dangles, the scope *)
(* that a parser closes has one around it, a position stays within what it *)
(* runs through, and the generator never closes a table it has not opened. *)
THEOREM FrontTyped == FrontSpec => []FrontTypeOK
<1>1. FrontInv => FrontTypeOK
  <2> SUFFICES ASSUME FrontInv PROVE FrontTypeOK
    OBVIOUS
  <2>1. Syntax /\ NodesInv /\ TrailInv /\ TablesInv /\ ScopesInv /\ ExplicitInv /\ CallsInv /\ PhaseInv
    BY DEF FrontInv, BuildInv
  <2>2. ast \in Seq(TreeNode) /\ agenda \in Seq(Item) /\ token \in Infix \cup {"none"} /\ Len(ast) \in Nat
    BY <2>1 DEF Syntax
  <2>3. ASSUME NEW n \in 1 .. Len(ast)
        PROVE /\ ast[n].fn \in 0 .. Len(ast)
              /\ \A i \in 1 .. Len(ast[n].kids) : ast[n].kids[i] \in 1 .. Len(ast)
    <3>1. NodeFits(ast, n)
      BY <2>1 DEF Syntax, TreeFits
    <3>2. ast[n].fn = 0 \/ ast[n].fn \in 1 .. Len(ast)
      BY <3>1 DEF NodeFits, IsNode
    <3>3. \A i \in 1 .. Len(ast[n].kids) : ast[n].kids[i] \in 1 .. Len(ast)
      BY <3>1 DEF NodeFits, KidsFit
    <3> QED
      BY <2>2, <3>2, <3>3
  <2>4. trail \in Seq(TrailStep) /\ \A p \in 1 .. Len(trail) : trail[p].node \in 1 .. Len(ast)
    BY <2>1, TrailNodes DEF TrailInv
  <2>5. ASSUME NEW s \in 1 .. Len(tables)
        PROVE /\ tables[s].parent \in 0 .. (s - 1)
              /\ \A n \in AllNames : tables[s].symbols[n] \in 0 .. Len(ast)
    <3>1. TableFits(ast, tables[s], s)
      BY <2>1 DEF TablesInv, TablesFit
    <3>2. \A d, n : Declared(ast, d, n) => d = 0 \/ d \in 1 .. Len(ast)
      BY DEF Declared
    <3> QED
      BY <2>2, <3>1, <3>2 DEF TableFits
  <2>6. tables \in Seq(Table)
    BY <2>1 DEF TablesInv, TablesFit
  <2>7. phase = "parsing" => currentScope # 0
    <3>1. ASSUME phase = "parsing" PROVE currentScope \in 1 .. Len(tables)
      BY <2>1, <2>2, <3>1, ScopeOpen DEF ScopesInv
    <3> QED
      BY <2>6, <3>1
  <2>8. fnTypes \in [FnNames -> 0 .. Len(ast)]
    <3>1. fnTypes \in [FnNames -> Nat] /\ \A f \in FnNames : fnTypes[f] = 0 \/ fnTypes[f] \in 1 .. Len(ast)
      BY <2>1 DEF TablesInv, FunctionsFit, IsNode
    <3> QED
      BY <2>2, <3>1
  <2>9. defered \in Seq(DeferedCall) /\ \A i \in 1 .. Len(defered) : defered[i].node \in 1 .. Len(ast)
    BY <2>1 DEF CallsInv, CallFits
  <2>10. explicitTypes \in Seq(1 .. Len(ast))
    <3>1. CASE explicitTypes = << >>
      BY <3>1
    <3>2. CASE explicitTypes # << >>
      <4>1. PICK n : explicitTypes = << n >>
        BY <2>1, <3>2 DEF ExplicitInv, ExplicitFits
      <4>2. Head(explicitTypes) \in 1 .. Len(ast) /\ Head(explicitTypes) = n
        BY <2>1, <3>2, <4>1, ExplicitLet DEF IsNode
      <4> QED
        BY <4>1, <4>2
    <3> QED
      BY <3>1, <3>2
  <2>11. ASSUME NEW i \in 1 .. Len(agenda), agenda[i] \in HolderItem
         PROVE agenda[i].node \in 1 .. Len(ast)
    <3>1. ItemFits(ast, agenda[i])
      BY <2>1 DEF Syntax, AgendaFits
    <3>2. agenda[i].what \notin Levelled
      BY <2>11 DEF HolderItem, Levelled, BodyKinds
    <3> QED
      BY <3>1, <3>2 DEF ItemFits, IsNode
  <2>12. addrTables \in Seq([AllNames -> Entries])
    BY DEF FrontInv, HistoryInv, AddrFits
  <2>13. /\ phase \in Phases /\ position \in Nat /\ errors \in Nat
         /\ phase = "resolving" => position <= Len(defered)
         /\ phase \in {"checking", "generating"} => position <= Len(trail)
    BY <2>1 DEF FrontInv, PhaseInv
  <2>14. /\ types \in Seq(NodeTypes) /\ muts \in Seq(BOOLEAN)
         /\ Len(types) = Len(ast) /\ Len(muts) = Len(ast) /\ value \in 0 .. Len(ast)
    BY <2>1 DEF NodesInv
  <2>15. currentScope \in 0 .. Len(tables)
    BY <2>1 DEF ScopesInv
  <2> QED
    BY <2>2, <2>3, <2>4, <2>5, <2>6, <2>7, <2>8, <2>9, <2>10, <2>11, <2>12, <2>13, <2>14, <2>15
    DEF FrontTypeOK, Entries
<1> QED
  BY FrontSafe, <1>1, PTL

(* However the operators of an expression follow one another, the left     *)
(* operand of each binds at least as tightly as it does, and the right one *)
(* more tightly: parse_expr needs no parentheses to build the tree.        *)
THEOREM PrecedenceSafe == FrontSpec => []PrecedenceRespected
<1>1. FrontInv => PrecedenceRespected
  <2> SUFFICES ASSUME FrontInv, NEW n \in NodesOf("binary")
               PROVE /\ Len(ast[n].kids) > 0 => Ops(ast[n].kids[1]) >= Ops(n)
                     /\ Len(ast[n].kids) = 2 => Ops(ast[n].kids[2]) > Ops(n)
    BY DEF PrecedenceRespected
  <2>1. n \in 1 .. Len(ast) /\ ast[n].kind = "binary" /\ Ranked(ast, n)
    BY DEF NodesOf, FrontInv, BuildInv, Syntax, TreeFits
  <2>2. \A k : Ops(k) = Level(ast, k)
    BY DEF Ops, Level
  <2> QED
    BY <2>1, <2>2 DEF Ranked
<1> QED
  BY FrontSafe, <1>1, PTL

(* Once the checker has let a program through, whatever literals it has    *)
(* retyped on its way: operands agree in their type id, initialisers,      *)
(* conditions, returned values and arguments have exactly the type that is *)
(* asked for, and what is assigned to is mut.                              *)
THEOREM WellTypedSafe == FrontSpec => []WellTyped
<1>1. FrontInv => WellTyped
  BY DEF FrontInv, CheckedInv, WellTyped, CheckedNodes
<1> QED
  BY FrontSafe, <1>1, PTL

=============================================================================
