----------------------------- MODULE StackFrame -----------------------------
(***************************************************************************)
(* The frame of a generated function: codegen/amd64/stack_allocator.cpp    *)
(* hands out displacements from RSP, codegen/addr_table.cpp remembers      *)
(* which name lives at which displacement, scope by scope.                 *)
(***************************************************************************)
EXTENDS Integers, Sequences

(* calc_shadow_space: the home area a caller leaves for its callee.        *)
ShadowSpace == 32

(* reserve(FnDeclExpr) moves RSP down by this much, whatever the function  *)
(* declares.                                                               *)
FrameSize == 100 + ShadowSpace

(* Mistake: locals right after the shadow space, on the home of R9.        *)
FirstLocalInHome == 32

(* current_sp_offset_ after the constructor and after reset().             *)
FirstLocal == 40

(* store_fn_args puts argument i, counted from 1, at 8 * i.                *)
ArgHome(i) == 8 * i
MaxRegisterArgs == 4

(* A scope gives each name the slot it is declared to have there, if any;  *)
(* the generator keeps the scopes as a stack, the innermost first.         *)
Slot(addr, t) == [addr |-> addr, type |-> t]
NoSlot == Slot(0, "none")
EmptyScope(names) == [n \in names |-> NoSlot]

Declares(scopes, i, n) == scopes[i][n] # NoSlot
Resolves(scopes, n) == \E i \in 1 .. Len(scopes) : Declares(scopes, i, n)

(* AddrTable::find looks in the innermost scope that has the name.         *)
IsInnermost(scopes, n, i) ==
  /\ i \in 1 .. Len(scopes)
  /\ Declares(scopes, i, n)
  /\ \A j \in 1 .. (i - 1) : ~Declares(scopes, j, n)

(* AddrTable::add inserts into the innermost scope and never replaces.     *)
WithEntry(scopes, n, slot) ==
  [scopes EXCEPT ![1] = IF @[n] = NoSlot THEN [@ EXCEPT ![n] = slot] ELSE @]
=============================================================================
