------------------------- MODULE RegisterAllocator -------------------------
(***************************************************************************)
(* The register file of briskc's x64 back end                              *)
(* (codegen/amd64/register_allocator.cpp, x64.h).  A register is its       *)
(* hardware number.  allocated_ is the set of registers in use, mode_ is   *)
(* "None" or "Call"; the evaluation stack is a sequence of its client,     *)
(* because one visitor of the generator pops and pushes it in one step.    *)
(*                                                                         *)
(* A handler that throws is modelled by its caller: CanGrant is false      *)
(* exactly when get_free throws.                                           *)
(***************************************************************************)
EXTENDS Naturals

Register == 0 .. 15

RAX == 0
RCX == 1
RDX == 2
RBX == 3
RSP == 4
RDI == 7
R8  == 8
R9  == 9
R10 == 10
R11 == 11

AllocatorMode == {"None", "Call"}

(* Mistakes: a constructor that leaves RSP, or RDX, to get_free.           *)
StackPointerFree == {RAX, RDX}
RemainderFree == {RAX, RSP}

(* The registers the constructor marks as taken.                           *)
InitiallyAllocated == {RAX, RDX, RSP}

(* Integer arguments travel in RCX, RDX, R8 and R9, in this order, which   *)
(* is also the order of their numbers.                                     *)
ArgRegisters == {RCX, RDX, R8, R9}
ArgRegister(i) == <<RCX, RDX, R8, R9>>[i]

(* What a callee may overwrite: the argument registers and the ones the    *)
(* comment of visit(FnCallExpr) lists.                                     *)
VolatileRegisters == ArgRegisters \cup {RAX, R10, R11}

(* Mistakes: a search in call mode that does not look whether the register *)
(* is taken, and a loop that stops before R15.                             *)
TakenToo(allocated, mode) ==
  IF mode = "Call" THEN ArgRegisters ELSE Register \ allocated
AllButLast(allocated, mode) ==
  (IF mode = "Call" THEN ArgRegisters ELSE 0 .. 14) \ allocated

(* get_free looks through these registers ...                              *)
Candidates(allocated, mode) ==
  (IF mode = "Call" THEN ArgRegisters ELSE Register) \ allocated

(* ... throws when there is none, and otherwise takes the first.           *)
CanGrant(allocated, mode) == Candidates(allocated, mode) # {}

Grants(allocated, mode, r) ==
  /\ r \in Candidates(allocated, mode)
  /\ \A s \in Candidates(allocated, mode) : r <= s

(* Mistakes: a free and a prepare_call that forget to.                     *)
FreedNothing(allocated, r) == allocated
NothingPrepared(allocated) == allocated

(* free, and the frees of prepare_call, which forgets whatever the         *)
(* argument registers hold.                                                *)
Freed(allocated, r) == allocated \ {r}
PreparedForCall(allocated) == allocated \ ArgRegisters
=============================================================================
