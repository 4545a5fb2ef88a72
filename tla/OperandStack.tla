---------------------------- MODULE OperandStack ----------------------------
(***************************************************************************)
(* What the evaluation of expressions promises, seen without registers: a  *)
(* stack machine.  An operand is a positive number that stands for a       *)
(* value; operands are loaded, the last two are combined by an operator,   *)
(* and the last one is taken by the statement that wanted it.  No step     *)
(* changes, reorders or loses an operand below the ones it works on.  The  *)
(* machine may break; from then on it promises nothing.                    *)
(***************************************************************************)
EXTENDS Naturals, Sequences

VARIABLES operands, broken

StackInit == operands = << >> /\ broken = FALSE

Below(n) == SubSeq(operands, 1, Len(operands) - n)

(* A new operand takes the place of the last n ones.                       *)
Yields(n) ==
  /\ Len(operands) >= n
  /\ Len(operands') = Len(operands) - n + 1
  /\ SubSeq(operands', 1, Len(operands) - n) = Below(n)
  /\ operands'[Len(operands')] # 0
  /\ \A i \in 1 .. Len(operands) : operands[i] # operands'[Len(operands')]

Load == Yields(0)
Combine == Yields(2)
Take == operands # << >> /\ operands' = Below(1)

Work == ~broken /\ ~broken' /\ (Load \/ Combine \/ Take)
Break == broken'

StackSpec == StackInit /\ [][Work \/ Break]_<< operands, broken >>
=============================================================================
