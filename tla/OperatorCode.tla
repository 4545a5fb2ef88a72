---------------------------- MODULE OperatorCode ----------------------------
(***************************************************************************)
(* The code of the binary operators, integral_bin_op and boolean_bin_op of *)
(* codegen/amd64/generator.cpp, and what it does to the registers.         *)
(***************************************************************************)
EXTENDS Emitter

IntegralType == {"u8", "i8", "u16", "i16", "u32", "i32", "u64", "i64"}
ValueType == IntegralType \cup {"bool", "str"}

Arithmetic == {"Plus", "Minus", "Star", "Slash", "Modulus"}
Division == {"Slash", "Modulus"}
Logical == {"LogOr", "LogAnd"}
Equality == {"DoubleEquals", "NotEqual"}

Size(t) ==
  CASE t \in {"u8", "i8", "bool"} -> 1
    [] t \in {"u16", "i16"} -> 2
    [] t \in {"u32", "i32"} -> 4
    [] t \in {"u64", "i64", "str"} -> 8

(* Mistake: a move that forgets the size of the type.                      *)
MoveLowByte(destination, t, source) == emit_mov8_rr(destination, source)

MoveRegister(destination, t, source) ==
  CASE Size(t) = 1 -> emit_mov8_rr(destination, source)
    [] Size(t) = 2 -> emit_mov16_rr(destination, source)
    [] Size(t) = 4 -> emit_mov32_rr(destination, source)
    [] Size(t) = 8 -> emit_mov64_rr(destination, source)

-----------------------------------------------------------------------------
(* Code of the binary operators.  Every result ends up in right.           *)

ArithmeticCode(op, t, left, right) ==
  LET wide == Size(t) = 8 IN
  CASE op = "Plus" ->
         IF wide THEN emit_add64_rr(left, right) ELSE emit_add32_rr(left, right)
    [] op = "Star" ->
         IF wide THEN emit_imul64(left, right) ELSE emit_imul32(left, right)
    [] op = "Minus" ->
         (IF wide THEN emit_sub64_rr(right, left) ELSE emit_sub32_rr(right, left))
         \o MoveRegister(right, t, left)
    [] op \in Division ->
         MoveRegister(RAX, t, left) \o emit_xor64(RDX, RDX)
         \o (IF wide THEN emit_idiv64(right) ELSE emit_idiv32(right))
         \o MoveRegister(right, t, IF op = "Slash" THEN RAX ELSE RDX)

(* Mistakes: a jump over the other constant that is a byte short or long.  *)
SelectShort(test, right, onFall) ==
  test \o emit_mov8_imm(right, onFall) \o emit_jmp_rel8(2)
  \o emit_mov8_imm(right, 1 - onFall)
SelectLong(test, right, onFall) ==
  test \o emit_mov8_imm(right, onFall) \o emit_jmp_rel8(4)
  \o emit_mov8_imm(right, 1 - onFall)

(* After a test with its branch: set right to one constant on falling      *)
(* through and to the other on the branch taken.  The distances of the     *)
(* jumps are constants of the code.                                        *)
Select(test, right, onFall) ==
  test \o emit_mov8_imm(right, onFall) \o emit_jmp_rel8(3)
  \o emit_mov8_imm(right, 1 - onFall)

CompareCode(op, operandType, left, right) ==
  LET cmp == IF Size(operandType) = 8 THEN emit_cmp64(left, right)
                                      ELSE emit_cmp32_rr(left, right)
  IN IF op = "DoubleEquals" THEN Select(cmp \o emit_jne_rel8(5), right, 1)
                            ELSE Select(cmp \o emit_je_rel8(5), right, 1)

LogicalCode(op, left, right) ==
  IF op = "LogOr"
    THEN emit_test8(left, 1) \o emit_jne_rel8(10)
         \o Select(emit_test8(right, 1) \o emit_jne_rel8(5), right, 0)
    ELSE emit_test8(left, 1) \o emit_je_rel8(10)
         \o Select(emit_test8(right, 1) \o emit_je_rel8(5), right, 1)

BinaryCode(op, operandType, left, right) ==
  CASE op \in Arithmetic -> ArithmeticCode(op, operandType, left, right)
    [] op \in Equality -> CompareCode(op, operandType, left, right)
    [] op \in Logical -> LogicalCode(op, left, right)

-----------------------------------------------------------------------------
(* What the code does to the registers.                                    *)

(* Of R8 to R15 only three bits reach an instruction that has no REX.R or  *)
(* REX.B for them: a move of an immediate, a load from a slot.             *)
Encoded(r) == IF r > RDI THEN r - 8 ELSE r

(* In an instruction on bytes without a REX prefix the numbers of RSP, RBP,*)
(* RSI and RDI mean AH, CH, DH and BH.                                     *)
HighByteNumber == 4 .. 7
ByteTarget(r) == IF r \in HighByteNumber THEN r - 4 ELSE r

(* Operators whose result arrives in right by a move of a byte.            *)
MovesByte(op, t) ==
  op \in Equality \cup Logical \/ (op \in {"Minus"} \cup Division /\ Size(t) = 1)

(* Some instruction names another register than the generator means: no    *)
(* instruction of an operator has REX.R or REX.B, those on bytes no REX    *)
(* prefix at all.  == and != touch left with a comparison only.            *)
Misnames(op, t, left, right) ==
  \/ left > RDI
  \/ right > RDI
  \/ MovesByte(op, t) /\ right \in HighByteNumber
  \/ MovesByte(op, t) /\ op \notin Equality /\ left \in HighByteNumber

(* What the registers hold afterwards, given what they held and the value  *)
(* of the expression: division uses RAX and RDX, the difference is formed  *)
(* in the left operand first, and a byte moved to a high byte spoils the   *)
(* register that has it and leaves right alone.  From R8 on the fields of  *)
(* ModRM run into each other, and nothing is known of any register.        *)
Effect(holds, none, op, t, left, right, result) ==
  LET target == IF MovesByte(op, t) THEN ByteTarget(right) ELSE right
      Held(r) ==
        IF r = target THEN IF Misnames(op, t, left, right) THEN none ELSE result
        ELSE IF op \in Division /\ r \in {RAX, RDX} THEN none
        ELSE IF op = "Minus" /\ r = left THEN result
        ELSE holds[r]
  IN [r \in Register |-> IF left > RDI \/ right > RDI THEN none ELSE Held(r)]
=============================================================================
