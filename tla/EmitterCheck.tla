---------------------------- MODULE EmitterCheck ----------------------------
(***************************************************************************)
(* The emitter against the processor: whatever sequence of instructions    *)
(* the generator asks for, the bytes in the buffer decode to it, apart     *)
(* from registers that the bytes cannot name.                              *)
(***************************************************************************)
EXTENDS OperatorCode, X64Decoder

CONSTANTS
  Ops,          \* registers passed to the calls on 16, 32 and 64 bits
  ByteOps,      \* registers passed to the calls on bytes
  Stored,       \* registers passed to the stores to a stack slot
  Loaded,       \* registers that literals and slots are moved into
  Displacements,
  Immediates,
  MaxProgram    \* bound: instructions in the buffer

ASSUME MaxProgramAssumption == MaxProgram \in Nat

VARIABLES
  buffer,       \* the bytes emitted
  program       \* history: the instructions that were asked for

emitterVars == << buffer, program >>

(* A call of the emitter, as the bytes it appends and the instruction that *)
(* its name and its parameters' names ask for.                             *)
ArithmeticCalls(a, b) ==
  { << emit_add32_rr(a, b), Instruction("add", 32, Reg(b), Reg(a), 0) >>,
    << emit_add64_rr(a, b), Instruction("add", 64, Reg(b), Reg(a), 0) >>,
    << emit_sub32_rr(a, b), Instruction("sub", 32, Reg(b), Reg(a), 0) >>,
    << emit_sub64_rr(a, b), Instruction("sub", 64, Reg(b), Reg(a), 0) >>,
    << emit_imul32(a, b), Instruction("imul", 32, Reg(b), Reg(a), 0) >>,
    << emit_imul64(a, b), Instruction("imul", 64, Reg(b), Reg(a), 0) >>,
    << emit_idiv32(a), Instruction("idiv", 32, Reg(a), NoOperand, 0) >>,
    << emit_idiv64(a), Instruction("idiv", 64, Reg(a), NoOperand, 0) >>,
    << emit_xor64(a, a), Instruction("xor", 64, Reg(a), Reg(a), 0) >>,
    << emit_cmp32_rr(a, b), Instruction("cmp", 32, Reg(b), Reg(a), 0) >>,
    << emit_cmp64(a, b), Instruction("cmp", 64, Reg(b), Reg(a), 0) >>,
    << emit_mov16_rr(a, b), Instruction("mov", 16, Reg(a), Reg(b), 0) >>,
    << emit_mov32_rr(a, b), Instruction("mov", 32, Reg(a), Reg(b), 0) >>,
    << emit_mov64_rr(a, b), Instruction("mov", 64, Reg(a), Reg(b), 0) >> }

ByteCalls(a, b, v) ==
  { << emit_mov8_rr(a, b), Instruction("mov", 8, Reg(a), Reg(b), 0) >>,
    << emit_test8(a, v), Instruction("test", 8, Reg(a), NoOperand, v) >>,
    << emit_mov8_imm(a, v), Instruction("mov", 8, Reg(a), NoOperand, v) >> }

ImmediateCalls(a, v) ==
  { << emit_add64_imm32(RSP, v), Instruction("add", 64, Reg(RSP), NoOperand, v) >>,
    << emit_sub64_imm32(RSP, v), Instruction("sub", 64, Reg(RSP), NoOperand, v) >>,
    << emit_lea64(a, 0), Instruction("lea", 64, Reg(a), RipRelative, 0) >>,
    << emit_je_rel8(v), Instruction("je", 0, NoOperand, NoOperand, v) >>,
    << emit_jne_rel8(v), Instruction("jne", 0, NoOperand, NoOperand, v) >>,
    << emit_jmp_rel8(v), Instruction("jmp", 0, NoOperand, NoOperand, v) >>,
    << emit_ret, Instruction("ret", 0, NoOperand, NoOperand, 0) >>,
    << emit_call, Instruction("call", 0, NoOperand, NoOperand, 0) >> }

(* The moves into the registers of operands, and that of a value returned. *)
LoadCalls(a, d, v) ==
  { << emit_mov32_imm(a, v), Instruction("mov", 32, Reg(a), NoOperand, v) >>,
    << emit_mov64_imm(a, v), Instruction("mov", 64, Reg(a), NoOperand, v) >>,
    << emit_mov32_rr(RAX, a), Instruction("mov", 32, Reg(RAX), Reg(a), 0) >>,
    << emit_spd_mov32_load(a, d), Instruction("mov", 32, Reg(a), StackSlot(d), 0) >>,
    << emit_spd_mov64_load(a, d), Instruction("mov", 64, Reg(a), StackSlot(d), 0) >>,
    << emit_spd_movzx8(a, d), Instruction("movzx8", 32, Reg(a), StackSlot(d), 0) >>,
    << emit_spd_movzx16(a, d), Instruction("movzx16", 32, Reg(a), StackSlot(d), 0) >>,
    << emit_spd_movsx8(a, d), Instruction("movsx8", 32, Reg(a), StackSlot(d), 0) >>,
    << emit_spd_movsx16(a, d), Instruction("movsx16", 32, Reg(a), StackSlot(d), 0) >> }

StoreCalls(s, d, v) ==
  { << emit_spd_mov16_store(d, s), Instruction("mov", 16, StackSlot(d), Reg(s), 0) >>,
    << emit_spd_mov32_store(d, s), Instruction("mov", 32, StackSlot(d), Reg(s), 0) >>,
    << emit_spd_mov64_store(d, s), Instruction("mov", 64, StackSlot(d), Reg(s), 0) >>,
    << emit_spd_mov8_imm(d, v), Instruction("mov", 8, StackSlot(d), NoOperand, v) >>,
    << emit_spd_mov16_imm(d, v), Instruction("mov", 16, StackSlot(d), NoOperand, v) >>,
    << emit_spd_mov32_imm(d, v), Instruction("mov", 32, StackSlot(d), NoOperand, v) >>,
    << emit_spd_mov8_store(d, s), Instruction("mov", 8, StackSlot(d), Reg(s), 0) >> }

-----------------------------------------------------------------------------
Init == buffer = << >> /\ program = << >>

Emits(calls) ==
  /\ Len(program) < MaxProgram
  /\ \E c \in calls :
       /\ buffer' = buffer \o c[1]
       /\ program' = Append(program, c[2])

EmitArithmetic == \E a, b \in Ops : Emits(ArithmeticCalls(a, b))
EmitByte == \E a, b \in ByteOps, v \in Immediates : Emits(ByteCalls(a, b, v))
EmitImmediate == \E a \in Ops, v \in Immediates : Emits(ImmediateCalls(a, v))
EmitLoad ==
  \E a \in Loaded, d \in Displacements, v \in Immediates : Emits(LoadCalls(a, d, v))
EmitStore ==
  \E s \in Stored, d \in Displacements, v \in Immediates : Emits(StoreCalls(s, d, v))

Full == Len(program) = MaxProgram /\ UNCHANGED emitterVars

Next == EmitArithmetic \/ EmitByte \/ EmitImmediate \/ EmitLoad \/ EmitStore \/ Full

Spec == Init /\ [][Next]_emitterVars

-----------------------------------------------------------------------------
(* What an instruction names in place of a register.  On bytes the numbers *)
(* of RBP, RSI and RDI mean CH, DH and BH; R8 to R15 lose the high bit of  *)
(* their number, except in stores, where REX.R carries it.                 *)
Named(operand, ins) ==
  CASE operand[1] # "reg" -> operand
    [] ins.size = 8 /\ operand[2] \in HighByteNumber -> HighByte(ByteTarget(operand[2]))
    [] ins.dst[1] = "slot" -> operand
    [] OTHER -> Reg(Encoded(operand[2]))

AsNamed(ins) == [ins EXCEPT !.dst = Named(@, ins), !.src = Named(@, ins)]

(* The buffer is the program: instruction boundaries, operand sizes,       *)
(* displacements and immediates all survive the encoding, in whatever      *)
(* order the calls of the emitter come, and the registers up to the two    *)
(* families that lack a prefix, which the generator's record of what the   *)
(* registers hold takes into account (emitter.cpp:117-145, 222-299).       *)
BufferDecodes == Disassembly(buffer) = [i \in 1 .. Len(program) |-> AsNamed(program[i])]
=============================================================================
