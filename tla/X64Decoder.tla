----------------------------- MODULE X64Decoder -----------------------------
(***************************************************************************)
(* What the processor makes of the bytes: a decoder for the part of x64    *)
(* that the emitter uses, written from the instruction formats and not     *)
(* from the emitter.  It is the reference the encoder is checked against.  *)
(***************************************************************************)
EXTENDS Integers, Sequences

(* Operands: a register by number; one of AH, CH, DH, BH; a stack slot by  *)
(* displacement from RSP; an address relative to the next instruction.     *)
Reg(n) == << "reg", n >>
HighByte(n) == << "high", n >>
StackSlot(d) == << "slot", d >>
RipRelative == << "rip", 0 >>
NoOperand == << "none", 0 >>

Instruction(op, size, dst, src, imm) ==
  [op |-> op, size |-> size, dst |-> dst, src |-> src, imm |-> imm]

Undecodable == Instruction("undecodable", 0, NoOperand, NoOperand, 0)

-----------------------------------------------------------------------------
(* Immediates and displacements at position i of a byte sequence b.        *)

Signed8(n) == IF n < 128 THEN n ELSE n - 256
Value16(b, i) == b[i] + 256 * b[i + 1]

(* The immediates of interest are small: the two high bytes are zero.      *)
Value32(b, i) == Value16(b, i)

-----------------------------------------------------------------------------
(* Prefixes.                                                               *)

HasWordPrefix(b) == b[1] = 102
RexAt(b) == IF HasWordPrefix(b) THEN 2 ELSE 1
HasRex(b) == RexAt(b) <= Len(b) /\ b[RexAt(b)] \in 64 .. 79
RexBit(b, k) == IF HasRex(b) THEN (b[RexAt(b)] \div k) % 2 ELSE 0
OpcodeAt(b) == IF HasRex(b) THEN RexAt(b) + 1 ELSE RexAt(b)

OperandSize(b) ==
  IF RexBit(b, 8) = 1 THEN 64 ELSE IF HasWordPrefix(b) THEN 16 ELSE 32

(* Without REX the byte registers 4 to 7 are AH, CH, DH and BH.            *)
RegisterOperand(b, size, n) ==
  IF size = 8 /\ ~HasRex(b) /\ n \in 4 .. 7 THEN HighByte(n - 4) ELSE Reg(n)

-----------------------------------------------------------------------------
(* The ModR/M byte at position i.                                          *)

Mod(b, i) == b[i] \div 64
Digit(b, i) == (b[i] \div 8) % 8
RegField(b, i) == Digit(b, i) + 8 * RexBit(b, 4)
RmField(b, i) == b[i] % 8

(* Registers, RSP + disp8 through a SIB byte without index, RIP + disp32.  *)
RmOperand(b, i, size) ==
  CASE Mod(b, i) = 3 -> RegisterOperand(b, size, RmField(b, i) + 8 * RexBit(b, 1))
    [] Mod(b, i) = 1 /\ RmField(b, i) = 4 /\ b[i + 1] = 36 /\ RexBit(b, 1) = 0 ->
         StackSlot(Signed8(b[i + 2]))
    [] Mod(b, i) = 0 /\ RmField(b, i) = 5 -> RipRelative
    [] OTHER -> NoOperand

RmLength(b, i) ==
  CASE Mod(b, i) = 3 -> 1
    [] Mod(b, i) = 1 /\ RmField(b, i) = 4 -> 3
    [] Mod(b, i) = 1 -> 2
    [] Mod(b, i) = 0 /\ RmField(b, i) = 5 -> 5
    [] OTHER -> 1

-----------------------------------------------------------------------------
(* The instruction at the start of b, with its length.                     *)

RmToReg(b, op, m, size, from) ==
  [ins |-> Instruction(op, size, RegisterOperand(b, size, RegField(b, m)),
                       RmOperand(b, m, from), 0),
   length |-> m - 1 + RmLength(b, m)]

RegToRm(b, op, m, size) ==
  [ins |-> Instruction(op, size, RmOperand(b, m, size),
                       RegisterOperand(b, size, RegField(b, m)), 0),
   length |-> m - 1 + RmLength(b, m)]

ImmToRm(b, op, m, size, bytes) ==
  LET at == m + RmLength(b, m) IN
  [ins |-> Instruction(op, size, RmOperand(b, m, size), NoOperand,
                       CASE bytes = 0 -> 0
                         [] bytes = 1 -> b[at]
                         [] bytes = 2 -> Value16(b, at)
                         [] bytes = 4 -> Value32(b, at)),
   length |-> at - 1 + bytes]

Plain(op, imm, length) ==
  [ins |-> Instruction(op, 0, NoOperand, NoOperand, imm), length |-> length]

Bad == [ins |-> Undecodable, length |-> 1]

DecodeTwoByte(b, m) ==
  CASE b[m - 1] = 175 -> RmToReg(b, "imul", m, OperandSize(b), OperandSize(b))
    [] b[m - 1] = 182 -> RmToReg(b, "movzx8", m, OperandSize(b), 8)
    [] b[m - 1] = 183 -> RmToReg(b, "movzx16", m, OperandSize(b), 16)
    [] b[m - 1] = 190 -> RmToReg(b, "movsx8", m, OperandSize(b), 8)
    [] b[m - 1] = 191 -> RmToReg(b, "movsx16", m, OperandSize(b), 16)
    [] OTHER -> Bad

DecodeOneByte(b, opcode, m) ==
  LET size == OperandSize(b) IN
  CASE opcode = 3 -> RmToReg(b, "add", m, size, size)
    [] opcode = 43 -> RmToReg(b, "sub", m, size, size)
    [] opcode = 51 -> RmToReg(b, "xor", m, size, size)
    [] opcode = 57 -> RegToRm(b, "cmp", m, size)
    [] opcode = 136 -> RegToRm(b, "mov", m, 8)
    [] opcode = 137 -> RegToRm(b, "mov", m, size)
    [] opcode = 139 -> RmToReg(b, "mov", m, size, size)
    [] opcode = 141 -> RmToReg(b, "lea", m, size, size)
    [] opcode = 129 /\ Digit(b, m) = 0 -> ImmToRm(b, "add", m, size, 4)
    [] opcode = 129 /\ Digit(b, m) = 5 -> ImmToRm(b, "sub", m, size, 4)
    [] opcode = 198 /\ Digit(b, m) = 0 -> ImmToRm(b, "mov", m, 8, 1)
    [] opcode = 199 /\ Digit(b, m) = 0 ->
         ImmToRm(b, "mov", m, size, IF size = 16 THEN 2 ELSE 4)
    [] opcode = 246 /\ Digit(b, m) = 0 -> ImmToRm(b, "test", m, 8, 1)
    [] opcode = 247 /\ Digit(b, m) = 7 -> ImmToRm(b, "idiv", m, size, 0)
    [] opcode \in 184 .. 191 ->
         [ins |-> Instruction("mov", size,
                              RegisterOperand(b, size, opcode - 184 + 8 * RexBit(b, 1)),
                              NoOperand, Value32(b, m)),
          length |-> m - 1 + (IF size = 64 THEN 8 ELSE 4)]
    [] opcode = 116 -> Plain("je", Signed8(b[m]), m)
    [] opcode = 117 -> Plain("jne", Signed8(b[m]), m)
    [] opcode = 235 -> Plain("jmp", Signed8(b[m]), m)
    [] opcode = 195 -> Plain("ret", 0, m - 1)
    [] opcode = 232 -> Plain("call", Value32(b, m), m + 3)
    [] OTHER -> Bad

Decode(b) ==
  LET i == OpcodeAt(b) IN
  IF b[i] = 15 THEN DecodeTwoByte(b, i + 2) ELSE DecodeOneByte(b, b[i], i + 1)

(* What a processor would read beyond the last byte; it never counts.      *)
Padding == [i \in 1 .. 12 |-> 0]

(* Straight-line disassembly from the first byte to the last.              *)
Disassembly(b) ==
  LET From[i \in 1 .. Len(b) + 1] ==
        IF i > Len(b) THEN << >>
        ELSE LET d == Decode(SubSeq(b, i, Len(b)) \o Padding) IN
             IF i + d.length > Len(b) + 1 THEN << Undecodable >>
             ELSE << d.ins >> \o From[i + d.length]
  IN From[1]
=============================================================================
