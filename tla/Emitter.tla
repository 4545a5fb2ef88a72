------------------------------- MODULE Emitter -------------------------------
(***************************************************************************)
(* The encoder of codegen/amd64/emitter.cpp.  Every emit_ function of the  *)
(* source appends bytes to the buffer; here it is the sequence of bytes it *)
(* appends.  Overloads of one name differ in a suffix: _rr takes two       *)
(* registers, _imm an immediate, _store and _load move between a register  *)
(* and the stack slot at RSP plus a displacement.                          *)
(***************************************************************************)
EXTENDS Naturals, Sequences, RegisterAllocator

Byte == 0 .. 255

-----------------------------------------------------------------------------
(* Building blocks.                                                        *)

OrBit(a, b) == IF a + b > 0 THEN 1 ELSE 0

(* The n low-order bytes of a value below 2^32, low-order byte first:      *)
(* emit2, emit4 and emit8.                                                 *)
LittleEndian(n, v) ==
  [i \in 1 .. n |->
    CASE i = 1 -> v % 256
      [] i = 2 -> (v \div 256) % 256
      [] i = 3 -> (v \div 65536) % 256
      [] i = 4 -> (v \div 16777216) % 256
      [] OTHER -> 0]

RegIndir == 0
Displacement1 == 1
RegisterAddr == 3

(* Mistake: reg and rm in each other's place.                              *)
modrm_swapped(mod, reg, rm) == << (reg % 8) + 8 * (rm % 8) + 64 * mod >>

(* rm | (reg << 3) | (mod << 6) in eight bits.  Fields of more than three  *)
(* bits, registers from R8 on, run into the next field.                    *)
emit_modrm(mod, reg, rm) ==
  << (rm % 8)
     + 8 * OrBit(rm \div 8, reg % 2)
     + 16 * ((reg \div 2) % 4)
     + 64 * OrBit(reg \div 8, mod % 2)
     + 128 * (mod \div 2) >>

(* emit_sib(X1, RSP, RSP): RSP as base, no index.                          *)
emit_sib == << RSP + 8 * RSP >>

(* 0100WRXB.                                                               *)
emit_rex(bits) ==
  << 64 + (IF "W" \in bits THEN 8 ELSE 0) + (IF "R" \in bits THEN 4 ELSE 0)
        + (IF "X" \in bits THEN 2 ELSE 0) + (IF "B" \in bits THEN 1 ELSE 0) >>

emit_rex_with(bits, reg) ==
  emit_rex(IF reg > RDI THEN bits \cup {"R"} ELSE bits)

emit_rexr_if_needed(reg) == IF reg > RDI THEN emit_rex({"R"}) ELSE << >>

(* b8 + rd: 0xb8 already has bit 3 set, so only three bits of the register *)
(* survive the or.                                                         *)
PlusRegister(reg) == << 184 + (reg % 8) >>

SlotOperand(reg, displacement) ==
  emit_modrm(Displacement1, reg, RSP) \o emit_sib \o << displacement >>

OperandSize16 == << 102 >>

-----------------------------------------------------------------------------
(* Arithmetic.  In emit_add, emit_sub and emit_imul the destination is the *)
(* reg field.                                                              *)

emit_add32_rr(source, destination) ==
  << 3 >> \o emit_modrm(RegisterAddr, destination, source)

emit_add64_rr(source, destination) ==
  emit_rex({"W"}) \o << 3 >> \o emit_modrm(RegisterAddr, destination, source)

emit_add64_imm32(destination, value) ==
  emit_rex({"W"}) \o << 129 >> \o emit_modrm(RegisterAddr, 0, destination)
  \o LittleEndian(4, value)

emit_sub32_rr(source, destination) ==
  << 43 >> \o emit_modrm(RegisterAddr, destination, source)

emit_sub64_rr(source, destination) ==
  emit_rex({"W"}) \o << 43 >> \o emit_modrm(RegisterAddr, destination, source)

emit_sub64_imm32(destination, value) ==
  emit_rex({"W"}) \o << 129 >> \o emit_modrm(RegisterAddr, 5, destination)
  \o LittleEndian(4, value)

emit_imul32(source, destination) ==
  << 15, 175 >> \o emit_modrm(RegisterAddr, destination, source)

emit_imul64(source, destination) ==
  emit_rex({"W"}) \o << 15, 175 >> \o emit_modrm(RegisterAddr, destination, source)

emit_idiv32(operand) == << 247 >> \o emit_modrm(RegisterAddr, 7, operand)

emit_idiv64(operand) ==
  emit_rex({"W"}) \o << 247 >> \o emit_modrm(RegisterAddr, 7, operand)

emit_xor64(destination, source) ==
  emit_rex({"W"}) \o << 51 >> \o emit_modrm(RegisterAddr, source, destination)

emit_cmp32_rr(x, y) == << 57 >> \o emit_modrm(RegisterAddr, x, y)
emit_cmp64(x, y) == emit_rex({"W"}) \o << 57 >> \o emit_modrm(RegisterAddr, x, y)

emit_test8(source, value) ==
  << 246 >> \o emit_modrm(RegisterAddr, 0, source) \o << value >>

-----------------------------------------------------------------------------
(* Moves between registers and of immediates.                              *)

emit_mov8_rr(destination, source) ==
  << 136 >> \o emit_modrm(RegisterAddr, source, destination)

emit_mov8_imm(destination, value) ==
  << 198 >> \o emit_modrm(RegisterAddr, 0, destination) \o << value >>

emit_mov16_rr(destination, source) ==
  OperandSize16 \o << 137 >> \o emit_modrm(RegisterAddr, source, destination)

emit_mov32_imm(destination, value) ==
  PlusRegister(destination) \o LittleEndian(4, value)

emit_mov32_rr(destination, source) ==
  << 137 >> \o emit_modrm(RegisterAddr, source, destination)

emit_mov64_rr(destination, source) ==
  emit_rex({"W"}) \o << 137 >> \o emit_modrm(RegisterAddr, source, destination)

emit_mov64_imm(destination, value) ==
  emit_rex({"W"}) \o PlusRegister(destination) \o LittleEndian(8, value)

(* RIP-relative: rm = 5, four displacement bytes.                          *)
emit_lea64(destination, displacement) ==
  emit_rex({"W"}) \o << 141 >> \o emit_modrm(RegIndir, destination, 5)
  \o LittleEndian(4, displacement)

-----------------------------------------------------------------------------
(* Moves between registers and stack slots.                                *)

emit_spd_mov8_imm(displacement, value) ==
  << 198 >> \o SlotOperand(0, displacement) \o << value >>

emit_spd_mov16_imm(displacement, value) ==
  OperandSize16 \o << 199 >> \o SlotOperand(0, displacement) \o LittleEndian(2, value)

emit_spd_mov32_imm(displacement, value) ==
  << 199 >> \o SlotOperand(0, displacement) \o LittleEndian(4, value)

emit_spd_mov8_store(displacement, source) ==
  emit_rexr_if_needed(source) \o << 136 >> \o SlotOperand(source, displacement)

emit_spd_mov16_store(displacement, source) ==
  OperandSize16 \o emit_rexr_if_needed(source) \o << 137 >>
  \o SlotOperand(source, displacement)

emit_spd_mov32_store(displacement, source) ==
  emit_rexr_if_needed(source) \o << 137 >> \o SlotOperand(source, displacement)

emit_spd_mov64_store(displacement, source) ==
  emit_rex_with({"W"}, source) \o << 137 >> \o SlotOperand(source, displacement)

emit_spd_mov32_load(destination, displacement) ==
  << 139 >> \o SlotOperand(destination, displacement)

emit_spd_mov64_load(destination, displacement) ==
  emit_rex({"W"}) \o << 139 >> \o SlotOperand(destination, displacement)

emit_spd_movzx8(destination, displacement) ==
  << 15, 182 >> \o SlotOperand(destination, displacement)

emit_spd_movzx16(destination, displacement) ==
  << 15, 183 >> \o SlotOperand(destination, displacement)

emit_spd_movsx8(destination, displacement) ==
  << 15, 190 >> \o SlotOperand(destination, displacement)

emit_spd_movsx16(destination, displacement) ==
  << 15, 191 >> \o SlotOperand(destination, displacement)

-----------------------------------------------------------------------------
(* Control transfer.  A relative jump ends with its distance byte.         *)

emit_je_rel8(rel) == << 116, rel >>
emit_jne_rel8(rel) == << 117, rel >>
emit_jmp_rel8(rel) == << 235, rel >>
emit_ret == << 195 >>
emit_call == << 232 >> \o LittleEndian(4, 0)
=============================================================================
