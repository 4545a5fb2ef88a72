-------------------------- MODULE GeneratorProofs ---------------------------
(***************************************************************************)
(* Proofs about the emitter and the generator.  Every call of the emitter  *)
(* appends bytes, and the others need no more of an encoding than that     *)
(* and, now and then, its length.  For every choice of types, names,       *)
(* shapes and bounds the variables of the generator have their types, RAX  *)
(* and RSP are never handed out, the address tables follow the nesting of  *)
(* the bodies, call mode ends with the outermost call, and the evaluation  *)
(* stack is balanced when calls are statements.                            *)
(***************************************************************************)
EXTENDS Generator, TLAPS, FiniteSetTheorems, FunctionTheorems, SequenceTheorems

Code == Seq(Byte)

-----------------------------------------------------------------------------
(* Sequences of bytes.                                                     *)

LEMMA EmptyCode == << >> \in Code
BY DEF Code

LEMMA OneByte == ASSUME NEW b \in Byte PROVE << b >> \in Code /\ Len(<< b >>) = 1
BY DEF Code, Byte

LEMMA TwoBytes ==
  ASSUME NEW a \in Byte, NEW b \in Byte
  PROVE << a, b >> \in Code /\ Len(<< a, b >>) = 2
BY DEF Code, Byte

LEMMA CodeConcat ==
  ASSUME NEW s \in Code, NEW t \in Code
  PROVE /\ s \o t \in Code
        /\ Len(s \o t) = Len(s) + Len(t)
BY DEF Code

LEMMA CodeConcat3 ==
  ASSUME NEW s \in Code, NEW t \in Code, NEW u \in Code
  PROVE /\ s \o t \o u \in Code
        /\ Len(s \o t \o u) = Len(s) + Len(t) + Len(u)
<1>1. s \o t \in Code /\ Len(s \o t) = Len(s) + Len(t)
  BY CodeConcat
<1> QED
  BY <1>1, CodeConcat

LEMMA CodeConcat4 ==
  ASSUME NEW s \in Code, NEW t \in Code, NEW u \in Code, NEW v \in Code
  PROVE /\ s \o t \o u \o v \in Code
        /\ Len(s \o t \o u \o v) = Len(s) + Len(t) + Len(u) + Len(v)
<1>1. s \o t \o u \in Code /\ Len(s \o t \o u) = Len(s) + Len(t) + Len(u)
  BY CodeConcat3
<1> QED
  BY <1>1, CodeConcat

LEMMA CodeLength == ASSUME NEW s \in Code PROVE Len(s) \in Nat
BY DEF Code

-----------------------------------------------------------------------------
(* Building blocks.                                                        *)

(* The fields of emit_modrm run into each other for registers from R8 on,  *)
(* but they never run out of the byte.                                     *)
LEMMA ModRMIsByte ==
  ASSUME NEW mod \in {RegIndir, Displacement1, RegisterAddr},
         NEW reg \in Register, NEW rm \in Register
  PROVE emit_modrm(mod, reg, rm) \in Code /\ Len(emit_modrm(mod, reg, rm)) = 1
<1>1. rm % 8 \in 0 .. 7 /\ (reg \div 2) % 4 \in 0 .. 3
  BY DEF Register
<1>2. /\ OrBit(rm \div 8, reg % 2) \in 0 .. 1
      /\ OrBit(reg \div 8, mod % 2) \in 0 .. 1
  BY DEF OrBit
<1>3. mod \div 2 \in 0 .. 1
  BY DEF RegIndir, Displacement1, RegisterAddr
<1>4. (rm % 8) + 8 * OrBit(rm \div 8, reg % 2) + 16 * ((reg \div 2) % 4)
        + 64 * OrBit(reg \div 8, mod % 2) + 128 * (mod \div 2) \in Byte
  BY <1>1, <1>2, <1>3 DEF Byte
<1> QED
  BY <1>4, OneByte DEF emit_modrm

LEMMA SibIsByte == emit_sib \in Code /\ Len(emit_sib) = 1
BY OneByte, RSP + 8 * RSP \in Byte DEF emit_sib, Byte, RSP

LEMMA RexIsByte ==
  ASSUME NEW bits
  PROVE emit_rex(bits) \in Code /\ Len(emit_rex(bits)) = 1
<1>1. 64 + (IF "W" \in bits THEN 8 ELSE 0) + (IF "R" \in bits THEN 4 ELSE 0)
        + (IF "X" \in bits THEN 2 ELSE 0) + (IF "B" \in bits THEN 1 ELSE 0) \in Byte
  BY DEF Byte
<1> QED
  BY <1>1, OneByte DEF emit_rex

LEMMA LittleEndianIsCode ==
  ASSUME NEW n \in Nat, NEW v \in Nat
  PROVE LittleEndian(n, v) \in Code /\ Len(LittleEndian(n, v)) = n
<1>1. \A i \in 1 .. n : (CASE i = 1 -> v % 256
                           [] i = 2 -> (v \div 256) % 256
                           [] i = 3 -> (v \div 65536) % 256
                           [] i = 4 -> (v \div 16777216) % 256
                           [] OTHER -> 0) \in Byte
  BY DEF Byte
<1>2. LittleEndian(n, v) \in [1 .. n -> Byte]
  BY <1>1 DEF LittleEndian
<1> QED
  BY <1>2 DEF Code

LEMMA PlusRegisterIsByte ==
  ASSUME NEW r \in Register
  PROVE PlusRegister(r) \in Code /\ Len(PlusRegister(r)) = 1
BY OneByte, 184 + (r % 8) \in Byte DEF PlusRegister, Byte, Register

LEMMA RexWithIsByte ==
  ASSUME NEW bits, NEW r \in Register
  PROVE emit_rex_with(bits, r) \in Code /\ Len(emit_rex_with(bits, r)) = 1
BY RexIsByte DEF emit_rex_with

LEMMA RexRIsCode == ASSUME NEW r \in Register PROVE emit_rexr_if_needed(r) \in Code
BY RexIsByte, EmptyCode DEF emit_rexr_if_needed

LEMMA SlotOperandIsCode ==
  ASSUME NEW r \in Register, NEW d \in Byte
  PROVE SlotOperand(r, d) \in Code
<1>1. emit_modrm(Displacement1, r, RSP) \in Code
  BY ModRMIsByte DEF RSP, Register
<1> QED
  BY <1>1, SibIsByte, OneByte, CodeConcat DEF SlotOperand

(* The opcodes.                                                            *)
LEMMA Opcodes ==
  /\ << 3 >> \in Code
  /\ << 43 >> \in Code
  /\ << 51 >> \in Code
  /\ << 57 >> \in Code
  /\ << 102 >> \in Code
  /\ << 129 >> \in Code
  /\ << 136 >> \in Code
  /\ << 137 >> \in Code
  /\ << 139 >> \in Code
  /\ << 141 >> \in Code
  /\ << 195 >> \in Code
  /\ << 198 >> \in Code
  /\ << 199 >> \in Code
  /\ << 232 >> \in Code
  /\ << 246 >> \in Code
  /\ << 247 >> \in Code
  /\ << 15, 175 >> \in Code
  /\ << 15, 182 >> \in Code
  /\ << 15, 183 >> \in Code
  /\ << 15, 190 >> \in Code
  /\ << 15, 191 >> \in Code
<1>1. \A b \in Byte : << b >> \in Code
  BY OneByte
<1>2. \A a, b \in Byte : << a, b >> \in Code
  BY TwoBytes
<1>3. {3, 43, 51, 57, 102, 129, 136, 137, 139, 141, 195, 198, 199, 232, 246, 247, 15, 175, 182, 183, 190, 191} \subseteq Byte
  BY DEF Byte
<1> QED
  BY <1>1, <1>2, <1>3

-----------------------------------------------------------------------------
(* The calls.                                                              *)

(* What stands in the reg field of the instructions that do not use it.    *)
LEMMA Digits == 0 \in Register /\ 5 \in Register /\ 7 \in Register /\ 0 \in Byte
BY DEF Register, Byte

LEMMA RegisterAddrIsByte ==
  ASSUME NEW reg \in Register, NEW rm \in Register
  PROVE emit_modrm(RegisterAddr, reg, rm) \in Code
        /\ Len(emit_modrm(RegisterAddr, reg, rm)) = 1
BY ModRMIsByte

LEMMA TwoRegisterCalls ==
  ASSUME NEW a \in Register, NEW b \in Register
  PROVE /\ emit_add32_rr(a, b) \in Code
        /\ emit_add64_rr(a, b) \in Code
        /\ emit_sub32_rr(a, b) \in Code
        /\ emit_sub64_rr(a, b) \in Code
        /\ emit_imul32(a, b) \in Code
        /\ emit_imul64(a, b) \in Code
        /\ emit_xor64(a, b) \in Code
        /\ emit_cmp32_rr(a, b) \in Code
        /\ emit_cmp64(a, b) \in Code
        /\ emit_mov8_rr(a, b) \in Code
        /\ emit_mov16_rr(a, b) \in Code
        /\ emit_mov32_rr(a, b) \in Code
        /\ emit_mov64_rr(a, b) \in Code
<1>1. emit_add32_rr(a, b) \in Code
  BY RegisterAddrIsByte, RexIsByte, Opcodes, CodeConcat DEF emit_add32_rr
<1>2. emit_add64_rr(a, b) \in Code
  BY RegisterAddrIsByte, RexIsByte, Opcodes, CodeConcat DEF emit_add64_rr
<1>3. emit_sub32_rr(a, b) \in Code
  BY RegisterAddrIsByte, RexIsByte, Opcodes, CodeConcat DEF emit_sub32_rr
<1>4. emit_sub64_rr(a, b) \in Code
  BY RegisterAddrIsByte, RexIsByte, Opcodes, CodeConcat DEF emit_sub64_rr
<1>5. emit_imul32(a, b) \in Code
  BY RegisterAddrIsByte, RexIsByte, Opcodes, CodeConcat DEF emit_imul32
<1>6. emit_imul64(a, b) \in Code
  BY RegisterAddrIsByte, RexIsByte, Opcodes, CodeConcat DEF emit_imul64
<1>7. emit_xor64(a, b) \in Code
  BY RegisterAddrIsByte, RexIsByte, Opcodes, CodeConcat DEF emit_xor64
<1>8. emit_cmp32_rr(a, b) \in Code
  BY RegisterAddrIsByte, RexIsByte, Opcodes, CodeConcat DEF emit_cmp32_rr
<1>9. emit_cmp64(a, b) \in Code
  BY RegisterAddrIsByte, RexIsByte, Opcodes, CodeConcat DEF emit_cmp64
<1>10. emit_mov8_rr(a, b) \in Code
  BY RegisterAddrIsByte, RexIsByte, Opcodes, CodeConcat DEF emit_mov8_rr
<1>11. emit_mov16_rr(a, b) \in Code
  BY RegisterAddrIsByte, RexIsByte, Opcodes, CodeConcat DEF emit_mov16_rr, OperandSize16
<1>12. emit_mov32_rr(a, b) \in Code
  BY RegisterAddrIsByte, RexIsByte, Opcodes, CodeConcat DEF emit_mov32_rr
<1>13. emit_mov64_rr(a, b) \in Code
  BY RegisterAddrIsByte, RexIsByte, Opcodes, CodeConcat DEF emit_mov64_rr
<1> QED
  BY <1>1, <1>2, <1>3, <1>4, <1>5, <1>6, <1>7, <1>8, <1>9, <1>10, <1>11, <1>12, <1>13

LEMMA RegisterCalls ==
  ASSUME NEW a \in Register, NEW v \in Byte
  PROVE /\ emit_idiv32(a) \in Code
        /\ emit_idiv64(a) \in Code
        /\ emit_test8(a, v) \in Code
        /\ emit_mov8_imm(a, v) \in Code
<1>1. emit_idiv32(a) \in Code
  BY RegisterAddrIsByte, RexIsByte, Opcodes, CodeConcat, Digits DEF emit_idiv32
<1>2. emit_idiv64(a) \in Code
  BY RegisterAddrIsByte, RexIsByte, Opcodes, CodeConcat, Digits DEF emit_idiv64
<1>3. emit_test8(a, v) \in Code
  BY RegisterAddrIsByte, RexIsByte, Opcodes, CodeConcat, Digits, OneByte DEF emit_test8
<1>4. emit_mov8_imm(a, v) \in Code
  BY RegisterAddrIsByte, RexIsByte, Opcodes, CodeConcat, Digits, OneByte DEF emit_mov8_imm
<1> QED
  BY <1>1, <1>2, <1>3, <1>4

LEMMA ImmediateCalls ==
  ASSUME NEW a \in Register, NEW v \in Nat
  PROVE /\ emit_add64_imm32(a, v) \in Code
        /\ emit_sub64_imm32(a, v) \in Code
        /\ emit_mov32_imm(a, v) \in Code
        /\ emit_mov64_imm(a, v) \in Code
<1>1. emit_add64_imm32(a, v) \in Code
  BY RegisterAddrIsByte, PlusRegisterIsByte, RexIsByte, Opcodes, LittleEndianIsCode, CodeConcat, Digits, 4 \in Nat DEF emit_add64_imm32
<1>2. emit_sub64_imm32(a, v) \in Code
  BY RegisterAddrIsByte, PlusRegisterIsByte, RexIsByte, Opcodes, LittleEndianIsCode, CodeConcat, Digits, 4 \in Nat DEF emit_sub64_imm32
<1>3. emit_mov32_imm(a, v) \in Code
  BY RegisterAddrIsByte, PlusRegisterIsByte, RexIsByte, Opcodes, LittleEndianIsCode, CodeConcat DEF emit_mov32_imm
<1>4. emit_mov64_imm(a, v) \in Code
  BY RegisterAddrIsByte, PlusRegisterIsByte, RexIsByte, Opcodes, LittleEndianIsCode, CodeConcat DEF emit_mov64_imm
<1> QED
  BY <1>1, <1>2, <1>3, <1>4

LEMMA LoadCalls ==
  ASSUME NEW a \in Register, NEW d \in Byte
  PROVE /\ emit_spd_mov32_load(a, d) \in Code
        /\ emit_spd_mov64_load(a, d) \in Code
        /\ emit_spd_movzx8(a, d) \in Code
        /\ emit_spd_movzx16(a, d) \in Code
        /\ emit_spd_movsx8(a, d) \in Code
        /\ emit_spd_movsx16(a, d) \in Code
<1>1. emit_spd_mov32_load(a, d) \in Code
  BY SlotOperandIsCode, RexIsByte, Opcodes, CodeConcat DEF emit_spd_mov32_load
<1>2. emit_spd_mov64_load(a, d) \in Code
  BY SlotOperandIsCode, RexIsByte, Opcodes, CodeConcat DEF emit_spd_mov64_load
<1>3. emit_spd_movzx8(a, d) \in Code
  BY SlotOperandIsCode, RexIsByte, Opcodes, CodeConcat DEF emit_spd_movzx8
<1>4. emit_spd_movzx16(a, d) \in Code
  BY SlotOperandIsCode, RexIsByte, Opcodes, CodeConcat DEF emit_spd_movzx16
<1>5. emit_spd_movsx8(a, d) \in Code
  BY SlotOperandIsCode, RexIsByte, Opcodes, CodeConcat DEF emit_spd_movsx8
<1>6. emit_spd_movsx16(a, d) \in Code
  BY SlotOperandIsCode, RexIsByte, Opcodes, CodeConcat DEF emit_spd_movsx16
<1> QED
  BY <1>1, <1>2, <1>3, <1>4, <1>5, <1>6

LEMMA StoreCalls ==
  ASSUME NEW a \in Register, NEW d \in Byte
  PROVE /\ emit_spd_mov8_store(d, a) \in Code
        /\ emit_spd_mov16_store(d, a) \in Code
        /\ emit_spd_mov32_store(d, a) \in Code
        /\ emit_spd_mov64_store(d, a) \in Code
<1>1. emit_spd_mov8_store(d, a) \in Code
  BY SlotOperandIsCode, RexRIsCode, RexWithIsByte, Opcodes, CodeConcat DEF emit_spd_mov8_store
<1>2. emit_spd_mov16_store(d, a) \in Code
  BY SlotOperandIsCode, RexRIsCode, RexWithIsByte, Opcodes, CodeConcat DEF emit_spd_mov16_store, OperandSize16
<1>3. emit_spd_mov32_store(d, a) \in Code
  BY SlotOperandIsCode, RexRIsCode, RexWithIsByte, Opcodes, CodeConcat DEF emit_spd_mov32_store
<1>4. emit_spd_mov64_store(d, a) \in Code
  BY SlotOperandIsCode, RexRIsCode, RexWithIsByte, Opcodes, CodeConcat DEF emit_spd_mov64_store
<1> QED
  BY <1>1, <1>2, <1>3, <1>4

LEMMA ImmediateStores ==
  ASSUME NEW d \in Byte
  PROVE /\ emit_spd_mov8_imm(d, 0) \in Code
        /\ emit_spd_mov16_imm(d, 0) \in Code
        /\ emit_spd_mov32_imm(d, 0) \in Code
<1>1. emit_spd_mov8_imm(d, 0) \in Code
  BY SlotOperandIsCode, LittleEndianIsCode, Opcodes, CodeConcat, Digits, OneByte, 2 \in Nat, 4 \in Nat DEF emit_spd_mov8_imm, OperandSize16
<1>2. emit_spd_mov16_imm(d, 0) \in Code
  BY SlotOperandIsCode, LittleEndianIsCode, Opcodes, CodeConcat, Digits, OneByte, 2 \in Nat, 4 \in Nat DEF emit_spd_mov16_imm, OperandSize16
<1>3. emit_spd_mov32_imm(d, 0) \in Code
  BY SlotOperandIsCode, LittleEndianIsCode, Opcodes, CodeConcat, Digits, OneByte, 2 \in Nat, 4 \in Nat DEF emit_spd_mov32_imm, OperandSize16
<1> QED
  BY <1>1, <1>2, <1>3

LEMMA JumpOpcodes == 116 \in Byte /\ 117 \in Byte /\ 235 \in Byte
BY DEF Byte

LEMMA JumpCalls ==
  ASSUME NEW v \in Byte
  PROVE /\ emit_je_rel8(v) \in Code
        /\ emit_jne_rel8(v) \in Code
        /\ emit_jmp_rel8(v) \in Code
<1>1. emit_je_rel8(v) \in Code
  BY TwoBytes, JumpOpcodes DEF emit_je_rel8
<1>2. emit_jne_rel8(v) \in Code
  BY TwoBytes, JumpOpcodes DEF emit_jne_rel8
<1>3. emit_jmp_rel8(v) \in Code
  BY TwoBytes, JumpOpcodes DEF emit_jmp_rel8
<1> QED
  BY <1>1, <1>2, <1>3

(* The instructions with four bytes for the linker end with them.          *)
LEMMA AddressedCalls ==
  ASSUME NEW a \in Register
  PROVE /\ emit_lea64(a, 0) \in Code /\ Len(emit_lea64(a, 0)) >= 4
        /\ emit_call \in Code /\ Len(emit_call) >= 4
<1>1. LittleEndian(4, 0) \in Code /\ Len(LittleEndian(4, 0)) = 4
  BY LittleEndianIsCode, 4 \in Nat, 0 \in Nat
<1>2. ASSUME NEW s \in Code
      PROVE s \o LittleEndian(4, 0) \in Code /\ Len(s \o LittleEndian(4, 0)) >= 4
  <2>1. /\ s \o LittleEndian(4, 0) \in Code
        /\ Len(s \o LittleEndian(4, 0)) = Len(s) + Len(LittleEndian(4, 0))
    BY <1>1, CodeConcat
  <2>2. Len(s) \in Nat
    BY CodeLength
  <2> DEFINE n == Len(s \o LittleEndian(4, 0))
             m == Len(s)
  <2> HIDE DEF n, m
  <2>3. n = m + 4 /\ m \in Nat
    BY <1>1, <2>1, <2>2 DEF n, m
  <2>4. n >= 4
    BY <2>3
  <2> QED
    BY <2>1, <2>4 DEF n
<1>3. emit_rex({"W"}) \o << 141 >> \o emit_modrm(RegIndir, a, 5) \in Code
  <2>1. emit_modrm(RegIndir, a, 5) \in Code
    BY ModRMIsByte, Digits DEF RegIndir
  <2>2. << 141 >> \in Code
    BY OneByte DEF Byte
  <2> QED
    BY <2>1, <2>2, RexIsByte, CodeConcat
<1>4. << 232 >> \in Code
  BY OneByte DEF Byte
<1> QED
  BY <1>2, <1>3, <1>4, Zenon DEF emit_lea64, emit_call

-----------------------------------------------------------------------------
(* The generator appends bytes.                                            *)

LEMMA SizeValues == ASSUME NEW t \in ValueType PROVE Size(t) \in {1, 2, 4, 8}
BY DEF Size, ValueType, IntegralType

LEMMA DisplacementIsByte == ASSUME NEW addr \in Nat PROVE addr % 256 \in Byte
BY DEF Byte

LEMMA StoreToSlotIsCode ==
  ASSUME NEW addr \in Nat, NEW t \in ValueType, NEW r \in Register
  PROVE StoreToSlot(addr, t, r) \in Code
BY SizeValues, DisplacementIsByte, StoreCalls DEF StoreToSlot

LEMMA MoveRegisterIsCode ==
  ASSUME NEW a \in Register, NEW t \in ValueType, NEW b \in Register
  PROVE MoveRegister(a, t, b) \in Code
BY SizeValues, TwoRegisterCalls DEF MoveRegister

LEMMA LoadFromSlotIsCode ==
  ASSUME NEW r \in Register, NEW t \in ValueType, NEW addr \in Nat
  PROVE LoadFromSlot(r, t, addr) \in Code
BY DisplacementIsByte, LoadCalls DEF LoadFromSlot, ValueType, IntegralType

LEMMA ImmediateToSlotIsCode ==
  ASSUME NEW addr \in Nat, NEW t \in ValueType
  PROVE ImmediateToSlot(addr, t) \in Code
BY SizeValues, DisplacementIsByte, ImmediateStores DEF ImmediateToSlot

LEMMA Reserved == RAX \in Register /\ RDX \in Register /\ RSP \in Register
BY DEF RAX, RDX, RSP, Register

LEMMA ArithmeticCodeIsCode ==
  ASSUME NEW op \in Arithmetic, NEW t \in ValueType,
         NEW left \in Register, NEW right \in Register
  PROVE ArithmeticCode(op, t, left, right) \in Code
<1>1. CASE op = "Plus"
  BY <1>1, TwoRegisterCalls DEF ArithmeticCode, Division
<1>2. CASE op = "Star"
  BY <1>2, TwoRegisterCalls DEF ArithmeticCode, Division
<1>3. CASE op = "Minus"
  BY <1>3, TwoRegisterCalls, MoveRegisterIsCode, CodeConcat DEF ArithmeticCode, Division
<1>4. CASE op \in Division
  <2>1. MoveRegister(RAX, t, left) \in Code /\ emit_xor64(RDX, RDX) \in Code
    BY MoveRegisterIsCode, TwoRegisterCalls, Reserved
  <2>2. (IF Size(t) = 8 THEN emit_idiv64(right) ELSE emit_idiv32(right)) \in Code
    BY RegisterCalls, Digits
  <2>3. MoveRegister(right, t, IF op = "Slash" THEN RAX ELSE RDX) \in Code
    BY MoveRegisterIsCode, Reserved
  <2> QED
    BY <1>4, <2>1, <2>2, <2>3, CodeConcat DEF ArithmeticCode, Division
<1> QED
  BY <1>1, <1>2, <1>3, <1>4 DEF Arithmetic, Division

(* The moves and jumps at the end of a comparison, with their lengths.     *)
LEMMA Lengths ==
  ASSUME NEW r \in Register, NEW v \in Byte
  PROVE /\ Len(emit_mov8_imm(r, v)) = 3
        /\ Len(emit_test8(r, v)) = 3
        /\ Len(emit_je_rel8(v)) = 2
        /\ Len(emit_jne_rel8(v)) = 2
        /\ Len(emit_jmp_rel8(v)) = 2
<1> DEFINE mov == << 198 >>
           test == << 246 >>
           modrm == emit_modrm(RegisterAddr, 0, r)
           value == << v >>
<1>1. mov \in Code /\ test \in Code /\ modrm \in Code /\ value \in Code
  BY OneByte, Opcodes, RegisterAddrIsByte, Digits
<1>2. Len(mov) = 1 /\ Len(test) = 1 /\ Len(modrm) = 1 /\ Len(value) = 1
  BY RegisterAddrIsByte, Digits
<1>3. emit_mov8_imm(r, v) = mov \o modrm \o value
  BY DEF emit_mov8_imm
<1>4. emit_test8(r, v) = test \o modrm \o value
  BY DEF emit_test8
<1> HIDE DEF mov, test, modrm, value
<1>5. /\ Len(mov \o modrm \o value) = Len(mov) + Len(modrm) + Len(value)
      /\ Len(test \o modrm \o value) = Len(test) + Len(modrm) + Len(value)
  BY <1>1, CodeConcat3
<1>6. Len(mov) + Len(modrm) + Len(value) = 3 /\ Len(test) + Len(modrm) + Len(value) = 3
  BY <1>2
<1>7. Len(emit_je_rel8(v)) = 2 /\ Len(emit_jne_rel8(v)) = 2 /\ Len(emit_jmp_rel8(v)) = 2
  BY DEF emit_je_rel8, emit_jne_rel8, emit_jmp_rel8
<1> QED
  BY <1>3, <1>4, <1>5, <1>6, <1>7, Zenon

LEMMA SmallBytes ==
  /\ 0 \in Byte /\ 1 \in Byte /\ 3 \in Byte /\ 5 \in Byte /\ 10 \in Byte
  /\ 1 - 0 = 1 /\ 1 - 1 = 0
BY DEF Byte

LEMMA SelectIsCode ==
  ASSUME NEW test \in Code, NEW right \in Register, NEW v \in {0, 1}
  PROVE /\ Select(test, right, v) \in Code
        /\ Len(Select(test, right, v)) = Len(test) + 8
<1> DEFINE first == emit_mov8_imm(right, v)
           jump == emit_jmp_rel8(3)
           second == emit_mov8_imm(right, 1 - v)
<1>1. v \in Byte /\ 1 - v \in Byte
  BY SmallBytes
<1>2. first \in Code /\ jump \in Code /\ second \in Code
  BY <1>1, SmallBytes, RegisterCalls, JumpCalls
<1>3. Len(first) = 3 /\ Len(jump) = 2 /\ Len(second) = 3
  BY <1>1, SmallBytes, Lengths
<1>4. Select(test, right, v) = test \o first \o jump \o second
  BY DEF Select
<1> HIDE DEF first, jump, second
<1>5. Len(test \o first \o jump \o second)
        = Len(test) + Len(first) + Len(jump) + Len(second)
  BY <1>2, CodeConcat4
<1>6. Len(test) + Len(first) + Len(jump) + Len(second) = Len(test) + 8
  BY <1>3, CodeLength
<1>7. test \o first \o jump \o second \in Code
  BY <1>2, CodeConcat4
<1> QED
  BY <1>4, <1>5, <1>6, <1>7, Zenon

LEMMA BranchIsCode ==
  ASSUME NEW test \in Code, NEW v \in Byte
  PROVE /\ test \o emit_je_rel8(v) \in Code
        /\ Len(test \o emit_je_rel8(v)) = Len(test) + 2
        /\ test \o emit_jne_rel8(v) \in Code
        /\ Len(test \o emit_jne_rel8(v)) = Len(test) + 2
<1>1. /\ emit_je_rel8(v) \in Code /\ Len(emit_je_rel8(v)) = 2
      /\ emit_jne_rel8(v) \in Code /\ Len(emit_jne_rel8(v)) = 2
  BY JumpCalls, Lengths, Reserved
<1>2. /\ Len(test \o emit_je_rel8(v)) = Len(test) + Len(emit_je_rel8(v))
      /\ Len(test \o emit_jne_rel8(v)) = Len(test) + Len(emit_jne_rel8(v))
  BY <1>1, CodeConcat
<1> QED
  BY <1>1, <1>2, CodeConcat

(* Long enough for the distances that BinaryJumps looks up.                *)
LEMMA CompareCodeIsCode ==
  ASSUME NEW op, NEW t, NEW left \in Register, NEW right \in Register
  PROVE CompareCode(op, t, left, right) \in Code /\ Len(CompareCode(op, t, left, right)) >= 10
<1> DEFINE cmp == IF Size(t) = 8 THEN emit_cmp64(left, right) ELSE emit_cmp32_rr(left, right)
           jne == cmp \o emit_jne_rel8(5)
           je == cmp \o emit_je_rel8(5)
<1>1. cmp \in Code
  BY TwoRegisterCalls
<1>2. jne \in Code /\ Len(jne) = Len(cmp) + 2 /\ je \in Code /\ Len(je) = Len(cmp) + 2
  BY <1>1, BranchIsCode, SmallBytes
<1>3. CompareCode(op, t, left, right)
        = IF op = "DoubleEquals" THEN Select(jne, right, 1) ELSE Select(je, right, 1)
  BY DEF CompareCode
<1>4. Len(cmp) \in Nat
  BY <1>1, CodeLength
<1> HIDE DEF cmp, jne, je
<1>5. /\ Select(jne, right, 1) \in Code /\ Len(Select(jne, right, 1)) = Len(jne) + 8
      /\ Select(je, right, 1) \in Code /\ Len(Select(je, right, 1)) = Len(je) + 8
  BY <1>2, SelectIsCode
<1> QED
  BY <1>2, <1>3, <1>4, <1>5

LEMMA LogicalCodeIsCode ==
  ASSUME NEW op, NEW left \in Register, NEW right \in Register
  PROVE LogicalCode(op, left, right) \in Code /\ Len(LogicalCode(op, left, right)) = 18
<1> DEFINE leftTest == emit_test8(left, 1)
           rightTest == emit_test8(right, 1)
           jne == rightTest \o emit_jne_rel8(5)
           je == rightTest \o emit_je_rel8(5)
           or == Select(jne, right, 0)
           and == Select(je, right, 1)
<1>1. leftTest \in Code /\ Len(leftTest) = 3 /\ rightTest \in Code /\ Len(rightTest) = 3
  BY RegisterCalls, Lengths, SmallBytes
<1>2. LogicalCode(op, left, right)
        = IF op = "LogOr" THEN leftTest \o emit_jne_rel8(10) \o or
                          ELSE leftTest \o emit_je_rel8(10) \o and
  BY DEF LogicalCode
<1>3. /\ jne \in Code /\ Len(jne) = Len(rightTest) + 2
      /\ je \in Code /\ Len(je) = Len(rightTest) + 2
  BY <1>1, BranchIsCode, SmallBytes
<1> HIDE DEF leftTest, rightTest, jne, je
<1>4. /\ leftTest \o emit_jne_rel8(10) \in Code
      /\ Len(leftTest \o emit_jne_rel8(10)) = Len(leftTest) + 2
      /\ leftTest \o emit_je_rel8(10) \in Code
      /\ Len(leftTest \o emit_je_rel8(10)) = Len(leftTest) + 2
  BY <1>1, BranchIsCode, SmallBytes
<1>5. /\ or \in Code /\ Len(or) = Len(jne) + 8
      /\ and \in Code /\ Len(and) = Len(je) + 8
  BY <1>3, SelectIsCode
<1> HIDE DEF or, and
<1>6. /\ Len(leftTest \o emit_jne_rel8(10) \o or) = Len(leftTest \o emit_jne_rel8(10)) + Len(or)
      /\ Len(leftTest \o emit_je_rel8(10) \o and) = Len(leftTest \o emit_je_rel8(10)) + Len(and)
      /\ leftTest \o emit_jne_rel8(10) \o or \in Code
      /\ leftTest \o emit_je_rel8(10) \o and \in Code
  BY <1>4, <1>5, CodeConcat
<1>7. /\ Len(leftTest) + 2 + (Len(rightTest) + 2 + 8) = 18
      /\ Len(leftTest \o emit_jne_rel8(10)) + Len(or) = 18
      /\ Len(leftTest \o emit_je_rel8(10)) + Len(and) = 18
  BY <1>1, <1>3, <1>4, <1>5
<1> QED
  BY <1>2, <1>6, <1>7, Zenon

LEMMA BinaryCodeIsCode ==
  ASSUME NEW op, NEW t \in ValueType, Handled(op, t),
         NEW left \in Register, NEW right \in Register
  PROVE /\ BinaryCode(op, t, left, right) \in Code
        /\ op \notin Arithmetic => Len(BinaryCode(op, t, left, right)) >= 10
        /\ op \in Logical => Len(BinaryCode(op, t, left, right)) = 18
<1>1. CASE op \in Arithmetic
  <2>1. BinaryCode(op, t, left, right) = ArithmeticCode(op, t, left, right)
    BY <1>1 DEF BinaryCode, Arithmetic, Equality, Logical
  <2>2. op \notin Logical
    BY <1>1 DEF Arithmetic, Logical
  <2> QED
    BY <1>1, <2>1, <2>2, ArithmeticCodeIsCode
<1>2. CASE op \in Equality
  <2>1. BinaryCode(op, t, left, right) = CompareCode(op, t, left, right)
    BY <1>2 DEF BinaryCode, Arithmetic, Equality, Logical
  <2>2. op \notin Logical
    BY <1>2 DEF Equality, Logical
  <2> QED
    BY <2>1, <2>2, CompareCodeIsCode
<1>3. CASE op \in Logical
  <2>1. BinaryCode(op, t, left, right) = LogicalCode(op, left, right)
    BY <1>3 DEF BinaryCode, Arithmetic, Equality, Logical
  <2>2. LogicalCode(op, left, right) \in Code /\ Len(LogicalCode(op, left, right)) = 18
    BY LogicalCodeIsCode
  <2>3. Len(LogicalCode(op, left, right)) >= 10
    BY <2>2
  <2> QED
    BY <2>1, <2>2, <2>3, Zenon
<1> QED
  BY <1>1, <1>2, <1>3 DEF Handled

LEMMA BinaryJumpsTyped ==
  ASSUME NEW op, NEW t \in ValueType, Handled(op, t),
         NEW left \in Register, NEW right \in Register, NEW base \in Nat
  PROVE BinaryJumps(op, right, base, BinaryCode(op, t, left, right)) \subseteq JumpRecord
<1> DEFINE code == BinaryCode(op, t, left, right)
           end == base + Len(code)
           lastMove == end - 3
           branch == lastMove - 2 - 3
           first == branch - 2 - 3
           From(next, target) == Jump(next - 1, code[next - base], target)
<1>1. /\ code \in Code
      /\ op \notin Arithmetic => Len(code) >= 10
      /\ op \in Logical => Len(code) = 18
  BY BinaryCodeIsCode
<1>2. BinaryJumps(op, right, base, code)
        = IF op \in Arithmetic THEN {}
          ELSE {From(lastMove, end), From(branch, lastMove)}
               \cup (IF op \in Logical THEN {From(first, lastMove)} ELSE {})
  BY Lengths, SmallBytes DEF BinaryJumps
<1> SUFFICES BinaryJumps(op, right, base, code) \subseteq JumpRecord
  OBVIOUS
<1> HIDE DEF code
<1>3. ASSUME NEW next \in Int, NEW target \in Int, next - base \in 1 .. Len(code)
      PROVE From(next, target) \in JumpRecord
  <2>1. code[next - base] \in Byte
    BY <1>1, <1>3 DEF Code
  <2> QED
    BY <2>1 DEF Jump, JumpRecord
<1>4. CASE op \in Arithmetic
  BY <1>2, <1>4
<1>5. CASE op \notin Arithmetic
  <2>1. Len(code) \in Nat /\ Len(code) >= 10
    BY <1>1, <1>5, CodeLength
  <2>2. /\ end \in Int /\ lastMove \in Int /\ branch \in Int /\ first \in Int
        /\ lastMove - base \in 1 .. Len(code)
        /\ branch - base \in 1 .. Len(code)
    BY <2>1
  <2>3. ASSUME op \in Logical PROVE first - base \in 1 .. Len(code)
    <3>1. Len(code) = 18
      BY <1>1, <2>3
    <3> QED
      BY <3>1
  <2>4. /\ From(lastMove, end) \in JumpRecord
        /\ From(branch, lastMove) \in JumpRecord
        /\ op \in Logical => From(first, lastMove) \in JumpRecord
    BY <1>3, <2>2, <2>3
  <2> HIDE DEF From, end, lastMove, branch, first
  <2> QED
    BY <1>2, <1>5, <2>4
<1> QED
  BY <1>4, <1>5

LEMMA ParameterCodeIsCode ==
  ASSUME NEW p \in Parameters
  PROVE ParameterCode(p) \in Code
<1>1. PICK k \in 0 .. MaxArgs : p \in [1 .. k -> Names \X Types]
  BY DEF Parameters
<1>2. k \in Nat /\ Len(p) = k
  BY <1>1, BoundsAssumption
<1>3. \A i \in {1, 2, 3, 4} : ArgRegister(i) \in Register /\ ArgHome(i) \in Nat
  BY DEF ArgRegister, ArgHome, Register, RCX, RDX, R8, R9
<1>4. \A i \in {1, 2, 3, 4} : StoreParameter(p, i) \in Code
  <2> SUFFICES ASSUME NEW i \in {1, 2, 3, 4}, i <= Len(p)
               PROVE StoreToSlot(ArgHome(i), p[i][2], ArgRegister(i)) \in Code
    BY EmptyCode DEF StoreParameter
  <2>1. p[i][2] \in ValueType
    BY <1>1, <1>2, TypesAssumption
  <2> QED
    BY <1>3, <2>1, StoreToSlotIsCode
<1> QED
  BY <1>4, CodeConcat4 DEF ParameterCode

-----------------------------------------------------------------------------
(* The inductive invariant.  RAX and RSP are taken from the start and no   *)
(* code frees them, because whoever frees a register got it from get_free; *)
(* and there is one scope for each open body and one at the bottom.        *)

SafeOperand == [reg : Register \ {RAX, RSP}, node : Nat]
SafeItem == {x \in Item : x.what = "right" => x.left \notin {RAX, RSP}}

BodyCount(items) == Cardinality(BodiesIn(items))

AllocatorInv ==
  /\ allocated \subseteq Register
  /\ {RAX, RSP} \subseteq allocated
  /\ mode \in AllocatorMode
  /\ evalStack \in Seq(SafeOperand)

FrameInv ==
  /\ spOffset \in Nat
  /\ scopes \in Seq(Scope)

CodeInv ==
  /\ codeLength \in Nat
  /\ jumps \subseteq JumpRecord

ObjectInv ==
  /\ dataLength \in Nat
  /\ symbols \in Seq([name : FnNames \cup {"$d"}, section : 0 .. 2, value : Nat])
  /\ relocations \in Seq([vaddr : Nat, symndx : Nat])

ContentsInv ==
  /\ contents \in [Register -> Nat]
  /\ misencoded \in BOOLEAN
  /\ ~misencoded => contents[RSP] = 0

ControlInv ==
  /\ agenda \in Seq(SafeItem)
  /\ status \in {"running", "threw", "undefined", "done"}
  /\ status = "running" => Len(scopes) = 1 + BodyCount(agenda)

CountersInv == nodes \in Nat /\ leaks \in Nat /\ abandoned \in Nat

IInv ==
  /\ AllocatorInv /\ FrameInv /\ CodeInv /\ ObjectInv /\ ContentsInv
  /\ ControlInv /\ CountersInv

-----------------------------------------------------------------------------
(* Items of the agenda.                                                    *)

LEMMA ItemFields ==
  ASSUME NEW x \in SafeItem
  PROVE /\ x.what = "expr" => x.type \in ValueType
        /\ x.what = "left" =>
             x.op \in Operators /\ x.type \in ValueType /\ x.node \in Nat /\ x.of \in Nat
        /\ x.what = "right" =>
             /\ x.op \in Operators /\ x.type \in ValueType /\ x.node \in Nat /\ x.of \in Nat
             /\ x.left \in Register \ {RAX, RSP} /\ x.leftNode \in Nat
        /\ x.what = "let" => x.name \in Names /\ x.type \in ValueType
        /\ x.what \in UseKind => x.of \in Nat
        /\ x.what = "call" => x.name \in FnNames /\ x.base \in Nat /\ x.count \in Nat
        /\ x.what = "if" => x.at \in Int
BY DEF SafeItem, Item, UseKind

LEMMA ItemsTyped ==
  /\ \A t \in ValueType : ExprItem(t) \in SafeItem
  /\ \A op \in Operators, t \in ValueType, node, of \in Nat :
       LeftItem(op, t, node, of) \in SafeItem
  /\ \A op \in Operators, t \in ValueType, node, of, leftNode \in Nat,
        left \in Register \ {RAX, RSP} :
       RightItem(op, t, node, of, left, leftNode) \in SafeItem
  /\ \A n \in Names, t \in ValueType, of \in Nat : LetItem(n, t, of) \in SafeItem
  /\ \A what \in UseKind, of \in Nat : UseItem(what, of) \in SafeItem
  /\ \A f \in FnNames, base, count \in Nat : CallItem(f, base, count) \in SafeItem
  /\ \A at \in Int : IfItem(at) \in SafeItem
  /\ FnItem \in SafeItem
BY DEF SafeItem, Item, UseKind, ExprItem, LeftItem, RightItem, LetItem, UseItem, CallItem,
       IfItem, FnItem

(* Which of them open a body.                                              *)
LEMMA ItemsOpenBodies ==
  /\ \A t : ExprItem(t).what \notin BodyKind
  /\ \A op, t, node, of : LeftItem(op, t, node, of).what \notin BodyKind
  /\ \A op, t, node, of, left, leftNode :
       RightItem(op, t, node, of, left, leftNode).what \notin BodyKind
  /\ \A n, t, of : LetItem(n, t, of).what \notin BodyKind
  /\ \A what \in UseKind, of \in Nat : UseItem(what, of).what \notin BodyKind
  /\ \A f, base, count : CallItem(f, base, count).what \notin BodyKind
  /\ \A at : IfItem(at).what \in BodyKind
  /\ FnItem.what \in BodyKind
BY DEF BodyKind, UseKind, ExprItem, LeftItem, RightItem, LetItem, UseItem, CallItem, IfItem,
       FnItem

LEMMA BodiesFinite ==
  ASSUME NEW a \in Seq(SafeItem)
  PROVE IsFiniteSet(BodiesIn(a)) /\ BodyCount(a) \in Nat
<1>1. IsFiniteSet(1 .. Len(a))
  BY FS_Interval, Len(a) \in Nat
<1>2. IsFiniteSet(BodiesIn(a))
  BY <1>1, FS_Subset DEF BodiesIn
<1> QED
  BY <1>2, FS_CardinalityType DEF BodyCount

(* An item put before the others adds a body or none.                      *)
LEMMA CountOne ==
  ASSUME NEW x \in SafeItem, NEW a \in Seq(SafeItem)
  PROVE BodyCount(<< x >> \o a) = BodyCount(a) + (IF x.what \in BodyKind THEN 1 ELSE 0)
<1> DEFINE b == << x >> \o a
           old == BodiesIn(a)
           moved == {i + 1 : i \in old}
           f == [i \in old |-> i + 1]
<1>1. /\ b \in Seq(SafeItem) /\ Len(b) = Len(a) + 1
      /\ b[1] = x /\ \A i \in 1 .. Len(a) : b[i + 1] = a[i]
  OBVIOUS
<1>2. old \subseteq 1 .. Len(a) /\ IsFiniteSet(old)
  BY BodiesFinite DEF BodiesIn
<1>3. ExistsBijection(old, moved)
  <2>1. f \in [old -> moved]
    OBVIOUS
  <2>2. \A i, j \in old : f[i] = f[j] => i = j
    BY <1>2
  <2>3. \A j \in moved : \E i \in old : f[i] = j
    OBVIOUS
  <2>4. f \in Bijection(old, moved)
    BY <2>1, <2>2, <2>3, Fun_IsBij
  <2> QED
    BY <2>4 DEF ExistsBijection
<1>4. IsFiniteSet(moved) /\ Cardinality(moved) = Cardinality(old)
  BY <1>2, <1>3, FS_Bijection
<1>5. 1 \notin moved
  BY <1>2
<1>6. \A j \in 2 .. Len(b) : j - 1 \in 1 .. Len(a) /\ b[j] = a[j - 1]
  BY <1>1
<1>7. BodiesIn(b) = moved \cup (IF x.what \in BodyKind THEN {1} ELSE {})
  <2>1. \A j \in moved : j \in BodiesIn(b)
    BY <1>1, <1>2 DEF BodiesIn
  <2>2. \A j \in BodiesIn(b) : j # 1 => j \in moved
    <3> SUFFICES ASSUME NEW j \in BodiesIn(b), j # 1 PROVE j \in moved
      OBVIOUS
    <3>1. j \in 2 .. Len(b) /\ b[j].what \in BodyKind
      BY <1>1 DEF BodiesIn
    <3>2. j - 1 \in old
      BY <1>6, <3>1 DEF BodiesIn
    <3>3. (j - 1) + 1 = j
      BY <3>1
    <3> QED
      BY <3>2, <3>3
  <2>3. 1 \in BodiesIn(b) <=> x.what \in BodyKind
    BY <1>1 DEF BodiesIn
  <2> QED
    BY <2>1, <2>2, <2>3
<1>8. Cardinality(old) \in Nat
  BY <1>2, FS_CardinalityType
<1> HIDE DEF moved, old, b
<1>9. CASE x.what \in BodyKind
  <2>1. Cardinality(moved \cup {1}) = Cardinality(moved) + 1
    BY <1>4, <1>5, FS_AddElement
  <2> QED
    BY <1>4, <1>7, <1>9, <2>1 DEF BodyCount, old, b
<1>10. CASE x.what \notin BodyKind
  BY <1>4, <1>7, <1>8, <1>10 DEF BodyCount, old, b
<1> QED
  BY <1>9, <1>10

LEMMA CountTwo ==
  ASSUME NEW x \in SafeItem, NEW y \in SafeItem, NEW a \in Seq(SafeItem)
  PROVE BodyCount(<< x, y >> \o a)
          = BodyCount(a) + (IF y.what \in BodyKind THEN 1 ELSE 0)
                         + (IF x.what \in BodyKind THEN 1 ELSE 0)
<1>1. << x, y >> \o a = << x >> \o (<< y >> \o a) /\ << y >> \o a \in Seq(SafeItem)
  <2> DEFINE p == << x, y >> \o a
             q == << x >> \o (<< y >> \o a)
  <2>1. << y >> \o a \in Seq(SafeItem)
    OBVIOUS
  <2>2. p \in Seq(SafeItem) /\ q \in Seq(SafeItem)
    OBVIOUS
  <2>3. Len(p) = Len(q)
    OBVIOUS
  <2>4. \A i \in 1 .. Len(p) : p[i] = q[i]
    OBVIOUS
  <2> HIDE DEF p, q
  <2>5. p = q
    BY <2>2, <2>3, <2>4, SeqEqual
  <2> QED
    BY <2>1, <2>5 DEF p, q
<1>2. /\ BodyCount(<< x >> \o (<< y >> \o a))
           = BodyCount(<< y >> \o a) + (IF x.what \in BodyKind THEN 1 ELSE 0)
      /\ BodyCount(<< y >> \o a) = BodyCount(a) + (IF y.what \in BodyKind THEN 1 ELSE 0)
  BY <1>1, CountOne
<1> QED
  BY <1>1, <1>2, Zenon

LEMMA CountNone ==
  ASSUME NEW x \in SafeItem, NEW y \in SafeItem, NEW a \in Seq(SafeItem),
         x.what \notin BodyKind, y.what \notin BodyKind
  PROVE BodyCount(<< x >> \o a) = BodyCount(a) /\ BodyCount(<< x, y >> \o a) = BodyCount(a)
<1>1. BodyCount(a) \in Nat
  BY BodiesFinite
<1> QED
  BY <1>1, CountOne, CountTwo

LEMMA HeadAndTail ==
  ASSUME NEW a \in Seq(SafeItem), a # << >>
  PROVE /\ Head(a) \in SafeItem /\ Tail(a) \in Seq(SafeItem)
        /\ BodyCount(Tail(a)) \in Nat
        /\ BodyCount(a)
             = BodyCount(Tail(a)) + (IF Head(a).what \in BodyKind THEN 1 ELSE 0)
<1>1. Head(a) \in SafeItem /\ Tail(a) \in Seq(SafeItem) /\ a = << Head(a) >> \o Tail(a)
  OBVIOUS
<1> QED
  BY <1>1, CountOne, BodiesFinite

-----------------------------------------------------------------------------
(* What the handlers do to the parts of the state.                         *)

LEMMA PartsUnchanged ==
  /\ AllocatorInv /\ UNCHANGED allocatorVars => AllocatorInv'
  /\ FrameInv /\ UNCHANGED frameVars => FrameInv'
  /\ CodeInv /\ UNCHANGED << codeLength, jumps >> => CodeInv'
  /\ ObjectInv /\ UNCHANGED objectVars => ObjectInv'
  /\ ContentsInv /\ UNCHANGED << contents, misencoded >> => ContentsInv'
  /\ CountersInv /\ UNCHANGED << nodes, leaks, abandoned >> => CountersInv'
BY DEF AllocatorInv, FrameInv, CodeInv, ObjectInv, ContentsInv, CountersInv,
       allocatorVars, frameVars, objectVars

(* An instruction that writes no register.                                 *)
LEMMA Misencoding ==
  ASSUME ContentsInv, NEW wrong \in BOOLEAN, Misencode(wrong), UNCHANGED contents
  PROVE ContentsInv'
BY DEF ContentsInv, Misencode

LEMMA Emitting ==
  ASSUME CodeInv, NEW code \in Code, Emit(code), UNCHANGED jumps
  PROVE CodeInv'
BY CodeLength DEF CodeInv, Emit

(* get_free never returns RAX or RSP.                                      *)
LEMMA GrantsSafeRegister ==
  ASSUME AllocatorInv, NEW r, Grants(allocated, mode, r)
  PROVE r \in Register \ {RAX, RSP}
BY DEF AllocatorInv, Grants, Candidates, AllocatorMode, ArgRegisters, Register,
       RAX, RCX, RDX, RSP, R8, R9

LEMMA Pushing ==
  ASSUME AllocatorInv, NEW r \in Register, NEW node \in Nat, GetAndPush(r, node)
  PROVE AllocatorInv' /\ r \in Register \ {RAX, RSP}
<1>1. r \in Register \ {RAX, RSP}
  BY GrantsSafeRegister DEF GetAndPush
<1>2. Operand(r, node) \in SafeOperand
  BY <1>1 DEF Operand, SafeOperand
<1>3. evalStack' \in Seq(SafeOperand)
  BY <1>2 DEF GetAndPush, AllocatorInv
<1> QED
  BY <1>1, <1>3 DEF GetAndPush, AllocatorInv

(* A move into a register that is not RSP writes RSP only if it names      *)
(* another register.                                                       *)
LEMMA EncodedRegister ==
  ASSUME NEW r \in Register
  PROVE Encoded(r) \in Register /\ (~(r > RDI) => Encoded(r) = r)
BY DEF Encoded, Register, RDI

LEMMA Moving ==
  ASSUME ContentsInv, NEW r \in Register \ {RAX, RSP}, NEW node \in Nat,
         contents' \in {Moved(r, node), Addressed(r, node)}, Misencode(r > RDI)
  PROVE ContentsInv'
<1>1. Encoded(r) \in Register /\ RSP \in Register /\ (r > RDI) \in BOOLEAN
  BY EncodedRegister, Reserved DEF Register, RDI
<1>2. contents' \in [Register -> Nat]
  BY <1>1 DEF ContentsInv, Moved, Addressed
<1>3. ASSUME ~(r > RDI), ~misencoded PROVE contents'[RSP] = 0
  BY <1>1, <1>3, EncodedRegister DEF ContentsInv, Moved, Addressed
<1> QED
  BY <1>1, <1>2, <1>3 DEF ContentsInv, Misencode

LEMMA Popping ==
  ASSUME AllocatorInv, evalStack # << >>
  PROVE Popped \in Seq(SafeOperand) /\ Top \in SafeOperand
        /\ Top.reg \in Register \ {RAX, RSP}
<1>1. Popped \in Seq(SafeOperand) /\ Top \in SafeOperand
  BY DEF AllocatorInv, Popped, Top
<1> QED
  BY <1>1 DEF SafeOperand

LEMMA Declaring ==
  ASSUME FrameInv, Len(scopes) >= 1, NEW item \in SafeItem, item.what = "let",
         Declare(item)
  PROVE FrameInv' /\ Len(scopes') = Len(scopes)
<1>1. item.name \in Names /\ item.type \in ValueType
  BY ItemFields
<1>2. Size(item.type) \in Nat
  BY <1>1, SizeValues
<1>3. Slot(spOffset, item.type) \in [addr : Nat, type : ValueType]
  BY <1>1 DEF FrameInv, Slot
<1>4. \A scope \in Scope :
        [scope EXCEPT ![item.name] = Slot(spOffset, item.type)] \in Scope
  BY <1>1, <1>3 DEF Scope
<1>5. scopes' \in Seq(Scope) /\ Len(scopes') = Len(scopes)
  <2> DEFINE changed ==
               IF scopes[1][item.name] = NoSlot
               THEN [scopes[1] EXCEPT ![item.name] = Slot(spOffset, item.type)]
               ELSE scopes[1]
  <2>1. scopes' = [scopes EXCEPT ![1] = changed]
    BY DEF Declare, WithEntry
  <2>2. scopes \in Seq(Scope)
    BY DEF FrameInv
  <2>3. 1 \in 1 .. Len(scopes) /\ changed \in Scope
    BY <1>4, <2>2
  <2> HIDE DEF changed
  <2> QED
    BY <2>1, <2>2, <2>3, ExceptSeq
<1> QED
  BY <1>2, <1>5 DEF FrameInv, Declare

LEMMA EmptyScopeIsScope == EmptyScope(Names) \in Scope
BY DEF EmptyScope, Scope

(* Handlers that neither open nor close a body.                            *)
LEMMA Handling ==
  ASSUME IInv, NEW what, Doing(what)
  PROVE /\ status = "running"
        /\ Head(agenda) \in SafeItem /\ Head(agenda).what \in what
        /\ Tail(agenda) \in Seq(SafeItem) /\ BodyCount(Tail(agenda)) \in Nat
        /\ Len(scopes) = 1 + BodyCount(agenda)
        /\ BodyCount(agenda)
             = BodyCount(Tail(agenda)) + (IF Head(agenda).what \in BodyKind THEN 1 ELSE 0)
        /\ Len(scopes) >= 1
<1>1. agenda \in Seq(SafeItem) /\ agenda # << >> /\ status = "running"
  BY DEF IInv, ControlInv, Doing
<1>2. BodyCount(agenda) \in Nat
  BY <1>1, BodiesFinite
<1>3. Len(scopes) = 1 + BodyCount(agenda)
  BY <1>1 DEF IInv, ControlInv
<1>4. Len(scopes) >= 1
  BY <1>2, <1>3
<1> QED
  BY <1>1, <1>3, <1>4, HeadAndTail DEF Doing

LEMMA Finishing ==
  ASSUME IInv, NEW what, Doing(what), what \cap BodyKind = {},
         Replace(<< >>), Len(scopes') = Len(scopes), UNCHANGED status
  PROVE ControlInv'
<1>1. Tail(agenda) \in Seq(SafeItem) /\ BodyCount(Tail(agenda)) \in Nat
  BY Handling
<1>2. agenda' = Tail(agenda)
  BY <1>1 DEF Replace
<1>3. BodyCount(agenda) = BodyCount(Tail(agenda))
  BY <1>1, Handling
<1>4. Len(scopes') = 1 + BodyCount(Tail(agenda)) /\ status = "running"
  BY <1>3, Handling
<1> QED
  BY <1>1, <1>2, <1>4 DEF ControlInv, BodyCount

LEMMA GoingOn ==
  ASSUME IInv, NEW what, Doing(what), what \cap BodyKind = {},
         NEW x \in SafeItem, x.what \notin BodyKind, Replace(<< x >>),
         Len(scopes') = Len(scopes), UNCHANGED status
  PROVE ControlInv'
<1>1. Tail(agenda) \in Seq(SafeItem) /\ BodyCount(Tail(agenda)) \in Nat
  BY Handling
<1>2. agenda' = << x >> \o Tail(agenda) /\ agenda' \in Seq(SafeItem)
  BY <1>1 DEF Replace
<1>3. BodyCount(agenda) = BodyCount(Tail(agenda))
  BY <1>1, Handling
<1>4. BodyCount(<< x >> \o Tail(agenda)) = BodyCount(Tail(agenda))
  BY <1>1, CountNone
<1>5. Len(scopes') = 1 + BodyCount(<< x >> \o Tail(agenda)) /\ status = "running"
  BY <1>3, <1>4, Handling
<1> QED
  BY <1>2, <1>5 DEF ControlInv, BodyCount

LEMMA GoingDown ==
  ASSUME IInv, NEW what, Doing(what), what \cap BodyKind = {},
         NEW x \in SafeItem, x.what \notin BodyKind,
         NEW y \in SafeItem, y.what \notin BodyKind, Replace(<< x, y >>),
         Len(scopes') = Len(scopes), UNCHANGED status
  PROVE ControlInv'
<1>1. Tail(agenda) \in Seq(SafeItem) /\ BodyCount(Tail(agenda)) \in Nat
  BY Handling
<1>2. agenda' = << x, y >> \o Tail(agenda) /\ agenda' \in Seq(SafeItem)
  BY <1>1 DEF Replace
<1>3. BodyCount(agenda) = BodyCount(Tail(agenda))
  BY <1>1, Handling
<1>4. BodyCount(<< x, y >> \o Tail(agenda)) = BodyCount(Tail(agenda))
  BY <1>1, CountNone
<1>5. Len(scopes') = 1 + BodyCount(<< x, y >> \o Tail(agenda)) /\ status = "running"
  BY <1>3, <1>4, Handling
<1> QED
  BY <1>2, <1>5 DEF ControlInv, BodyCount

LEMMA Starting ==
  ASSUME IInv, NEW what, Doing(what),
         NEW x \in SafeItem, x.what \notin BodyKind,
         NEW y \in SafeItem, y.what \notin BodyKind, Enter(<< x, y >>),
         Len(scopes') = Len(scopes), UNCHANGED status
  PROVE ControlInv'
<1>1. agenda \in Seq(SafeItem) /\ BodyCount(agenda) \in Nat
  BY BodiesFinite DEF IInv, ControlInv
<1>2. agenda' = << x, y >> \o agenda /\ agenda' \in Seq(SafeItem)
  BY <1>1 DEF Enter
<1>3. BodyCount(<< x, y >> \o agenda) = BodyCount(agenda)
  BY <1>1, CountNone
<1>4. Len(scopes') = 1 + BodyCount(<< x, y >> \o agenda) /\ status = "running"
  BY <1>3, Handling
<1> QED
  BY <1>2, <1>4 DEF ControlInv, BodyCount

(* Handlers that end the run of the generator.                             *)
LEMMA Stopping ==
  ASSUME IInv, status' \in {"threw", "undefined", "done"}, UNCHANGED agenda
  PROVE ControlInv'
BY DEF IInv, ControlInv

-----------------------------------------------------------------------------
(* The initial state and the actions.                                      *)

LEMMA InitSafe == Init => IInv
<1> SUFFICES ASSUME Init PROVE IInv
  OBVIOUS
<1>1. AllocatorInv
  BY DEF Init, AllocatorInv, InitiallyAllocated, AllocatorMode, Register, RAX, RDX, RSP
<1>2. FrameInv
  BY EmptyScopeIsScope DEF Init, FrameInv, FirstLocal
<1>3. CodeInv /\ ObjectInv /\ CountersInv
  BY DEF Init, CodeInv, ObjectInv, CountersInv
<1>4. ContentsInv
  BY Reserved DEF Init, ContentsInv
<1>5. ControlInv
  <2>1. BodiesIn(<< >>) = {}
    BY DEF BodiesIn
  <2>2. BodyCount(agenda) = 0
    BY <2>1, FS_EmptySet DEF Init, BodyCount
  <2> QED
    BY <2>2 DEF Init, ControlInv
<1> QED
  BY <1>1, <1>2, <1>3, <1>4, <1>5 DEF IInv

LEMMA ParameterScopeIsScope ==
  ASSUME NEW p \in Parameters PROVE ParameterScope(p) \in Scope
<1>1. PICK k \in 0 .. MaxArgs : p \in [1 .. k -> Names \X Types]
  BY DEF Parameters
<1>2. k \in Nat /\ Len(p) = k
  BY <1>1, BoundsAssumption
<1>3. \A i \in 1 .. k : Slot(ArgHome(i), p[i][2]) \in [addr : Nat, type : ValueType]
  BY <1>1, <1>2, TypesAssumption DEF Slot, ArgHome
<1>4. ASSUME NEW n \in Names, \E i \in 1 .. Len(p) : p[i][1] = n
      PROVE (CHOOSE i \in 1 .. Len(p) : p[i][1] = n) \in 1 .. k
  BY <1>2, <1>4
<1> QED
  BY <1>2, <1>3, <1>4, Zenon DEF ParameterScope, Scope

LEMMA FrameCode ==
  /\ emit_sub64_imm32(RSP, FrameSize) \in Code
  /\ emit_add64_imm32(RSP, FrameSize) \o emit_ret \in Code
<1>1. emit_ret \in Code
  BY OneByte DEF emit_ret, Byte
<1>2. /\ emit_sub64_imm32(RSP, FrameSize) \in Code
      /\ emit_add64_imm32(RSP, FrameSize) \in Code
  BY ImmediateCalls, Reserved DEF FrameSize, ShadowSpace
<1> QED
  BY <1>1, <1>2, CodeConcat

LEMMA BeginFunctionSafe == IInv /\ BeginFunction => IInv'
<1> SUFFICES ASSUME IInv, BeginFunction PROVE IInv'
  OBVIOUS
<1>1. PICK f \in FnNames \ DefinedFns, p \in Parameters :
        /\ symbols' = Append(symbols, Symbol(f, 2, codeLength))
        /\ spOffset' = FirstLocal
        /\ IF Len(p) > MaxRegisterArgs
             THEN /\ status' = "threw"
                  /\ scopes' = << EmptyScope(Names) >> \o scopes
                  /\ Emit(emit_sub64_imm32(RSP, FrameSize))
                  /\ UNCHANGED agenda
             ELSE /\ scopes' = << ParameterScope(p) >> \o scopes
                  /\ Emit(emit_sub64_imm32(RSP, FrameSize) \o ParameterCode(p))
                  /\ Enter(<< FnItem >>)
                  /\ UNCHANGED status
  BY DEF BeginFunction
<1>2. AllocatorInv' /\ ContentsInv'
  BY PartsUnchanged DEF IInv, BeginFunction, historyVars
<1>3. FrameInv'
  <2>1. PICK scope \in Scope : scopes' = << scope >> \o scopes
    BY <1>1, EmptyScopeIsScope, ParameterScopeIsScope
  <2>2. scopes' \in Seq(Scope)
    BY <2>1 DEF IInv, FrameInv
  <2> QED
    BY <1>1, <2>2 DEF FrameInv, FirstLocal
<1>4. CodeInv'
  <2>1. UNCHANGED jumps
    BY DEF BeginFunction, historyVars
  <2>2. emit_sub64_imm32(RSP, FrameSize) \o ParameterCode(p) \in Code
    BY FrameCode, ParameterCodeIsCode, CodeConcat
  <2> QED
    BY <1>1, <2>1, <2>2, FrameCode, Emitting DEF IInv
<1>5. ObjectInv'
  <2>1. Symbol(f, 2, codeLength)
          \in [name : FnNames \cup {"$d"}, section : 0 .. 2, value : Nat]
    BY DEF IInv, CodeInv, Symbol
  <2> QED
    BY <1>1, <2>1 DEF IInv, ObjectInv, BeginFunction
<1>6. CountersInv'
  BY DEF IInv, CountersInv, BeginFunction, historyVars
<1>7. ControlInv'
  <2>1. CASE Len(p) > MaxRegisterArgs
    BY <1>1, <2>1, Stopping
  <2>2. CASE ~(Len(p) > MaxRegisterArgs)
    <3>1. agenda \in Seq(SafeItem) /\ FnItem \in SafeItem /\ FnItem.what \in BodyKind
      BY ItemsTyped, ItemsOpenBodies DEF IInv, ControlInv
    <3>2. BodyCount(<< FnItem >> \o agenda) = BodyCount(agenda) + 1
      BY <3>1, CountOne
    <3>3. agenda' = << FnItem >> \o agenda /\ agenda' \in Seq(SafeItem)
      <4>1. agenda' = << FnItem >> \o agenda
        BY <1>1, <2>2 DEF Enter
      <4>2. << FnItem >> \o agenda \in Seq(SafeItem)
        BY <3>1
      <4> QED
        BY <4>1, <4>2
    <3>4. Len(scopes') = Len(scopes) + 1
      BY <1>1, <2>2 DEF IInv, FrameInv
    <3>5. BodyCount(agenda) \in Nat /\ status = "running"
      BY <3>1, BodiesFinite DEF BeginFunction
    <3>6. Len(scopes) = 1 + BodyCount(agenda)
      BY <3>5 DEF IInv, ControlInv
    <3>7. Len(scopes') = 1 + BodyCount(<< FnItem >> \o agenda)
      BY <3>2, <3>4, <3>5, <3>6
    <3>8. status' = "running"
      BY <1>1, <2>2, <3>5
    <3> QED
      BY <3>3, <3>7, <3>8 DEF ControlInv, BodyCount
  <2> QED
    BY <2>1, <2>2
<1> QED
  BY <1>2, <1>3, <1>4, <1>5, <1>6, <1>7 DEF IInv

(* A body that ends takes its scope with it.                               *)
LEMMA ClosingBody ==
  ASSUME IInv, NEW what, Doing(what), what \subseteq BodyKind,
         pop_addr_table, UNCHANGED << spOffset, status >>, Replace(<< >>)
  PROVE FrameInv' /\ ControlInv'
<1>1. /\ Tail(agenda) \in Seq(SafeItem) /\ BodyCount(Tail(agenda)) \in Nat
      /\ BodyCount(agenda) = BodyCount(Tail(agenda)) + 1
      /\ Len(scopes) = 1 + BodyCount(agenda) /\ status = "running"
  BY Handling
<1>2. agenda' = Tail(agenda)
  BY <1>1 DEF Replace
<1>3. scopes \in Seq(Scope) /\ scopes # << >>
  BY <1>1 DEF IInv, FrameInv
<1>4. scopes' \in Seq(Scope) /\ Len(scopes') = Len(scopes) - 1
  BY <1>3, HeadTailProperties DEF pop_addr_table
<1>5. Len(scopes') = 1 + BodyCount(Tail(agenda))
  BY <1>1, <1>4
<1>6. FrameInv'
  BY <1>4 DEF IInv, FrameInv
<1>7. ControlInv'
  BY <1>1, <1>2, <1>5 DEF ControlInv, BodyCount
<1> QED
  BY <1>6, <1>7

LEMMA EndFunctionSafe == IInv /\ EndFunction => IInv'
<1> SUFFICES ASSUME IInv, EndFunction PROVE IInv'
  OBVIOUS
<1>1. FrameInv' /\ ControlInv'
  BY ClosingBody DEF EndFunction, BodyKind
<1>2. CodeInv'
  BY Emitting, FrameCode DEF IInv, EndFunction, historyVars
<1>3. AllocatorInv' /\ ObjectInv' /\ ContentsInv' /\ CountersInv'
  BY PartsUnchanged DEF IInv, EndFunction, historyVars
<1> QED
  BY <1>1, <1>2, <1>3 DEF IInv

LEMMA WriteToDiskSafe == IInv /\ WriteToDisk => IInv'
<1> SUFFICES ASSUME IInv, WriteToDisk PROVE IInv'
  OBVIOUS
<1>1. ControlInv'
  BY Stopping DEF WriteToDisk
<1> QED
  BY <1>1, PartsUnchanged DEF IInv, WriteToDisk, historyVars

(* Visits that only number a node and put items on the agenda.             *)
LEMMA VisitedOnly ==
  ASSUME IInv, NewNode, UNCHANGED visitedOnly
  PROVE /\ AllocatorInv' /\ FrameInv' /\ CodeInv' /\ ObjectInv' /\ ContentsInv'
        /\ CountersInv' /\ Len(scopes') = Len(scopes) /\ UNCHANGED status
        /\ ThisNode \in Nat /\ NextNode \in Nat
<1>1. /\ UNCHANGED << allocatorVars, frameVars, codeLength, objectVars, status, contents,
                      historyVars >>
  BY DEF visitedOnly
<1>2. AllocatorInv' /\ FrameInv' /\ CodeInv' /\ ObjectInv' /\ ContentsInv'
  BY <1>1, PartsUnchanged DEF IInv, historyVars
<1>3. CountersInv' /\ ThisNode \in Nat /\ NextNode \in Nat
  BY <1>1 DEF IInv, CountersInv, NewNode, historyVars, ThisNode, NextNode
<1> QED
  BY <1>1, <1>2, <1>3 DEF frameVars

LEMMA VisitVarDeclSafe == IInv /\ VisitVarDecl => IInv'
<1> SUFFICES ASSUME IInv, VisitVarDecl PROVE IInv'
  OBVIOUS
<1>1. PICK n \in Names, t \in Types : Enter(<< ExprItem(t), LetItem(n, t, NextNode) >>)
  BY DEF VisitVarDecl
<1>2. /\ AllocatorInv' /\ FrameInv' /\ CodeInv' /\ ObjectInv' /\ ContentsInv'
      /\ CountersInv' /\ Len(scopes') = Len(scopes) /\ UNCHANGED status
      /\ NextNode \in Nat
  BY VisitedOnly DEF VisitVarDecl
<1>3. /\ ExprItem(t) \in SafeItem /\ LetItem(n, t, NextNode) \in SafeItem
      /\ ExprItem(t).what \notin BodyKind /\ LetItem(n, t, NextNode).what \notin BodyKind
  BY <1>2, ItemsTyped, ItemsOpenBodies, TypesAssumption
<1>4. Doing(BodyKind)
  BY DEF VisitVarDecl, InBody
<1>5. ControlInv'
  BY <1>1, <1>2, <1>3, <1>4, Starting
<1> QED
  BY <1>2, <1>5 DEF IInv

LEMMA VisitUseSafe ==
  ASSUME IInv, NEW kind, NEW what \in UseKind, NEW types \in SUBSET ValueType,
         VisitUse(kind, what, types)
  PROVE IInv'
<1>1. PICK t \in types : Enter(<< ExprItem(t), UseItem(what, NextNode) >>)
  BY DEF VisitUse
<1>2. /\ AllocatorInv' /\ FrameInv' /\ CodeInv' /\ ObjectInv' /\ ContentsInv'
      /\ CountersInv' /\ Len(scopes') = Len(scopes) /\ UNCHANGED status
      /\ NextNode \in Nat
  BY VisitedOnly DEF VisitUse
<1>3. /\ ExprItem(t) \in SafeItem /\ UseItem(what, NextNode) \in SafeItem
      /\ ExprItem(t).what \notin BodyKind /\ UseItem(what, NextNode).what \notin BodyKind
  BY <1>2, ItemsTyped, ItemsOpenBodies
<1>4. Doing(BodyKind)
  BY DEF VisitUse, InBody
<1>5. ControlInv'
  BY <1>1, <1>2, <1>3, <1>4, Starting
<1> QED
  BY <1>2, <1>5 DEF IInv

LEMMA VisitUsesSafe ==
  /\ IInv /\ VisitRet => IInv'
  /\ IInv /\ VisitIf => IInv'
  /\ IInv /\ VisitExprStatement => IInv'
<1>1. Types \in SUBSET ValueType /\ {"bool"} \in SUBSET ValueType
  BY TypesAssumption DEF ValueType
<1>2. "ret" \in UseKind /\ "test" \in UseKind /\ "discard" \in UseKind
  BY DEF UseKind
<1> QED
  BY <1>1, <1>2, VisitUseSafe DEF VisitRet, VisitIf, VisitExprStatement

LEMMA VisitAssignSafe == IInv /\ VisitAssign => IInv'
<1> SUFFICES ASSUME IInv, VisitAssign PROVE IInv'
  OBVIOUS
<1>1. ControlInv'
  BY DEF IInv, ControlInv, VisitAssign, visitedOnly, frameVars, BodyCount
<1>2. NewNode /\ UNCHANGED visitedOnly
  BY DEF VisitAssign
<1> QED
  BY <1>1, <1>2, VisitedOnly DEF IInv

(* Visits that compute the value of a leaf into a register.                *)
LEMMA LeafSafe ==
  ASSUME IInv, Doing({"expr"}), NEW r \in Register, GetAndPush(r, ThisNode),
         NEW code \in Code, Emit(code), Replace(<< >>), NewNode,
         contents' \in {Moved(r, ThisNode), Addressed(r, ThisNode)}, Misencode(r > RDI),
         UNCHANGED << frameVars, status, jumps, leaks, abandoned >>, ObjectInv'
  PROVE IInv'
<1>1. ThisNode \in Nat /\ CountersInv'
  BY DEF IInv, CountersInv, ThisNode, NewNode
<1>2. AllocatorInv' /\ ContentsInv'
  BY <1>1, Pushing, Moving DEF IInv
<1>3. FrameInv' /\ Len(scopes') = Len(scopes)
  BY PartsUnchanged DEF IInv, frameVars
<1>4. CodeInv'
  BY Emitting DEF IInv
<1>5. ControlInv'
  BY <1>3, Finishing DEF BodyKind
<1> QED
  BY <1>1, <1>2, <1>3, <1>4, <1>5 DEF IInv

LEMMA WantedIsValueType ==
  ASSUME IInv, Doing({"expr"}) PROVE Wanted \in ValueType
<1>1. Head(agenda) \in SafeItem /\ Head(agenda).what = "expr"
  BY Handling
<1> QED
  BY <1>1, ItemFields DEF Wanted

LEMMA VisitLiteralSafe == IInv /\ VisitLiteral => IInv'
<1> SUFFICES ASSUME IInv, VisitLiteral PROVE IInv'
  OBVIOUS
<1>1. PICK r \in Register :
        /\ GetAndPush(r, ThisNode)
        /\ Emit(emit_mov32_imm(r, 0))
        /\ contents' = Moved(r, ThisNode) /\ Misencode(r > RDI)
  BY DEF VisitLiteral
<1>2. emit_mov32_imm(r, 0) \in Code
  BY ImmediateCalls
<1>3. ObjectInv'
  BY PartsUnchanged DEF IInv, VisitLiteral
<1> QED
  BY <1>1, <1>2, <1>3, LeafSafe DEF VisitLiteral, Expecting

(* The relocation of code and the symbol it refers to.                     *)
LEMMA Relocating ==
  ASSUME CodeInv, ObjectInv, NEW code \in Code, Len(code) >= 4, Relocate(code),
         NEW name \in FnNames \cup {"$d"}, NEW section \in 0 .. 2, NEW value \in Nat,
         symbols' = Append(symbols, Symbol(name, section, value)),
         dataLength' \in Nat
  PROVE ObjectInv'
<1>1. codeLength + Len(code) - 4 \in Nat
  <2>1. Len(code) \in Nat /\ codeLength \in Nat
    BY CodeLength DEF CodeInv
  <2> QED
    BY <2>1
<1>2. Len(symbols) \in Nat
  BY DEF ObjectInv
<1>3. [vaddr |-> codeLength + Len(code) - 4, symndx |-> Len(symbols)]
        \in [vaddr : Nat, symndx : Nat]
  BY <1>1, <1>2
<1>4. relocations' \in Seq([vaddr : Nat, symndx : Nat])
  BY <1>3 DEF ObjectInv, Relocate
<1>5. Symbol(name, section, value)
        \in [name : FnNames \cup {"$d"}, section : 0 .. 2, value : Nat]
  BY DEF Symbol
<1>6. symbols' \in Seq([name : FnNames \cup {"$d"}, section : 0 .. 2, value : Nat])
  BY <1>5 DEF ObjectInv
<1> QED
  BY <1>4, <1>6 DEF ObjectInv

LEMMA VisitStringSafe == IInv /\ VisitString => IInv'
<1> SUFFICES ASSUME IInv, VisitString PROVE IInv'
  OBVIOUS
<1>1. PICK r \in Register, size \in StringSizes :
        /\ GetAndPush(r, ThisNode)
        /\ Emit(emit_lea64(r, 0))
        /\ Relocate(emit_lea64(r, 0))
        /\ contents' = Addressed(r, ThisNode) /\ Misencode(r > RDI)
        /\ symbols' = Append(symbols, Symbol("$d", 1, dataLength))
        /\ dataLength' = dataLength + StringBytes(size)
  BY DEF VisitString
<1>2. emit_lea64(r, 0) \in Code /\ Len(emit_lea64(r, 0)) >= 4
  BY AddressedCalls
<1>3. dataLength \in Nat /\ dataLength' \in Nat
  BY <1>1, BoundsAssumption DEF IInv, ObjectInv, StringBytes
<1>4. ObjectInv'
  BY <1>1, <1>2, <1>3, Relocating, "$d" \in FnNames \cup {"$d"}, 1 \in 0 .. 2 DEF IInv
<1> QED
  BY <1>1, <1>2, <1>4, LeafSafe DEF VisitString, Expecting

LEMMA VisitIdentifierSafe == IInv /\ VisitIdentifier => IInv'
<1> SUFFICES ASSUME IInv, VisitIdentifier PROVE IInv'
  OBVIOUS
<1>1. PICK n \in Names, i \in 1 .. Len(scopes), r \in Register :
        /\ Variable(n, i)
        /\ GetAndPush(r, ThisNode)
        /\ Emit(LoadFromSlot(r, Wanted, scopes[i][n].addr))
        /\ contents' = Moved(r, ThisNode) /\ Misencode(r > RDI)
  BY DEF VisitIdentifier
<1>2. scopes[i] \in Scope
  BY DEF IInv, FrameInv
<1>3. scopes[i][n].addr \in Nat
  BY <1>2 DEF Scope, NoSlot, Slot
<1>4. Wanted \in ValueType
  BY WantedIsValueType DEF VisitIdentifier, Expecting
<1>5. LoadFromSlot(r, Wanted, scopes[i][n].addr) \in Code
  BY <1>3, <1>4, LoadFromSlotIsCode
<1>6. ObjectInv'
  BY PartsUnchanged DEF IInv, VisitIdentifier
<1> QED
  BY <1>1, <1>5, <1>6, LeafSafe DEF VisitIdentifier, Expecting

LEMMA StoreLiteralSafe == IInv /\ StoreLiteral => IInv'
<1> SUFFICES ASSUME IInv, StoreLiteral PROVE IInv'
  OBVIOUS
<1>1. Doing({"expr"}) /\ Wanted \in ValueType
  BY WantedIsValueType DEF StoreLiteral, Expecting
<1>2. /\ Head(agenda) \in SafeItem /\ Head(agenda).what = "expr" /\ status = "running"
      /\ Tail(agenda) \in Seq(SafeItem) /\ Len(scopes) >= 1
      /\ Len(scopes) = 1 + BodyCount(agenda) /\ BodyCount(Tail(agenda)) \in Nat
  BY <1>1, Handling
<1>3. agenda \in Seq(SafeItem) /\ Len(agenda) > 1 /\ agenda[2].what = "let"
  BY DEF IInv, ControlInv, StoreLiteral, Initialising, DirectlyUnder
<1>4. agenda[2] \in SafeItem
  BY <1>3
<1>5. FrameInv' /\ Len(scopes') = Len(scopes)
  BY <1>2, <1>3, <1>4, Declaring DEF IInv, StoreLiteral
<1>6. AllocatorInv' /\ ObjectInv'
  BY PartsUnchanged DEF IInv, StoreLiteral
<1>7. CountersInv'
  BY DEF IInv, CountersInv, StoreLiteral, NewNode
<1>8. spOffset \in Nat /\ spOffset % 256 \in Byte
  BY DisplacementIsByte DEF IInv, FrameInv
<1>9. CodeInv' /\ ContentsInv'
  <2>1. UNCHANGED jumps
    BY DEF StoreLiteral
  <2>2. CASE Size(Wanted) < 8
    <3>1. Emit(ImmediateToSlot(spOffset, Wanted)) /\ UNCHANGED << contents, misencoded >>
      BY <2>2, <1>1, SizeValues DEF StoreLiteral
    <3>2. ImmediateToSlot(spOffset, Wanted) \in Code
      BY <1>1, <1>8, ImmediateToSlotIsCode
    <3> QED
      BY <2>1, <3>1, <3>2, Emitting, PartsUnchanged DEF IInv
  <2>3. CASE ~(Size(Wanted) < 8)
    <3>1. PICK r \in Register :
            /\ Grants(allocated, mode, r)
            /\ Emit(emit_mov64_imm(r, 0) \o emit_spd_mov64_store(spOffset % 256, r))
            /\ contents' = Moved(r, 0) /\ Misencode(r > RDI)
      BY <2>3 DEF StoreLiteral
    <3>2. emit_mov64_imm(r, 0) \o emit_spd_mov64_store(spOffset % 256, r) \in Code
      BY <1>8, ImmediateCalls, StoreCalls, CodeConcat, 0 \in Nat
    <3>3. ContentsInv'
      BY <3>1, GrantsSafeRegister, Moving, 0 \in Nat DEF IInv
    <3> QED
      BY <2>1, <3>1, <3>2, <3>3, Emitting DEF IInv
  <2> QED
    BY <2>2, <2>3
<1>10. ControlInv'
  <2> DEFINE below == Tail(agenda)
  <2>1. below \in Seq(SafeItem) /\ below # << >> /\ Head(below) = agenda[2]
    <3>1. /\ below \in Seq(SafeItem) /\ Len(below) = Len(agenda) - 1
          /\ \A i \in 1 .. Len(below) : below[i] = agenda[i + 1]
      BY <1>3, HeadTailProperties
    <3> HIDE DEF below
    <3>2. 1 \in 1 .. Len(below)
      BY <1>3, <3>1
    <3>3. below[1] = agenda[2]
      BY <3>1, <3>2
    <3> QED
      BY <3>1, <3>2, <3>3
  <2>2. /\ Tail(below) \in Seq(SafeItem) /\ BodyCount(Tail(below)) \in Nat
        /\ BodyCount(below)
             = BodyCount(Tail(below)) + (IF agenda[2].what \in BodyKind THEN 1 ELSE 0)
    BY <2>1, HeadAndTail
  <2>3. BodyCount(below) = BodyCount(Tail(below))
    BY <1>3, <2>2 DEF BodyKind
  <2>4. BodyCount(agenda) = BodyCount(below)
    BY <1>1, <1>2, Handling DEF BodyKind
  <2>5. agenda' = Tail(below) /\ status' = "running"
    BY <1>2 DEF StoreLiteral
  <2>6. Len(scopes') = 1 + BodyCount(Tail(below))
    BY <1>2, <1>5, <2>3, <2>4
  <2> HIDE DEF below
  <2> QED
    BY <2>2, <2>5, <2>6 DEF ControlInv, BodyCount
<1> QED
  BY <1>5, <1>6, <1>7, <1>9, <1>10 DEF IInv

LEMMA OutOfRegistersSafe == IInv /\ OutOfRegisters => IInv'
<1> SUFFICES ASSUME IInv, OutOfRegisters PROVE IInv'
  OBVIOUS
<1>1. ControlInv'
  BY Stopping DEF OutOfRegisters
<1> QED
  BY <1>1, PartsUnchanged DEF IInv, OutOfRegisters, historyVars

LEMMA VisitBinarySafe == IInv /\ VisitBinary => IInv'
<1> SUFFICES ASSUME IInv, VisitBinary PROVE IInv'
  OBVIOUS
<1>1. PICK op \in Operators, t \in Types :
        Replace(<< ExprItem(t), LeftItem(op, t, ThisNode, NextNode) >>)
  BY DEF VisitBinary
<1>2. /\ AllocatorInv' /\ FrameInv' /\ CodeInv' /\ ObjectInv' /\ ContentsInv'
      /\ CountersInv' /\ Len(scopes') = Len(scopes) /\ UNCHANGED status
      /\ ThisNode \in Nat /\ NextNode \in Nat
  BY VisitedOnly DEF VisitBinary
<1>3. /\ ExprItem(t) \in SafeItem /\ LeftItem(op, t, ThisNode, NextNode) \in SafeItem
      /\ ExprItem(t).what \notin BodyKind
      /\ LeftItem(op, t, ThisNode, NextNode).what \notin BodyKind
  BY <1>2, ItemsTyped, ItemsOpenBodies, TypesAssumption
<1>4. Doing({"expr"}) /\ {"expr"} \cap BodyKind = {}
  BY DEF VisitBinary, Expecting, BodyKind
<1>5. ControlInv'
  BY <1>1, <1>2, <1>3, <1>4, GoingDown
<1> QED
  BY <1>2, <1>5 DEF IInv

LEMMA PopLeftSafe == IInv /\ PopLeft => IInv'
<1> SUFFICES ASSUME IInv, PopLeft PROVE IInv'
  OBVIOUS
<1> DEFINE item == Head(agenda)
           right == RightItem(item.op, item.type, item.node, ThisNode, Top.reg, item.of)
<1>1. Doing({"left"}) /\ {"left"} \cap BodyKind = {}
  BY DEF PopLeft, BodyKind
<1>2. item \in SafeItem /\ item.what = "left"
  BY <1>1, Handling
<1>3. item.op \in Operators /\ item.type \in ValueType /\ item.node \in Nat /\ item.of \in Nat
  BY <1>2, ItemFields
<1>4. Popped \in Seq(SafeOperand) /\ Top.reg \in Register \ {RAX, RSP}
  BY Popping DEF IInv, PopLeft
<1>5. ThisNode \in Nat
  BY DEF IInv, CountersInv, ThisNode
<1>6. /\ ExprItem(item.type) \in SafeItem /\ right \in SafeItem
      /\ ExprItem(item.type).what \notin BodyKind /\ right.what \notin BodyKind
  BY <1>3, <1>4, <1>5, ItemsTyped, ItemsOpenBodies
<1>7. Replace(<< ExprItem(item.type), right >>) /\ UNCHANGED << scopes, status >>
  BY DEF PopLeft, frameVars
<1> HIDE DEF right
<1>8. ControlInv'
  BY <1>1, <1>6, <1>7, GoingDown
<1>9. AllocatorInv'
  BY <1>4 DEF IInv, AllocatorInv, PopLeft
<1>10. FrameInv' /\ CodeInv' /\ ObjectInv' /\ ContentsInv' /\ CountersInv'
  BY PartsUnchanged DEF IInv, PopLeft, historyVars
<1> QED
  BY <1>8, <1>9, <1>10 DEF IInv

LEMMA ApplyOperatorSafe == IInv /\ ApplyOperator => IInv'
<1> SUFFICES ASSUME IInv, ApplyOperator PROVE IInv'
  OBVIOUS
<1> DEFINE item == Head(agenda)
           left == item.left
           right == Top.reg
           code == BinaryCode(item.op, item.type, left, right)
           result == ResultOf(item.op, left, right, item.leftNode, item.of, item.node)
<1>1. Doing({"right"}) /\ {"right"} \cap BodyKind = {}
  BY DEF ApplyOperator, BodyKind
<1>2. item \in SafeItem /\ item.what = "right"
  BY <1>1, Handling
<1>3. /\ item.type \in ValueType /\ item.node \in Nat
      /\ left \in Register \ {RAX, RSP}
  BY <1>2, ItemFields
<1>4. Popped \in Seq(SafeOperand) /\ right \in Register \ {RAX, RSP}
  BY Popping DEF IInv, ApplyOperator
<1>5. /\ Handled(item.op, item.type) /\ Emit(code)
      /\ jumps' = jumps \cup BinaryJumps(item.op, right, codeLength, code)
      /\ evalStack' = Append(Popped, Operand(right, item.node))
      /\ allocated' = Freed(allocated, left)
      /\ contents' = ContentsAfter(item.op, item.type, left, right, result)
      /\ Misencode(Misnames(item.op, item.type, left, right))
  BY DEF ApplyOperator
<1>6. AllocatorInv'
  <2>1. Operand(right, item.node) \in SafeOperand
    BY <1>3, <1>4 DEF Operand, SafeOperand
  <2>2. evalStack' \in Seq(SafeOperand)
    BY <1>4, <1>5, <2>1
  <2>3. allocated' \subseteq Register /\ {RAX, RSP} \subseteq allocated'
    BY <1>3, <1>5 DEF IInv, AllocatorInv, Freed
  <2> QED
    BY <2>2, <2>3 DEF IInv, AllocatorInv, ApplyOperator
<1>7. ContentsInv'
  <2>1. result \in Nat
    BY <1>3 DEF ResultOf
  <2>2. RSP # RAX /\ RSP # RDX /\ RSP \in Register
    BY DEF RSP, RAX, RDX, Register
  <2> HIDE DEF result, left, right, item
  <2> DEFINE wrong == Misnames(item.op, item.type, left, right)
  <2>3. contents' \in [Register -> Nat]
    BY <1>5, <2>1 DEF IInv, ContentsInv, ContentsAfter, Effect
  <2>4. ASSUME ~wrong, ~misencoded PROVE contents'[RSP] = 0
    <3>1. contents[RSP] = 0 /\ left # RSP /\ right # RSP
          /\ contents' = Effect(contents, 0, item.op, item.type, left, right, result)
      BY <1>3, <1>4, <1>5, <2>4 DEF IInv, ContentsInv, ContentsAfter
    <3>2. MovesByte(item.op, item.type) => ByteTarget(right) = right
      BY <2>4 DEF Misnames, ByteTarget
    <3>3. ~(left > RDI) /\ ~(right > RDI)
      BY <2>4 DEF Misnames
    <3> HIDE DEF wrong
    <3> QED
      BY <2>2, <3>1, <3>2, <3>3 DEF Effect
  <2>5. wrong \in BOOLEAN
    BY <1>3, <1>4 DEF Misnames, Register, RDI
  <2> HIDE DEF wrong
  <2>6. misencoded' = (misencoded \/ wrong)
    BY <1>5 DEF Misencode, wrong
  <2> QED
    BY <2>3, <2>4, <2>5, <2>6 DEF IInv, ContentsInv
<1>8. CodeInv'
  <2>1. codeLength \in Nat /\ jumps \subseteq JumpRecord
    BY DEF IInv, CodeInv
  <2>2. code \in Code
    BY <1>3, <1>4, <1>5, BinaryCodeIsCode
  <2>3. BinaryJumps(item.op, right, codeLength, code) \subseteq JumpRecord
    BY <1>3, <1>4, <1>5, <2>1, BinaryJumpsTyped
  <2> HIDE DEF code
  <2>4. codeLength' \in Nat
    BY <1>5, <2>1, <2>2, CodeLength DEF Emit
  <2> QED
    BY <1>5, <2>1, <2>3, <2>4 DEF CodeInv
<1>9. FrameInv' /\ ObjectInv' /\ CountersInv' /\ Len(scopes') = Len(scopes)
  BY PartsUnchanged DEF IInv, ApplyOperator, frameVars
<1>10. ControlInv'
  BY <1>1, <1>9, Finishing DEF ApplyOperator
<1> QED
  BY <1>6, <1>7, <1>8, <1>9, <1>10 DEF IInv

LEMMA RejectOperatorSafe == IInv /\ RejectOperator => IInv'
<1> SUFFICES ASSUME IInv, RejectOperator PROVE IInv'
  OBVIOUS
<1>1. ControlInv'
  BY Stopping DEF RejectOperator
<1>2. Popped \in Seq(SafeOperand)
  BY Popping DEF IInv, RejectOperator
<1>3. AllocatorInv'
  BY <1>2 DEF IInv, AllocatorInv, RejectOperator
<1> QED
  BY <1>1, <1>3, PartsUnchanged DEF IInv, RejectOperator, historyVars

LEMMA PopEmptySafe == IInv /\ PopEmpty => IInv'
<1> SUFFICES ASSUME IInv, PopEmpty PROVE IInv'
  OBVIOUS
<1>1. ControlInv'
  BY Stopping DEF PopEmpty
<1> QED
  BY <1>1, PartsUnchanged DEF IInv, PopEmpty, historyVars

LEMMA EndVarDeclSafe == IInv /\ EndVarDecl => IInv'
<1> SUFFICES ASSUME IInv, EndVarDecl PROVE IInv'
  OBVIOUS
<1> DEFINE item == Head(agenda)
<1>1. Doing({"let"}) /\ {"let"} \cap BodyKind = {}
  BY DEF EndVarDecl, BodyKind
<1>2. item \in SafeItem /\ item.what = "let" /\ Len(scopes) >= 1
  BY <1>1, Handling
<1>3. item.type \in ValueType
  BY <1>2, ItemFields
<1>4. Popped \in Seq(SafeOperand) /\ Top.reg \in Register \ {RAX, RSP}
  BY Popping DEF IInv, EndVarDecl
<1>5. FrameInv' /\ Len(scopes') = Len(scopes)
  BY <1>2, Declaring DEF IInv, EndVarDecl
<1>6. CodeInv'
  <2>1. StoreToSlot(spOffset, item.type, Top.reg) \in Code
    BY <1>3, <1>4, StoreToSlotIsCode DEF IInv, FrameInv
  <2> QED
    BY <2>1, Emitting DEF IInv, EndVarDecl
<1>7. AllocatorInv'
  BY <1>4 DEF IInv, AllocatorInv, EndVarDecl, Freed
<1>8. ObjectInv' /\ ContentsInv' /\ CountersInv'
  <2>1. (Size(item.type) = 1 /\ Top.reg \in HighByteNumber) \in BOOLEAN
    OBVIOUS
  <2> QED
    BY <2>1, Misencoding, PartsUnchanged DEF IInv, EndVarDecl
<1>9. ControlInv'
  BY <1>1, <1>5, Finishing DEF EndVarDecl
<1> QED
  BY <1>5, <1>6, <1>7, <1>8, <1>9 DEF IInv

LEMMA EndRetSafe == IInv /\ EndRet => IInv'
<1> SUFFICES ASSUME IInv, EndRet PROVE IInv'
  OBVIOUS
<1>1. Doing({"ret"}) /\ {"ret"} \cap BodyKind = {}
  BY DEF EndRet, BodyKind
<1>2. Head(agenda).of \in Nat
  BY <1>1, Handling, ItemFields DEF UseKind
<1>3. Popped \in Seq(SafeOperand) /\ Top.reg \in Register
  BY Popping DEF IInv, EndRet
<1>4. CodeInv'
  <2>1. emit_mov32_rr(RAX, Top.reg) \in Code
    BY <1>3, Reserved, TwoRegisterCalls
  <2> QED
    BY <2>1, Emitting DEF IInv, EndRet
<1>5. ContentsInv'
  <2>1. RAX # RSP /\ RSP \in Register
    BY DEF RAX, RSP, Register
  <2>2. contents \in [Register -> Nat] /\ (~misencoded => contents[RSP] = 0)
        /\ misencoded \in BOOLEAN
    BY DEF IInv, ContentsInv
  <2>3. contents' = [contents EXCEPT ![RAX] = contents[Encoded(Top.reg)]]
        /\ Misencode(Top.reg > RDI)
    BY DEF EndRet
  <2>4. contents[Encoded(Top.reg)] \in Nat
    BY <1>3, <2>2, EncodedRegister
  <2>5. (Top.reg > RDI) \in BOOLEAN
    OBVIOUS
  <2> QED
    BY <2>1, <2>2, <2>3, <2>4, <2>5 DEF ContentsInv, Misencode
<1>6. AllocatorInv'
  BY <1>3 DEF IInv, AllocatorInv, EndRet
<1>7. CountersInv'
  BY <1>2 DEF IInv, CountersInv, EndRet
<1>8. FrameInv' /\ ObjectInv' /\ Len(scopes') = Len(scopes)
  BY PartsUnchanged DEF IInv, EndRet, frameVars
<1>9. ControlInv'
  BY <1>1, <1>8, Finishing DEF EndRet
<1> QED
  BY <1>4, <1>5, <1>6, <1>7, <1>8, <1>9 DEF IInv

LEMMA BeginIfSafe == IInv /\ BeginIf => IInv'
<1> SUFFICES ASSUME IInv, BeginIf PROVE IInv'
  OBVIOUS
<1> DEFINE code == emit_test8(Top.reg, 1) \o emit_je_rel8(0)
           x == IfItem(codeLength + Len(code) - 1)
<1>1. Doing({"test"}) /\ {"test"} \cap BodyKind = {}
  BY DEF BeginIf, BodyKind
<1>2. /\ Tail(agenda) \in Seq(SafeItem) /\ BodyCount(Tail(agenda)) \in Nat
      /\ BodyCount(agenda) = BodyCount(Tail(agenda))
      /\ Len(scopes) = 1 + BodyCount(agenda) /\ status = "running"
  BY <1>1, Handling
<1>3. Popped \in Seq(SafeOperand) /\ Top.reg \in Register
  BY Popping DEF IInv, BeginIf
<1>4. code \in Code
  BY <1>3, RegisterCalls, JumpCalls, SmallBytes, CodeConcat
<1>5. Emit(code) /\ Replace(<< x >>)
  BY DEF BeginIf
<1> HIDE DEF code
<1>6. x \in SafeItem /\ x.what \in BodyKind
  <2>1. codeLength + Len(code) - 1 \in Int
    BY <1>4, CodeLength DEF IInv, CodeInv
  <2> QED
    BY <2>1, ItemsTyped, ItemsOpenBodies
<1> HIDE DEF x
<1>7. CodeInv'
  BY <1>4, <1>5, Emitting DEF IInv, BeginIf
<1>8. scopes' = << EmptyScope(Names) >> \o scopes /\ UNCHANGED spOffset
  BY DEF BeginIf
<1>9. FrameInv' /\ Len(scopes') = Len(scopes) + 1
  BY <1>8, EmptyScopeIsScope DEF IInv, FrameInv
<1>10. AllocatorInv'
  BY <1>3 DEF IInv, AllocatorInv, BeginIf
<1>11. ObjectInv' /\ ContentsInv' /\ CountersInv'
  <2>1. (Top.reg > RBX) \in BOOLEAN /\ Misencode(Top.reg > RBX) /\ UNCHANGED contents
    BY DEF BeginIf
  <2>2. ContentsInv'
    BY <2>1, Misencoding DEF IInv
  <2> QED
    BY <2>2, PartsUnchanged DEF IInv, CountersInv, BeginIf
<1>12. ControlInv'
  <2>1. agenda' = << x >> \o Tail(agenda) /\ agenda' \in Seq(SafeItem)
    BY <1>2, <1>5, <1>6 DEF Replace
  <2>2. BodyCount(<< x >> \o Tail(agenda)) = BodyCount(Tail(agenda)) + 1
    BY <1>2, <1>6, CountOne
  <2>3. Len(scopes') = 1 + BodyCount(<< x >> \o Tail(agenda))
    BY <1>2, <1>9, <2>2
  <2>4. status' = "running"
    BY <1>2 DEF BeginIf
  <2> QED
    BY <2>1, <2>3, <2>4 DEF ControlInv, BodyCount
<1> QED
  BY <1>7, <1>9, <1>10, <1>11, <1>12 DEF IInv

LEMMA EndIfSafe == IInv /\ EndIf => IInv'
<1> SUFFICES ASSUME IInv, EndIf PROVE IInv'
  OBVIOUS
<1> DEFINE at == Head(agenda).at
<1>1. FrameInv' /\ ControlInv'
  BY ClosingBody DEF EndIf, BodyKind
<1>2. at \in Int
  BY Handling, ItemFields DEF EndIf
<1>3. Jump(at, IfDistance(at), codeLength) \in JumpRecord
  <2>1. codeLength \in Nat
    BY DEF IInv, CodeInv
  <2>2. IfDistance(at) \in Byte
    BY <1>2, <2>1 DEF IfDistance, Byte
  <2> QED
    BY <1>2, <2>1, <2>2 DEF Jump, JumpRecord
<1>4. CodeInv'
  BY <1>3 DEF IInv, CodeInv, EndIf
<1>5. AllocatorInv' /\ ObjectInv' /\ ContentsInv' /\ CountersInv'
  BY PartsUnchanged DEF IInv, EndIf
<1> QED
  BY <1>1, <1>4, <1>5 DEF IInv

LEMMA EndExprStatementSafe == IInv /\ EndExprStatement => IInv'
<1> SUFFICES ASSUME IInv, EndExprStatement PROVE IInv'
  OBVIOUS
<1>1. Doing({"discard"}) /\ {"discard"} \cap BodyKind = {}
  BY DEF EndExprStatement, BodyKind
<1>2. AllocatorInv'
  BY PartsUnchanged DEF IInv, EndExprStatement
<1>3. CountersInv'
  BY DEF IInv, CountersInv, EndExprStatement
<1>4. FrameInv' /\ CodeInv' /\ ObjectInv' /\ ContentsInv' /\ Len(scopes') = Len(scopes)
  BY PartsUnchanged DEF IInv, EndExprStatement, frameVars
<1>5. ControlInv'
  BY <1>1, <1>4, Finishing DEF EndExprStatement
<1> QED
  BY <1>2, <1>3, <1>4, <1>5 DEF IInv

(* Calls.                                                                  *)
LEMMA BeginCallSafe ==
  ASSUME IInv, NEW f, BeginCall(f)
  PROVE /\ AllocatorInv' /\ FrameInv' /\ CodeInv' /\ ObjectInv' /\ ContentsInv'
        /\ CountersInv' /\ Len(scopes') = Len(scopes) /\ UNCHANGED << scopes, status >>
        /\ Len(evalStack) \in Nat
<1>1. AllocatorInv' /\ Len(evalStack) \in Nat
  BY DEF IInv, AllocatorInv, BeginCall, PreparedForCall, ArgRegisters, AllocatorMode,
         RAX, RCX, RDX, RSP, R8, R9
<1>2. CountersInv'
  BY DEF IInv, CountersInv, BeginCall, NewNode, historyVars
<1> QED
  BY <1>1, <1>2, PartsUnchanged DEF IInv, BeginCall, historyVars, frameVars

LEMMA VisitCallStatementSafe == IInv /\ VisitCallStatement => IInv'
<1> SUFFICES ASSUME IInv, VisitCallStatement PROVE IInv'
  OBVIOUS
<1>1. PICK f \in FnNames : BeginCall(f) /\ Enter(<< CallItem(f, Len(evalStack), 0) >>)
  BY DEF VisitCallStatement
<1> DEFINE x == CallItem(f, Len(evalStack), 0)
<1>2. /\ AllocatorInv' /\ FrameInv' /\ CodeInv' /\ ObjectInv' /\ ContentsInv'
      /\ CountersInv' /\ Len(scopes') = Len(scopes) /\ UNCHANGED status
      /\ Len(evalStack) \in Nat
  BY <1>1, BeginCallSafe
<1>3. x \in SafeItem /\ x.what \notin BodyKind
  BY <1>2, ItemsTyped, ItemsOpenBodies
<1> HIDE DEF x
<1>4. status = "running" /\ Len(scopes) = 1 + BodyCount(agenda)
  BY Handling DEF VisitCallStatement, InBody
<1>5. agenda \in Seq(SafeItem)
  BY DEF IInv, ControlInv
<1>6. agenda' = << x >> \o agenda
  BY <1>1 DEF Enter, x
<1>7. agenda' \in Seq(SafeItem)
  BY <1>3, <1>5, <1>6
<1>8. Len(scopes') = 1 + BodyCount(<< x >> \o agenda)
  BY <1>2, <1>3, <1>4, <1>5, CountNone
<1>9. ControlInv'
  BY <1>2, <1>4, <1>6, <1>7, <1>8 DEF ControlInv, BodyCount
<1> QED
  BY <1>2, <1>9 DEF IInv

LEMMA VisitCallOperandSafe == IInv /\ VisitCallOperand => IInv'
<1> SUFFICES ASSUME IInv, VisitCallOperand PROVE IInv'
  OBVIOUS
<1>1. PICK f \in FnNames : BeginCall(f) /\ Replace(<< CallItem(f, Len(evalStack), 0) >>)
  BY DEF VisitCallOperand
<1> DEFINE x == CallItem(f, Len(evalStack), 0)
<1>2. /\ AllocatorInv' /\ FrameInv' /\ CodeInv' /\ ObjectInv' /\ ContentsInv'
      /\ CountersInv' /\ Len(scopes') = Len(scopes) /\ UNCHANGED status
      /\ Len(evalStack) \in Nat
  BY <1>1, BeginCallSafe
<1>3. x \in SafeItem /\ x.what \notin BodyKind
  BY <1>2, ItemsTyped, ItemsOpenBodies
<1>4. Doing({"expr"}) /\ {"expr"} \cap BodyKind = {} /\ Replace(<< x >>)
  BY <1>1 DEF VisitCallOperand, Expecting, BodyKind
<1>5. ControlInv'
  BY <1>2, <1>3, <1>4, GoingOn
<1> QED
  BY <1>2, <1>5 DEF IInv

LEMMA VisitArgumentSafe == IInv /\ VisitArgument => IInv'
<1> SUFFICES ASSUME IInv, VisitArgument PROVE IInv'
  OBVIOUS
<1> DEFINE item == Head(agenda)
           y == [item EXCEPT !.count = item.count + 1]
<1>1. PICK t \in Types : Replace(<< ExprItem(t), y >>)
  BY DEF VisitArgument
<1>2. Doing({"call"}) /\ {"call"} \cap BodyKind = {}
  BY DEF VisitArgument, BodyKind
<1>3. item \in SafeItem /\ item.what = "call"
  BY <1>2, Handling
<1>4. y \in SafeItem /\ y.what = "call"
  BY <1>3 DEF SafeItem, Item, UseKind
<1>5. /\ ExprItem(t) \in SafeItem /\ ExprItem(t).what \notin BodyKind
      /\ y.what \notin BodyKind
  BY <1>4, ItemsTyped, ItemsOpenBodies, TypesAssumption DEF BodyKind
<1>6. UNCHANGED << allocatorVars, frameVars, codeLength, objectVars, status, contents,
                   historyVars, nodes >>
  BY DEF VisitArgument, visitedOnly
<1>7. AllocatorInv' /\ FrameInv' /\ CodeInv' /\ ObjectInv' /\ ContentsInv' /\ CountersInv'
  BY <1>6, PartsUnchanged DEF IInv, historyVars
<1> HIDE DEF y
<1>8. ControlInv'
  BY <1>1, <1>2, <1>4, <1>5, <1>6, GoingDown DEF frameVars
<1> QED
  BY <1>7, <1>8 DEF IInv

LEMMA EndCallSafe == IInv /\ EndCall => IInv'
<1> SUFFICES ASSUME IInv, EndCall PROVE IInv'
  OBVIOUS
<1>1. Doing({"call"}) /\ {"call"} \cap BodyKind = {}
  BY DEF EndCall, BodyKind
<1>2. Head(agenda).name \in FnNames /\ Head(agenda).count \in Nat
  BY <1>1, Handling, ItemFields
<1>3. emit_call \in Code /\ Len(emit_call) >= 4
  BY AddressedCalls, Reserved
<1>4. AllocatorInv'
  BY DEF IInv, AllocatorInv, EndCall, end_call_prepare, AllocatorMode
<1>5. CodeInv'
  BY <1>3, Emitting DEF IInv, EndCall
<1>6. ObjectInv'
  <2>1. dataLength' \in Nat
    BY DEF IInv, ObjectInv, EndCall
  <2> QED
    BY <1>2, <1>3, <2>1, Relocating, 0 \in 0 .. 2, 0 \in Nat DEF IInv, EndCall
<1>7. ContentsInv'
  <2>1. contents \in [Register -> Nat] /\ misencoded' = misencoded /\ RSP \in Register
        /\ misencoded \in BOOLEAN /\ (~misencoded => contents[RSP] = 0)
    BY Reserved DEF IInv, ContentsInv, EndCall
  <2>2. contents' = [r \in Register |-> IF r \in VolatileRegisters THEN 0 ELSE contents[r]]
    BY DEF EndCall
  <2>3. contents' \in [Register -> Nat]
    BY <2>1, <2>2
  <2>4. ~misencoded => contents'[RSP] = 0
    BY <2>1, <2>2
  <2> QED
    BY <2>1, <2>3, <2>4 DEF ContentsInv
<1>8. FrameInv' /\ CountersInv' /\ Len(scopes') = Len(scopes)
  BY <1>2, PartsUnchanged DEF IInv, CountersInv, EndCall, frameVars
<1>9. ControlInv'
  BY <1>1, <1>8, Finishing DEF EndCall
<1> QED
  BY <1>4, <1>5, <1>6, <1>7, <1>8, <1>9 DEF IInv

LEMMA StutterSafe == IInv /\ UNCHANGED vars => IInv'
<1> SUFFICES ASSUME IInv, UNCHANGED vars PROVE IInv'
  OBVIOUS
<1>1. ControlInv'
  BY DEF IInv, ControlInv, BodyCount, vars
<1> QED
  BY <1>1, PartsUnchanged DEF IInv, vars, allocatorVars, frameVars, objectVars

-----------------------------------------------------------------------------
(* The invariant holds and implies the properties.                         *)

LEMMA NextSafe == IInv /\ [Next]_vars => IInv'
<1> SUFFICES ASSUME IInv, [Next]_vars PROVE IInv'
  OBVIOUS
<1>1. CASE BeginFunction \/ EndFunction \/ WriteToDisk
  BY <1>1, BeginFunctionSafe, EndFunctionSafe, WriteToDiskSafe
<1>2. CASE Statement
  BY <1>2, VisitVarDeclSafe, VisitUsesSafe, VisitAssignSafe, VisitCallStatementSafe,
     EndVarDeclSafe, EndRetSafe, BeginIfSafe, EndIfSafe, EndExprStatementSafe
  DEF Statement
<1>3. CASE Expression
  BY <1>3, VisitLiteralSafe, VisitStringSafe, VisitIdentifierSafe, StoreLiteralSafe,
     VisitBinarySafe, PopLeftSafe, ApplyOperatorSafe, VisitCallOperandSafe,
     VisitArgumentSafe, EndCallSafe
  DEF Expression
<1>4. CASE Failure
  BY <1>4, OutOfRegistersSafe, RejectOperatorSafe, PopEmptySafe DEF Failure
<1>5. CASE Terminated \/ UNCHANGED vars
  BY <1>5, StutterSafe DEF Terminated
<1> QED
  BY <1>1, <1>2, <1>3, <1>4, <1>5 DEF Next

LEMMA InductiveInvariant == Spec => []IInv
<1> QED
  BY InitSafe, NextSafe, PTL DEF Spec

LEMMA IInvImpliesTypeOK == IInv => TypeOK
<1> SUFFICES ASSUME IInv PROVE TypeOK
  OBVIOUS
<1>1. evalStack \in Seq([reg : Register, node : Nat])
  <2>1. ASSUME NEW i \in 1 .. Len(evalStack)
        PROVE evalStack[i] \in [reg : Register, node : Nat]
    <3>1. evalStack[i] \in SafeOperand
      BY DEF IInv, AllocatorInv
    <3> QED
      BY <3>1 DEF SafeOperand
  <2>2. Len(evalStack) \in Nat /\ evalStack = [i \in 1 .. Len(evalStack) |-> evalStack[i]]
    BY DEF IInv, AllocatorInv
  <2>3. evalStack \in [1 .. Len(evalStack) -> [reg : Register, node : Nat]]
    BY <2>1, <2>2, Zenon
  <2> QED
    BY <2>2, <2>3, SeqDef
<1>2. agenda \in Seq(Item)
  <2>1. SafeItem \subseteq Item
    BY DEF SafeItem
  <2> QED
    BY <2>1 DEF IInv, ControlInv
<1> QED
  BY <1>1, <1>2 DEF TypeOK, IInv, AllocatorInv, FrameInv, CodeInv, ObjectInv, ContentsInv,
     ControlInv, CountersInv

LEMMA IInvImpliesReserved == IInv => ReservedRegisters
<1> SUFFICES ASSUME IInv PROVE ReservedRegisters
  OBVIOUS
<1>1. ASSUME NEW i \in 1 .. Len(evalStack) PROVE evalStack[i].reg \notin {RAX, RSP}
  <2>1. evalStack[i] \in SafeOperand
    BY DEF IInv, AllocatorInv
  <2> QED
    BY <2>1 DEF SafeOperand
<1>2. ASSUME NEW i \in RightItems PROVE agenda[i].left \notin {RAX, RSP}
  <2>1. agenda[i] \in SafeItem /\ agenda[i].what = "right"
    BY DEF IInv, ControlInv, RightItems
  <2> QED
    BY <2>1, ItemFields
<1> QED
  BY <1>1, <1>2 DEF ReservedRegisters, IInv, ContentsInv

(* In every program, every variable of the generator has its type: every   *)
(* visit hands bytes to the emitter, registers to the allocator, and to    *)
(* the COFF writer offsets that are not negative.                          *)
THEOREM TypeCorrect == Spec => []TypeOK
BY InductiveInvariant, IInvImpliesTypeOK, PTL

(* In every program, whatever its types, operators and size, no operand is *)
(* ever in RAX or RSP, so the stack pointer moves only at the entry and    *)
(* the exit of a function (register_allocator.cpp:17-21).                  *)
THEOREM RegistersReserved == Spec => []ReservedRegisters
BY InductiveInvariant, IInvImpliesReserved, PTL

(* In every program, the address tables follow the blocks: while the       *)
(* generator runs there is one for each function or if being generated,    *)
(* and the one at the bottom (generator.cpp:149-163, 216-230).             *)
THEOREM ScopesBalanced == Spec => []ScopesFollowBodies
<1>1. IInv => ScopesFollowBodies
  BY DEF IInv, ControlInv, ScopesFollowBodies, BodyCount, Bodies
<1> QED
  BY <1>1, InductiveInvariant, PTL

-----------------------------------------------------------------------------
(* The control of the generator: how the visits in progress are nested,    *)
(* when call mode is on, and, for programs whose calls are statements,     *)
(* that the evaluation stack is balanced.                                  *)

(* The shape of the agenda: a function at its bottom, and below a body or  *)
(* a statement nothing but bodies.                                         *)

StatementKind == BodyKind \cup UseKind \cup {"let"}

Rooted(a) == a # << >> => a[Len(a)].what = "fn"
OnlyBodies(a) == \A j \in 1 .. Len(a) : a[j].what \in BodyKind
Stacked(a, kinds) ==
  \A i \in 1 .. Len(a) :
    a[i].what \in kinds => \A j \in (i + 1) .. Len(a) : a[j].what \in BodyKind
HasCall(a) == \E i \in 1 .. Len(a) : a[i].what = "call"

(* Items may be put on others that are only bodies if they are statements. *)
Stackable(items, a, kinds) ==
  \A i \in 1 .. Len(items) :
    items[i].what \in kinds =>
      /\ \A j \in (i + 1) .. Len(items) : items[j].what \in BodyKind
      /\ OnlyBodies(a)

LEMMA TailItems ==
  ASSUME NEW a \in Seq(SafeItem), a # << >>
  PROVE /\ Tail(a) \in Seq(SafeItem) /\ Len(Tail(a)) = Len(a) - 1
        /\ \A i \in 1 .. Len(Tail(a)) : Tail(a)[i] = a[i + 1]
        /\ Head(a) = a[1] /\ Len(a) \in Nat \ {0}
OBVIOUS

LEMMA ConcatItems ==
  ASSUME NEW items \in Seq(SafeItem), NEW a \in Seq(SafeItem)
  PROVE /\ items \o a \in Seq(SafeItem) /\ Len(items \o a) = Len(items) + Len(a)
        /\ \A i \in 1 .. Len(items) : (items \o a)[i] = items[i]
        /\ \A i \in 1 .. Len(a) : (items \o a)[i + Len(items)] = a[i]
        /\ \A i \in (Len(items) + 1) .. (Len(items) + Len(a)) :
             (items \o a)[i] = a[i - Len(items)]
OBVIOUS

LEMMA TailShape ==
  ASSUME NEW a \in Seq(SafeItem), a # << >>, NEW kinds
  PROVE /\ Rooted(a) => Rooted(Tail(a))
        /\ Rooted(a) /\ Head(a).what # "fn" => Tail(a) # << >>
        /\ Stacked(a, kinds) => Stacked(Tail(a), kinds)
        /\ Stacked(a, kinds) /\ Head(a).what \in kinds => OnlyBodies(Tail(a))
        /\ HasCall(a) /\ Head(a).what # "call" => HasCall(Tail(a))
<1> DEFINE b == Tail(a)
<1>1. /\ b \in Seq(SafeItem) /\ Len(b) = Len(a) - 1
      /\ \A i \in 1 .. Len(b) : b[i] = a[i + 1]
      /\ Head(a) = a[1] /\ Len(a) \in Nat \ {0} /\ Len(b) \in Nat
  BY TailItems
<1> HIDE DEF b
<1>2. b # << >> => Len(b) \in 1 .. Len(b)
  BY <1>1
<1>3. Rooted(a) => Rooted(b)
  BY <1>1, <1>2 DEF Rooted
<1>4. Rooted(a) /\ Head(a).what # "fn" => b # << >>
  BY <1>1 DEF Rooted
<1>5. Stacked(a, kinds) => Stacked(b, kinds)
  <2> SUFFICES ASSUME Stacked(a, kinds), NEW i \in 1 .. Len(b), b[i].what \in kinds,
                      NEW j \in (i + 1) .. Len(b)
               PROVE b[j].what \in BodyKind
    BY DEF Stacked
  <2>1. i + 1 \in 1 .. Len(a) /\ j + 1 \in (i + 1 + 1) .. Len(a) /\ j \in 1 .. Len(b)
    BY <1>1
  <2>2. a[i + 1] = b[i] /\ a[j + 1] = b[j]
    BY <1>1, <2>1
  <2> QED
    BY <2>1, <2>2 DEF Stacked
<1>6. Stacked(a, kinds) /\ Head(a).what \in kinds => OnlyBodies(b)
  <2> SUFFICES ASSUME Stacked(a, kinds), a[1].what \in kinds, NEW j \in 1 .. Len(b)
               PROVE b[j].what \in BodyKind
    BY <1>1 DEF OnlyBodies
  <2>1. 1 \in 1 .. Len(a) /\ j + 1 \in (1 + 1) .. Len(a)
    BY <1>1
  <2> QED
    BY <1>1, <2>1 DEF Stacked
<1>7. HasCall(a) /\ Head(a).what # "call" => HasCall(b)
  <2> SUFFICES ASSUME NEW i \in 1 .. Len(a), a[i].what = "call", a[1].what # "call"
               PROVE HasCall(b)
    BY <1>1 DEF HasCall
  <2>1. i - 1 \in 1 .. Len(b) /\ (i - 1) + 1 = i
    BY <1>1
  <2>2. b[i - 1].what = "call"
    BY <1>1, <2>1
  <2> QED
    BY <2>1, <2>2 DEF HasCall
<1> QED
  BY <1>3, <1>4, <1>5, <1>6, <1>7 DEF b

LEMMA ConcatShape ==
  ASSUME NEW items \in Seq(SafeItem), NEW a \in Seq(SafeItem), NEW kinds
  PROVE /\ Rooted(a) /\ a # << >> => Rooted(items \o a)
        /\ Stacked(a, kinds) /\ Stackable(items, a, kinds) => Stacked(items \o a, kinds)
        /\ HasCall(a) => HasCall(items \o a)
<1> DEFINE b == items \o a
           k == Len(items)
<1>1. /\ b \in Seq(SafeItem) /\ Len(b) = k + Len(a) /\ k \in Nat /\ Len(a) \in Nat
      /\ \A i \in 1 .. k : b[i] = items[i]
      /\ \A i \in 1 .. Len(a) : b[i + k] = a[i]
      /\ \A i \in (k + 1) .. (k + Len(a)) : b[i] = a[i - k]
  BY ConcatItems
<1> HIDE DEF b, k
<1>2. Rooted(a) /\ a # << >> => Rooted(b)
  <2> SUFFICES ASSUME Rooted(a), a # << >> PROVE b[Len(b)].what = "fn"
    BY DEF Rooted
  <2>1. Len(a) \in 1 .. Len(a)
    BY <1>1
  <2>2. b[Len(a) + k] = a[Len(a)] /\ Len(b) = Len(a) + k
    BY <1>1, <2>1
  <2> QED
    BY <2>2 DEF Rooted
<1>3. Stacked(a, kinds) /\ Stackable(items, a, kinds) => Stacked(b, kinds)
  <2> SUFFICES ASSUME Stacked(a, kinds), Stackable(items, a, kinds),
                      NEW i \in 1 .. Len(b), b[i].what \in kinds,
                      NEW j \in (i + 1) .. Len(b)
               PROVE b[j].what \in BodyKind
    BY DEF Stacked
  <2>1. CASE i <= k /\ j <= k
    <3>1. i \in 1 .. k /\ j \in (i + 1) .. k /\ j \in 1 .. k
      BY <1>1, <2>1
    <3> QED
      BY <1>1, <3>1 DEF Stackable, k
  <2>2. CASE i <= k /\ j > k
    <3>1. i \in 1 .. k /\ j - k \in 1 .. Len(a) /\ j \in (k + 1) .. (k + Len(a))
      BY <1>1, <2>2
    <3>2. items[i].what \in kinds
      BY <1>1, <3>1
    <3>3. OnlyBodies(a)
      BY <3>1, <3>2 DEF Stackable, k
    <3> QED
      BY <1>1, <3>1, <3>3 DEF OnlyBodies
  <2>3. CASE i > k
    <3>1. /\ i - k \in 1 .. Len(a) /\ j - k \in ((i - k) + 1) .. Len(a)
          /\ i \in (k + 1) .. (k + Len(a)) /\ j \in (k + 1) .. (k + Len(a))
      BY <1>1, <2>3
    <3>2. b[i] = a[i - k] /\ b[j] = a[j - k]
      BY <1>1, <3>1
    <3> QED
      BY <3>1, <3>2 DEF Stacked
  <2> QED
    BY <1>1, <2>1, <2>2, <2>3
<1>4. HasCall(a) => HasCall(b)
  <2> SUFFICES ASSUME NEW i \in 1 .. Len(a), a[i].what = "call" PROVE HasCall(b)
    BY DEF HasCall
  <2>1. i + k \in 1 .. Len(b)
    BY <1>1
  <2> QED
    BY <1>1, <2>1 DEF HasCall
<1> QED
  BY <1>2, <1>3, <1>4 DEF b
-----------------------------------------------------------------------------
(* The visits in progress hand values to one another: whoever is above a   *)
(* visit that waits delivers the node that is waited for.                  *)

ControlKind == StatementKind \cup {"call"}

Receives(x, node) == x.what = "call" \/ (x.what \in Awaiting /\ x.of = node)

Chained(a, n) ==
  \A i \in 1 .. Len(a) :
    /\ a[i].what \in {"left", "right"} => i < Len(a) /\ Receives(a[i + 1], a[i].node)
    /\ a[i].what = "expr" => i = 1 /\ i < Len(a) /\ Receives(a[2], n + 1)

Nested(a, n) == Stacked(a, ControlKind) /\ Chained(a, n)

NoExpr(a) == \A i \in 1 .. Len(a) : a[i].what # "expr"

LEMMA Kinds ==
  /\ ControlKind = {"fn", "if", "ret", "test", "discard", "let", "call"}
  /\ StatementKind = {"fn", "if", "ret", "test", "discard", "let"}
  /\ Awaiting = {"ret", "test", "discard", "left", "right", "let"}
  /\ BodyKind = {"fn", "if"} /\ UseKind = {"ret", "test", "discard"}
BY DEF ControlKind, StatementKind, Awaiting, BodyKind, UseKind

LEMMA TailNested ==
  ASSUME NEW a \in Seq(SafeItem), a # << >>, NEW n, Nested(a, n)
  PROVE /\ \A k : Nested(Tail(a), k)
        /\ NoExpr(Tail(a))
        /\ Head(a).what \in {"left", "right"} =>
             Tail(a) # << >> /\ Receives(Head(Tail(a)), Head(a).node)
        /\ Head(a).what = "expr" => Tail(a) # << >> /\ Receives(Head(Tail(a)), n + 1)
        /\ Head(a).what \in ControlKind => OnlyBodies(Tail(a))
<1> DEFINE b == Tail(a)
<1>1. /\ b \in Seq(SafeItem) /\ Len(b) = Len(a) - 1
      /\ \A i \in 1 .. Len(b) : b[i] = a[i + 1]
      /\ Head(a) = a[1] /\ Len(a) \in Nat \ {0} /\ Len(b) \in Nat
  BY TailItems
<1> HIDE DEF b
<1>2. Stacked(b, ControlKind) /\ (Head(a).what \in ControlKind => OnlyBodies(b))
  BY TailShape DEF Nested, b
<1>3. NoExpr(b)
  <2> SUFFICES ASSUME NEW i \in 1 .. Len(b), b[i].what = "expr" PROVE FALSE
    BY DEF NoExpr
  <2>1. i + 1 \in 1 .. Len(a) /\ i + 1 # 1 /\ a[i + 1].what = "expr"
    BY <1>1
  <2> QED
    BY <2>1 DEF Nested, Chained
<1>4. ASSUME NEW k PROVE Chained(b, k)
  <2> SUFFICES ASSUME NEW i \in 1 .. Len(b), b[i].what \in {"left", "right"}
               PROVE i < Len(b) /\ Receives(b[i + 1], b[i].node)
    BY <1>3 DEF Chained, NoExpr
  <2>1. i + 1 \in 1 .. Len(a) /\ a[i + 1] = b[i]
    BY <1>1
  <2>2. i + 1 < Len(a) /\ Receives(a[(i + 1) + 1], b[i].node)
    BY <2>1 DEF Nested, Chained
  <2>3. i + 1 \in 1 .. Len(b)
    BY <1>1, <2>2
  <2> QED
    BY <1>1, <2>2, <2>3
<1>5. ASSUME Len(a) > 1 PROVE b # << >> /\ Head(b) = a[2]
  <2>1. Len(b) \in Nat \ {0} /\ b[1] = a[1 + 1] /\ 1 + 1 = 2
    BY <1>1, <1>5
  <2> QED
    BY <1>1, <2>1
<1>6. 1 \in 1 .. Len(a) /\ 1 + 1 = 2
  BY <1>1
<1>7. /\ Head(a).what \in {"left", "right"} => Len(a) > 1 /\ Receives(a[2], Head(a).node)
      /\ Head(a).what = "expr" => Len(a) > 1 /\ Receives(a[2], n + 1)
  BY <1>1, <1>6 DEF Nested, Chained
<1> QED
  BY <1>1, <1>2, <1>3, <1>4, <1>5, <1>7 DEF Nested, b

LEMMA BodiesNested ==
  ASSUME NEW a \in Seq(SafeItem), OnlyBodies(a)
  PROVE (\A n : Nested(a, n)) /\ NoExpr(a)
<1>1. NoExpr(a) /\ \A i \in 1 .. Len(a) : a[i].what \notin {"left", "right"}
  BY DEF OnlyBodies, NoExpr, BodyKind
<1>2. Stacked(a, ControlKind)
  <2> SUFFICES ASSUME NEW i \in 1 .. Len(a), NEW j \in (i + 1) .. Len(a)
               PROVE a[j].what \in BodyKind
    BY DEF Stacked
  <2>1. j \in 1 .. Len(a)
    OBVIOUS
  <2> QED
    BY <2>1 DEF OnlyBodies
<1> QED
  BY <1>1, <1>2 DEF Nested, Chained, NoExpr

(* One more visit on top of the others.                                    *)
LEMMA OneNested ==
  ASSUME NEW x \in SafeItem, NEW a \in Seq(SafeItem), NEW n, Nested(a, n), NoExpr(a),
         x.what \in ControlKind => OnlyBodies(a),
         x.what \in {"left", "right"} => a # << >> /\ Receives(Head(a), x.node),
         x.what = "expr" => a # << >> /\ Receives(Head(a), n + 1)
  PROVE /\ Nested(<< x >> \o a, n)
        /\ x.what # "expr" => NoExpr(<< x >> \o a)
        /\ << x >> \o a \in Seq(SafeItem) /\ << x >> \o a # << >>
        /\ Head(<< x >> \o a) = x /\ Tail(<< x >> \o a) = a
<1> DEFINE b == << x >> \o a
<1>1. /\ b \in Seq(SafeItem) /\ Len(b) = Len(a) + 1 /\ Len(a) \in Nat
      /\ b[1] = x /\ \A i \in 1 .. Len(a) : b[i + 1] = a[i]
  OBVIOUS
<1>2. b # << >> /\ Head(b) = x /\ Tail(b) = a
  OBVIOUS
<1> HIDE DEF b
<1>3. Stacked(b, ControlKind)
  <2>1. << x >> \in Seq(SafeItem) /\ Len(<< x >>) = 1 /\ << x >>[1] = x
    OBVIOUS
  <2>2. Stackable(<< x >>, a, ControlKind)
    BY <2>1 DEF Stackable
  <2> QED
    BY <2>1, <2>2, ConcatShape DEF Nested, b
<1>4. ASSUME NEW i \in 2 .. Len(b)
      PROVE i - 1 \in 1 .. Len(a) /\ b[i] = a[i - 1]
  BY <1>1
<1>5. Chained(b, n)
  <2> SUFFICES ASSUME NEW i \in 1 .. Len(b)
               PROVE /\ b[i].what \in {"left", "right"} =>
                          i < Len(b) /\ Receives(b[i + 1], b[i].node)
                     /\ b[i].what = "expr" => i = 1 /\ i < Len(b) /\ Receives(b[2], n + 1)
    BY DEF Chained
  <2>1. CASE i = 1
    <3>1. a # << >> => Len(a) > 0 /\ b[2] = Head(a) /\ 1 + 1 = 2
      <4> SUFFICES ASSUME a # << >> PROVE Len(a) > 0 /\ b[2] = Head(a)
        OBVIOUS
      <4>1. 1 \in 1 .. Len(a) /\ Head(a) = a[1] /\ 1 + 1 = 2
        OBVIOUS
      <4> QED
        BY <1>1, <4>1
    <3> QED
      BY <1>1, <2>1, <3>1
  <2>2. CASE i # 1
    <3>1. i - 1 \in 1 .. Len(a) /\ b[i] = a[i - 1]
      BY <1>4, <2>2
    <3>2. b[i].what # "expr"
      BY <3>1 DEF NoExpr
    <3>3. ASSUME b[i].what \in {"left", "right"}
          PROVE i < Len(b) /\ Receives(b[i + 1], b[i].node)
      <4>1. i - 1 < Len(a) /\ Receives(a[(i - 1) + 1], a[i - 1].node)
        BY <3>1, <3>3 DEF Nested, Chained
      <4>2. (i - 1) + 1 = i /\ i \in 1 .. Len(a)
        BY <1>1, <4>1
      <4> QED
        BY <1>1, <3>1, <4>1, <4>2
    <3> QED
      BY <3>2, <3>3
  <2> QED
    BY <2>1, <2>2
<1>6. x.what # "expr" => NoExpr(b)
  <2> SUFFICES ASSUME x.what # "expr", NEW i \in 1 .. Len(b) PROVE b[i].what # "expr"
    BY DEF NoExpr
  <2>1. CASE i = 1
    BY <1>1, <2>1
  <2>2. CASE i # 1
    BY <1>4, <2>2 DEF NoExpr
  <2> QED
    BY <2>1, <2>2
<1> QED
  BY <1>1, <1>2, <1>3, <1>5, <1>6 DEF Nested, b
-----------------------------------------------------------------------------
(* The evaluation stack belongs to the visits in progress.  Below is what  *)
(* statements that have ended left there, gone entries; a call in progress *)
(* has one more for each argument that has been visited, and a visit that  *)
(* waits for a value has one more, the node it waits for.                  *)

CallsOn(a) == {a[i] : i \in {k \in 1 .. Len(a) : a[k].what = "call"}}

(* There are k entries, and one argument is being visited or none.         *)
Held(calls, gone, k, visiting) ==
  /\ \A c \in calls :
       /\ c.base = gone /\ k + visiting = gone + c.count
       /\ visiting = 1 => c.count # 0
  /\ calls = {} => k = gone

Waits(a) == a # << >> /\ Head(a).what \in Awaiting
Visiting(a) == IF a # << >> /\ Head(a).what = "call" THEN 0 ELSE 1

Poised(a, stack, gone) ==
  /\ Waits(a) => stack # << >> /\ stack[Len(stack)].node = Head(a).of
  /\ Held(CallsOn(a), gone, IF Waits(a) THEN Len(stack) - 1 ELSE Len(stack), Visiting(a))

LEMMA CallsOfTail ==
  ASSUME NEW a \in Seq(SafeItem), a # << >>
  PROVE CallsOn(a)
          = CallsOn(Tail(a)) \cup (IF Head(a).what = "call" THEN {Head(a)} ELSE {})
<1> DEFINE b == Tail(a)
<1>1. /\ b \in Seq(SafeItem) /\ Len(b) = Len(a) - 1
      /\ \A i \in 1 .. Len(b) : b[i] = a[i + 1]
      /\ Head(a) = a[1] /\ Len(a) \in Nat \ {0} /\ Len(b) \in Nat
  BY TailItems
<1> HIDE DEF b
<1>2. ASSUME NEW v \in CallsOn(b) PROVE v \in CallsOn(a)
  <2>1. PICK i \in 1 .. Len(b) : b[i].what = "call" /\ v = b[i]
    BY DEF CallsOn
  <2>2. i + 1 \in 1 .. Len(a) /\ a[i + 1] = b[i]
    BY <1>1
  <2> QED
    BY <2>1, <2>2 DEF CallsOn
<1>3. ASSUME NEW v \in CallsOn(a)
      PROVE v \in CallsOn(b) \/ (Head(a).what = "call" /\ v = Head(a))
  <2>1. PICK i \in 1 .. Len(a) : a[i].what = "call" /\ v = a[i]
    BY DEF CallsOn
  <2>2. CASE i = 1
    BY <1>1, <2>1, <2>2
  <2>3. CASE i # 1
    <3>1. i - 1 \in 1 .. Len(b) /\ (i - 1) + 1 = i
      BY <1>1, <2>3
    <3>2. b[i - 1] = a[i]
      BY <1>1, <3>1
    <3> QED
      BY <2>1, <3>1, <3>2 DEF CallsOn
  <2> QED
    BY <2>2, <2>3
<1>4. Head(a).what = "call" => Head(a) \in CallsOn(a)
  <2>1. 1 \in 1 .. Len(a)
    BY <1>1
  <2> QED
    BY <1>1, <2>1 DEF CallsOn
<1> QED
  BY <1>2, <1>3, <1>4 DEF b

LEMMA BodiesHaveNoCall ==
  ASSUME NEW a, OnlyBodies(a)
  PROVE CallsOn(a) = {} /\ ~(a \in Seq(SafeItem) /\ Waits(a))
<1>1. CallsOn(a) = {}
  BY DEF OnlyBodies, CallsOn, BodyKind
<1>2. ASSUME a \in Seq(SafeItem), Waits(a) PROVE FALSE
  <2>1. 1 \in 1 .. Len(a) /\ Head(a) = a[1]
    BY <1>2 DEF Waits
  <2> QED
    BY <1>2, <2>1, Kinds DEF Waits, OnlyBodies
<1> QED
  BY <1>1, <1>2

LEMMA CallIsOn == ASSUME NEW a PROVE HasCall(a) <=> CallsOn(a) # {}
BY DEF HasCall, CallsOn

(* When only bodies are left, everything on the stack is left over.        *)
LEMMA Settled ==
  ASSUME NEW a \in Seq(SafeItem), OnlyBodies(a), NEW stack, NEW gone
  PROVE Poised(a, stack, gone) <=> Len(stack) = gone
BY BodiesHaveNoCall DEF Poised, Held

(* An expression is done: the receiver below it finds its value on top.    *)
LEMMA Delivered ==
  ASSUME NEW a \in Seq(SafeItem), a # << >>, Nested(a, 0), NEW node,
         Receives(Head(a), node), NEW gone \in Nat,
         NEW other \in Seq(SafeOperand),
         NEW k \in Nat, Held(CallsOn(a), gone, k, 1),
         Len(other) = k + 1, other[k + 1].node = node
  PROVE Poised(a, other, gone)
<1>1. CASE Head(a).what = "call"
  <2>1. Head(a) \in CallsOn(a) /\ Visiting(a) = 0 /\ ~Waits(a)
    BY <1>1, CallsOfTail, Kinds DEF Visiting, Waits
  <2>2. Held(CallsOn(a), gone, k + 1, 0)
    BY <2>1 DEF Held
  <2> QED
    BY <2>1, <2>2 DEF Poised
<1>2. CASE Head(a).what \in Awaiting /\ Head(a).of = node
  <2>1. Waits(a) /\ Visiting(a) = 1
    BY <1>2, Kinds DEF Waits, Visiting
  <2>2. other # << >> /\ Len(other) - 1 = k
    OBVIOUS
  <2> QED
    BY <1>2, <2>1, <2>2 DEF Poised
<1> QED
  BY <1>1, <1>2 DEF Receives
-----------------------------------------------------------------------------
(* The invariant.  Only the end of a call takes a call off the agenda, and *)
(* it switches call mode off; that the stack is balanced needs programs    *)
(* without calls inside expressions, because a call pushes no value.       *)

CallsAreStatements == "call" \notin Operands \cup Arguments

CallModeInv == status = "running" /\ mode = "Call" => HasCall(agenda)

BalanceInv ==
  status = "running" => Nested(agenda, nodes) /\ Poised(agenda, evalStack, abandoned)

CInv == Rooted(agenda) /\ CallModeInv /\ (CallsAreStatements => BalanceInv)

LEMMA HandledHead ==
  ASSUME IInv, NEW what, Doing(what)
  PROVE /\ agenda \in Seq(SafeItem) /\ agenda # << >>
        /\ Head(agenda) \in SafeItem /\ Head(agenda).what \in what
        /\ Tail(agenda) \in Seq(SafeItem) /\ status = "running"
        /\ evalStack \in Seq(SafeOperand) /\ Len(evalStack) \in Nat /\ nodes \in Nat
BY DEF IInv, ControlInv, AllocatorInv, CountersInv, Doing

(* What the handlers put on the agenda.                                    *)
LEMMA HandlersPush ==
  ASSUME IInv
  PROVE /\ \A t \in ValueType : ExprItem(t) \in SafeItem
        /\ \A n \in Names, t \in Types : LetItem(n, t, NextNode) \in SafeItem
        /\ \A what \in UseKind : UseItem(what, NextNode) \in SafeItem
        /\ \A op \in Operators, t \in Types :
             LeftItem(op, t, ThisNode, NextNode) \in SafeItem
        /\ \A f \in FnNames : CallItem(f, Len(evalStack), 0) \in SafeItem
        /\ FnItem \in SafeItem
<1>1. NextNode \in Nat /\ ThisNode \in Nat /\ Len(evalStack) \in Nat
  BY DEF IInv, CountersInv, AllocatorInv, NextNode, ThisNode
<1> QED
  BY <1>1, ItemsTyped, TypesAssumption, 0 \in Nat

LEMMA ItemFieldsByName ==
  /\ \A t : ExprItem(t).what = "expr"
  /\ \A op, t, node, of :
       LET x == LeftItem(op, t, node, of) IN
         x.what = "left" /\ x.node = node /\ x.of = of
  /\ \A op, t, node, of, left, leftNode :
       LET x == RightItem(op, t, node, of, left, leftNode) IN
         x.what = "right" /\ x.node = node /\ x.of = of
  /\ \A n, t, of : LET x == LetItem(n, t, of) IN x.what = "let" /\ x.of = of
  /\ \A what \in UseKind, of \in Nat :
       UseItem(what, of).what = what /\ UseItem(what, of).of = of
  /\ \A f, base, count :
       LET x == CallItem(f, base, count) IN x.what = "call" /\ x.base = base
  /\ \A at : IfItem(at).what = "if"
  /\ FnItem.what = "fn"
BY DEF UseKind, ExprItem, LeftItem, RightItem, LetItem, UseItem, CallItem, IfItem, FnItem

(* Handlers that replace the head by other visits, or go on below it.      *)
LEMMA Replacing ==
  ASSUME IInv, CInv, NEW what, Doing(what), what \cap {"fn", "call"} = {},
         NEW items \in Seq(SafeItem), Replace(items)
  PROVE Rooted(agenda') /\ (HasCall(agenda) => HasCall(agenda'))
<1> DEFINE b == Tail(agenda)
<1>1. agenda \in Seq(SafeItem) /\ agenda # << >> /\ b \in Seq(SafeItem)
      /\ Head(agenda).what \notin {"fn", "call"}
  BY HandledHead
<1>2. Rooted(b) /\ b # << >> /\ (HasCall(agenda) => HasCall(b))
  BY <1>1, TailShape DEF CInv
<1> HIDE DEF b
<1>3. Rooted(items \o b) /\ (HasCall(b) => HasCall(items \o b))
  BY <1>1, <1>2, ConcatShape
<1> QED
  BY <1>2, <1>3 DEF Replace, b

LEMMA Entering ==
  ASSUME IInv, CInv, NEW what, Doing(what), NEW items \in Seq(SafeItem), Enter(items)
  PROVE Rooted(agenda') /\ (HasCall(agenda) => HasCall(agenda'))
BY HandledHead, ConcatShape DEF CInv, Enter

(* A handler that leaves the mode alone and takes no call off the agenda.  *)
LEMMA ModeKept ==
  ASSUME CInv, UNCHANGED << mode, status >>, HasCall(agenda) => HasCall(agenda')
  PROVE CallModeInv'
BY DEF CInv, CallModeInv

LEMMA OneItem ==
  ASSUME NEW x \in SafeItem
  PROVE /\ << x >> \in Seq(SafeItem)
        /\ \A a \in Seq(SafeItem) :
             LET b == << x >> \o a
             IN b \in Seq(SafeItem) /\ b # << >> /\ Head(b) = x /\ Tail(b) = a
OBVIOUS

LEMMA TwoItems ==
  ASSUME NEW x \in SafeItem, NEW y \in SafeItem
  PROVE /\ << x, y >> \in Seq(SafeItem)
        /\ \A a \in Seq(SafeItem) : << x, y >> \o a = << x >> \o (<< y >> \o a)
<1>1. ASSUME NEW a \in Seq(SafeItem) PROVE << x, y >> \o a = << x >> \o (<< y >> \o a)
  <2> DEFINE p == << x, y >> \o a
             q == << x >> \o (<< y >> \o a)
  <2>1. p \in Seq(SafeItem) /\ q \in Seq(SafeItem)
    OBVIOUS
  <2>2. Len(p) = Len(q) /\ \A i \in 1 .. Len(p) : p[i] = q[i]
    OBVIOUS
  <2> HIDE DEF p, q
  <2>3. p = q
    BY <2>1, <2>2, SeqEqual
  <2> QED
    BY <2>3 DEF p, q
<1> QED
  BY <1>1

LEMMA NoItems == << >> \in Seq(SafeItem) /\ \A a \in Seq(SafeItem) : << >> \o a = a
OBVIOUS

-----------------------------------------------------------------------------
(* The visits that start and end statements.                               *)

LEMMA AtBody ==
  ASSUME IInv, BalanceInv, NEW what, Doing(what), what \subseteq BodyKind
  PROVE /\ OnlyBodies(agenda) /\ OnlyBodies(Tail(agenda))
        /\ Len(evalStack) = abandoned
<1>1. /\ agenda \in Seq(SafeItem) /\ agenda # << >> /\ Head(agenda).what \in BodyKind
      /\ status = "running"
  BY HandledHead
<1>2. OnlyBodies(Tail(agenda))
  BY <1>1, TailNested, Kinds DEF BalanceInv
<1>3. OnlyBodies(agenda)
  <2> SUFFICES ASSUME NEW j \in 1 .. Len(agenda) PROVE agenda[j].what \in BodyKind
    BY DEF OnlyBodies
  <2>1. CASE j = 1
    BY <1>1, <2>1
  <2>2. CASE j # 1
    <3>1. j - 1 \in 1 .. Len(Tail(agenda)) /\ (j - 1) + 1 = j
      BY <1>1, <2>2, TailItems
    <3>2. Tail(agenda)[j - 1] = agenda[j]
      BY <1>1, <3>1, TailItems
    <3> QED
      BY <1>2, <3>1, <3>2 DEF OnlyBodies
  <2> QED
    BY <2>1, <2>2
<1> QED
  BY <1>1, <1>2, <1>3, Settled DEF BalanceInv

LEMMA AtStatementEnd ==
  ASSUME IInv, BalanceInv, NEW what, Doing(what), what \subseteq UseKind \cup {"let"}
  PROVE /\ OnlyBodies(Tail(agenda)) /\ evalStack # << >>
        /\ Len(evalStack) - 1 = abandoned
<1>1. /\ agenda \in Seq(SafeItem) /\ agenda # << >> /\ status = "running"
      /\ Head(agenda).what \in UseKind \cup {"let"} /\ Tail(agenda) \in Seq(SafeItem)
  BY HandledHead
<1>2. OnlyBodies(Tail(agenda))
  BY <1>1, TailNested, Kinds DEF BalanceInv
<1>3. Waits(agenda) /\ CallsOn(agenda) = {}
  BY <1>1, <1>2, BodiesHaveNoCall, CallsOfTail, Kinds DEF Waits
<1> QED
  BY <1>1, <1>2, <1>3 DEF BalanceInv, Poised, Held

(* A statement has ended and nothing but what is left over is on the stack.*)
LEMMA StatementOver ==
  ASSUME NEW a \in Seq(SafeItem), OnlyBodies(a), NEW n, NEW stack
  PROVE Nested(a, n) /\ Poised(a, stack, Len(stack))
BY BodiesNested, Settled

LEMMA PoppedShape ==
  ASSUME IInv, evalStack # << >>
  PROVE /\ Popped \in Seq(SafeOperand) /\ Len(evalStack) \in Nat \ {0}
        /\ Len(Popped) = Len(evalStack) - 1
        /\ \A j \in 1 .. Len(Popped) : Popped[j] = evalStack[j]
<1>1. evalStack \in Seq(SafeOperand) /\ Len(evalStack) \in Nat \ {0}
  BY DEF IInv, AllocatorInv
<1> DEFINE n == Len(evalStack) - 1
<1>2. n \in Nat
  BY <1>1
<1>3. \A j \in 1 .. n : 1 + j - 1 = j
  OBVIOUS
<1>4. \A j \in 1 .. n : evalStack[j] \in SafeOperand
  BY <1>1
<1> HIDE DEF n
<1>5. n \in Int /\ n - 1 + 1 = n /\ 1 \in Int /\ (1 <= n \/ n = 0)
  BY <1>2
<1>6. /\ SubSeq(evalStack, 1, n) \in Seq(SafeOperand)
      /\ Len(SubSeq(evalStack, 1, n)) = IF 1 <= n THEN n - 1 + 1 ELSE 0
      /\ \A j \in 1 .. n - 1 + 1 : SubSeq(evalStack, 1, n)[j] = evalStack[1 + j - 1]
  BY <1>4, <1>5, SubSeqProperties
<1>7. Len(SubSeq(evalStack, 1, n)) = n
      /\ \A j \in 1 .. n : SubSeq(evalStack, 1, n)[j] = evalStack[j]
  BY <1>3, <1>5, <1>6
<1> QED
  BY <1>1, <1>6, <1>7 DEF Popped, n

LEMMA BeginFunctionControl == IInv /\ IInv' /\ CInv /\ BeginFunction => CInv'
<1> SUFFICES ASSUME IInv, IInv', CInv, BeginFunction PROVE CInv'
  OBVIOUS
<1>1. agenda = << >> /\ status = "running" /\ UNCHANGED << mode, evalStack, nodes, abandoned >>
      /\ \/ UNCHANGED agenda /\ status' = "threw"
         \/ Enter(<< FnItem >>) /\ UNCHANGED status
  BY DEF BeginFunction, allocatorVars, historyVars
<1>2. CASE UNCHANGED agenda /\ status' = "threw"
  BY <1>2 DEF CInv, CallModeInv, BalanceInv
<1>3. CASE Enter(<< FnItem >>) /\ UNCHANGED status
  <2>1. agenda' = << FnItem >>
    BY <1>1, <1>3 DEF Enter
  <2>2. << FnItem >> \in Seq(SafeItem) /\ Len(<< FnItem >>) = 1 /\ << FnItem >>[1] = FnItem
    BY ItemsTyped
  <2>3. FnItem.what = "fn"
    BY DEF FnItem
  <2>4. Rooted(agenda') /\ OnlyBodies(agenda')
    BY <2>1, <2>2, <2>3 DEF Rooted, OnlyBodies, BodyKind
  <2>5. ~HasCall(agenda)
    BY <1>1 DEF HasCall
  <2>6. CallModeInv'
    BY <1>1, <1>3, <2>5 DEF CInv, CallModeInv
  <2>7. ASSUME BalanceInv PROVE BalanceInv'
    <3>1. OnlyBodies(agenda) /\ agenda \in Seq(SafeItem)
      BY <1>1 DEF OnlyBodies
    <3>2. Len(evalStack) = abandoned
      BY <1>1, <2>7, <3>1, Settled DEF BalanceInv
    <3>3. Nested(agenda', nodes') /\ Poised(agenda', evalStack', abandoned')
      BY <1>1, <2>1, <2>2, <2>4, <3>2, StatementOver
    <3> QED
      BY <3>3 DEF BalanceInv
  <2> QED
    BY <2>4, <2>6, <2>7 DEF CInv, CallsAreStatements
<1> QED
  BY <1>1, <1>2, <1>3

LEMMA ClosingControl ==
  ASSUME IInv, CInv, Doing(BodyKind), Replace(<< >>),
         UNCHANGED << mode, status, evalStack, abandoned >>
  PROVE CInv'
<1>1. agenda \in Seq(SafeItem) /\ agenda # << >> /\ Tail(agenda) \in Seq(SafeItem)
      /\ Head(agenda).what # "call"
  BY HandledHead, Kinds
<1>2. agenda' = Tail(agenda)
  BY <1>1, NoItems DEF Replace
<1>3. Rooted(agenda') /\ (HasCall(agenda) => HasCall(agenda'))
  BY <1>1, <1>2, TailShape DEF CInv
<1>4. ASSUME BalanceInv PROVE BalanceInv'
  <2>1. OnlyBodies(agenda') /\ Len(evalStack') = abandoned'
    BY <1>2, <1>4, AtBody
  <2> QED
    BY <1>1, <1>2, <2>1, StatementOver DEF BalanceInv
<1> QED
  BY <1>3, <1>4, ModeKept DEF CInv, CallsAreStatements

LEMMA StoppingControl ==
  ASSUME CInv, status' # "running", UNCHANGED agenda
  PROVE CInv'
BY DEF CInv, CallModeInv, BalanceInv, CallsAreStatements

(* A body starts a statement that waits for the next expression.           *)
LEMMA StatementControl ==
  ASSUME IInv, IInv', CInv, Doing(BodyKind), NEW t \in ValueType, NEW y \in SafeItem,
         y.what \in UseKind \cup {"let"}, y.of = NextNode,
         Enter(<< ExprItem(t), y >>), NewNode,
         UNCHANGED << mode, status, evalStack, abandoned >>
  PROVE CInv'
<1>1. agenda \in Seq(SafeItem) /\ nodes \in Nat /\ ExprItem(t) \in SafeItem
  BY HandledHead, HandlersPush
<1>2. << ExprItem(t), y >> \in Seq(SafeItem)
      /\ << ExprItem(t), y >> \o agenda = << ExprItem(t) >> \o (<< y >> \o agenda)
  BY <1>1, TwoItems
<1>3. Rooted(agenda') /\ CallModeInv'
  BY <1>2, Entering, ModeKept
<1>4. ASSUME BalanceInv PROVE BalanceInv'
  <2> DEFINE b == << y >> \o agenda
             c == << ExprItem(t) >> \o b
  <2>1. OnlyBodies(agenda) /\ Len(evalStack) = abandoned
    BY <1>4, AtBody
  <2>2. Nested(agenda, nodes + 1) /\ NoExpr(agenda)
    BY <1>1, <2>1, BodiesNested
  <2>3. y.what \notin {"left", "right", "expr", "call"} /\ Receives(y, (nodes + 1) + 1)
    BY <1>1, Kinds DEF Receives, NextNode
  <2>4. /\ Nested(b, nodes + 1) /\ NoExpr(b) /\ b \in Seq(SafeItem) /\ b # << >>
        /\ Head(b) = y /\ Tail(b) = agenda
    BY <1>1, <2>1, <2>2, <2>3, OneNested
  <2>5. ExprItem(t).what = "expr" /\ "expr" \notin ControlKind \cup Awaiting
    BY ItemFieldsByName, Kinds
  <2> HIDE DEF b
  <2>6. /\ Nested(c, nodes + 1) /\ c \in Seq(SafeItem) /\ c # << >>
        /\ Head(c) = ExprItem(t) /\ Tail(c) = b
    BY <1>1, <2>3, <2>4, <2>5, OneNested
  <2> HIDE DEF c
  <2>7. CallsOn(c) = {} /\ ~Waits(c)
    BY <1>1, <2>1, <2>3, <2>4, <2>5, <2>6, BodiesHaveNoCall, CallsOfTail DEF Waits
  <2>8. Poised(c, evalStack, abandoned)
    BY <2>1, <2>7 DEF Poised, Held
  <2>9. agenda' = c /\ nodes' = nodes + 1 /\ UNCHANGED << evalStack, abandoned >>
    BY <1>2 DEF Enter, NewNode, b, c
  <2> QED
    BY <2>6, <2>8, <2>9 DEF BalanceInv
<1> QED
  BY <1>3, <1>4 DEF CInv, CallsAreStatements

LEMMA MoreBodies ==
  ASSUME NEW items \in Seq(SafeItem), NEW a \in Seq(SafeItem),
         OnlyBodies(items), OnlyBodies(a)
  PROVE items \o a \in Seq(SafeItem) /\ OnlyBodies(items \o a)
<1> DEFINE b == items \o a
           k == Len(items)
<1>1. /\ b \in Seq(SafeItem) /\ Len(b) = k + Len(a) /\ k \in Nat /\ Len(a) \in Nat
      /\ \A i \in 1 .. k : b[i] = items[i]
      /\ \A i \in (k + 1) .. (k + Len(a)) : b[i] = a[i - k]
  BY ConcatItems
<1> HIDE DEF b
<1> SUFFICES ASSUME NEW j \in 1 .. Len(b) PROVE b[j].what \in BodyKind
  BY <1>1 DEF OnlyBodies, b
<1>2. CASE j <= k
  BY <1>1, <1>2 DEF OnlyBodies
<1>3. CASE j > k
  <2>1. j - k \in 1 .. Len(a) /\ j \in (k + 1) .. (k + Len(a))
    BY <1>1, <1>3
  <2> QED
    BY <1>1, <2>1 DEF OnlyBodies
<1> QED
  BY <1>1, <1>2, <1>3

(* A statement ends and leaves its body, or another one, to go on.         *)
LEMMA StatementEndControl ==
  ASSUME IInv, CInv, NEW what, Doing(what), what \subseteq UseKind \cup {"let"},
         NEW items \in Seq(SafeItem), OnlyBodies(items), Replace(items),
         UNCHANGED << mode, status >>,
         Len(evalStack) - 1 = abandoned => Len(evalStack') = abandoned'
  PROVE CInv'
<1>1. what \cap {"fn", "call"} = {}
  BY Kinds
<1>2. Rooted(agenda') /\ CallModeInv'
  BY <1>1, Replacing, ModeKept
<1>3. ASSUME BalanceInv PROVE BalanceInv'
  <2>1. OnlyBodies(Tail(agenda)) /\ Tail(agenda) \in Seq(SafeItem)
        /\ Len(evalStack') = abandoned'
    BY <1>3, AtStatementEnd, HandledHead
  <2>2. agenda' \in Seq(SafeItem) /\ OnlyBodies(agenda')
    BY <2>1, MoreBodies DEF Replace
  <2> QED
    BY <2>1, <2>2, StatementOver DEF BalanceInv
<1> QED
  BY <1>2, <1>3 DEF CInv, CallsAreStatements

-----------------------------------------------------------------------------
(* The visits of expressions.                                              *)

(* An expression is about to be visited: whoever is below receives it.     *)
LEMMA AtExpression ==
  ASSUME IInv, BalanceInv, Doing({"expr"})
  PROVE /\ Tail(agenda) \in Seq(SafeItem) /\ Tail(agenda) # << >>
        /\ Receives(Head(Tail(agenda)), ThisNode)
        /\ NoExpr(Tail(agenda)) /\ \A k : Nested(Tail(agenda), k)
        /\ CallsOn(Tail(agenda)) = CallsOn(agenda)
        /\ Held(CallsOn(agenda), abandoned, Len(evalStack), 1)
<1>1. /\ agenda \in Seq(SafeItem) /\ agenda # << >> /\ status = "running"
      /\ Head(agenda).what = "expr" /\ Tail(agenda) \in Seq(SafeItem)
  BY HandledHead
<1>2. Nested(agenda, nodes) /\ Poised(agenda, evalStack, abandoned)
  BY <1>1 DEF BalanceInv
<1>3. /\ Tail(agenda) # << >> /\ Receives(Head(Tail(agenda)), ThisNode)
      /\ NoExpr(Tail(agenda)) /\ \A k : Nested(Tail(agenda), k)
  BY <1>1, <1>2, TailNested DEF ThisNode
<1>4. CallsOn(Tail(agenda)) = CallsOn(agenda)
  BY <1>1, CallsOfTail
<1>5. ~Waits(agenda) /\ Visiting(agenda) = 1
  BY <1>1, Kinds DEF Waits, Visiting
<1> QED
  BY <1>1, <1>2, <1>3, <1>4, <1>5 DEF Poised

(* A leaf: its value is pushed and it is done.                             *)
LEMMA LeafControl ==
  ASSUME IInv, IInv', CInv, Doing({"expr"}), NEW r \in Register, GetAndPush(r, ThisNode),
         Replace(<< >>), NewNode, UNCHANGED << status, abandoned >>
  PROVE CInv'
<1>1. agenda' = Tail(agenda) /\ evalStack' = Append(evalStack, Operand(r, ThisNode))
      /\ UNCHANGED mode /\ {"expr"} \cap {"fn", "call"} = {}
  BY HandledHead, NoItems DEF Replace, GetAndPush
<1>2. Rooted(agenda') /\ CallModeInv'
  BY <1>1, NoItems, Replacing, ModeKept
<1>3. ASSUME BalanceInv PROVE BalanceInv'
  <2>1. /\ Tail(agenda) \in Seq(SafeItem) /\ Tail(agenda) # << >>
        /\ Receives(Head(Tail(agenda)), ThisNode)
        /\ \A k : Nested(Tail(agenda), k)
        /\ CallsOn(Tail(agenda)) = CallsOn(agenda)
        /\ Held(CallsOn(agenda), abandoned, Len(evalStack), 1)
    BY <1>3, AtExpression
  <2>2. /\ evalStack \in Seq(SafeOperand) /\ evalStack' \in Seq(SafeOperand)
        /\ Len(evalStack) \in Nat /\ abandoned \in Nat
    BY DEF IInv, AllocatorInv, CountersInv
  <2>3. /\ Len(evalStack') = Len(evalStack) + 1
        /\ evalStack'[Len(evalStack) + 1] = Operand(r, ThisNode)
    BY <1>1, <2>2
  <2>4. Operand(r, ThisNode).node = ThisNode
    BY DEF Operand
  <2>5. Poised(Tail(agenda), evalStack', abandoned)
    BY <2>1, <2>2, <2>3, <2>4, Delivered
  <2> QED
    BY <1>1, <2>1, <2>5 DEF BalanceInv
<1> QED
  BY <1>2, <1>3 DEF CInv, CallsAreStatements

(* A literal that initialises a variable ends the declaration as well.     *)
LEMMA StoreLiteralControl == IInv /\ IInv' /\ CInv /\ StoreLiteral => CInv'
<1> SUFFICES ASSUME IInv, IInv', CInv, StoreLiteral PROVE CInv'
  OBVIOUS
<1> DEFINE b == Tail(agenda)
<1>1. Doing({"expr"}) /\ agenda' = Tail(b) /\ UNCHANGED << mode, status, evalStack, abandoned >>
  BY DEF StoreLiteral, Expecting, allocatorVars
<1>2. /\ agenda \in Seq(SafeItem) /\ agenda # << >> /\ Head(agenda).what = "expr"
      /\ b \in Seq(SafeItem)
  BY <1>1, HandledHead
<1>3. b # << >> /\ Head(b).what = "let"
  <2>1. Len(agenda) > 1 /\ agenda[2].what = "let"
    BY DEF StoreLiteral, Initialising, DirectlyUnder
  <2>2. b # << >> /\ Head(b) = agenda[2]
    BY <1>2, <2>1
  <2> HIDE DEF b
  <2> QED
    BY <2>1, <2>2
<1>4. Rooted(b) /\ (HasCall(agenda) => HasCall(b))
  BY <1>2, TailShape DEF CInv
<1>5. Rooted(Tail(b)) /\ (HasCall(b) => HasCall(Tail(b))) /\ Tail(b) \in Seq(SafeItem)
  <2> HIDE DEF b
  <2>1. Head(b).what # "call" /\ Tail(b) \in Seq(SafeItem)
    BY <1>2, <1>3, TailItems
  <2> QED
    BY <1>2, <1>3, <1>4, <2>1, TailShape
<1>6. ASSUME BalanceInv PROVE BalanceInv'
  <2>1. Nested(b, 0) /\ CallsOn(b) = CallsOn(agenda)
        /\ Held(CallsOn(agenda), abandoned, Len(evalStack), 1)
    BY <1>1, <1>6, AtExpression
  <2>2. OnlyBodies(Tail(b))
    BY <1>2, <1>3, <2>1, TailNested, Kinds
  <2>3. CallsOn(b) = {}
    BY <1>2, <1>3, <2>2, CallsOfTail, BodiesHaveNoCall
  <2>4. Len(evalStack) = abandoned
    BY <2>1, <2>3 DEF Held
  <2>5. Nested(Tail(b), nodes') /\ Poised(Tail(b), evalStack, abandoned)
    BY <1>5, <2>2, <2>4, StatementOver
  <2> QED
    BY <1>1, <2>5 DEF BalanceInv
<1> HIDE DEF b
<1> QED
  BY <1>1, <1>4, <1>5, <1>6, ModeKept DEF CInv, CallsAreStatements

(* A binary expression starts with its left operand ...                    *)
LEMMA VisitBinaryControl == IInv /\ IInv' /\ CInv /\ VisitBinary => CInv'
<1> SUFFICES ASSUME IInv, IInv', CInv, VisitBinary PROVE CInv'
  OBVIOUS
<1>1. PICK op \in Operators, t \in Types :
        Replace(<< ExprItem(t), LeftItem(op, t, ThisNode, NextNode) >>)
  BY DEF VisitBinary
<1> DEFINE a == Tail(agenda)
           y == LeftItem(op, t, ThisNode, NextNode)
           b == << y >> \o a
           c == << ExprItem(t) >> \o b
<1>2. Doing({"expr"}) /\ nodes' = nodes + 1
      /\ UNCHANGED << mode, status, evalStack, abandoned >>
  BY DEF VisitBinary, Expecting, NewNode, visitedOnly, allocatorVars, historyVars
<1>3. /\ ExprItem(t) \in SafeItem /\ y \in SafeItem /\ a \in Seq(SafeItem)
      /\ {"expr"} \cap {"fn", "call"} = {} /\ nodes \in Nat
  BY <1>2, HandledHead, HandlersPush, TypesAssumption
<1>4. << ExprItem(t), y >> \in Seq(SafeItem) /\ agenda' = c
  BY <1>1, <1>3, TwoItems DEF Replace
<1>5. /\ ExprItem(t).what = "expr" /\ y.what = "left" /\ y.of = NextNode
      /\ y.node = ThisNode
  BY ItemFieldsByName
<1> HIDE DEF a, y
<1>6. Rooted(agenda') /\ CallModeInv'
  BY <1>1, <1>2, <1>3, <1>4, Replacing, ModeKept DEF y
<1>7. ASSUME BalanceInv PROVE BalanceInv'
  <2>1. /\ a # << >> /\ Receives(Head(a), ThisNode) /\ NoExpr(a) /\ Nested(a, nodes + 1)
        /\ CallsOn(a) = CallsOn(agenda)
        /\ Held(CallsOn(agenda), abandoned, Len(evalStack), 1)
    BY <1>2, <1>7, AtExpression DEF a
  <2>2. /\ Nested(b, nodes + 1) /\ NoExpr(b) /\ b \in Seq(SafeItem) /\ b # << >>
        /\ Head(b) = y /\ Tail(b) = a
    BY <1>3, <1>5, <2>1, OneNested, Kinds
  <2>3. Receives(y, (nodes + 1) + 1)
    BY <1>3, <1>5, Kinds DEF Receives, NextNode
  <2> HIDE DEF b
  <2>4. /\ Nested(c, nodes + 1) /\ c \in Seq(SafeItem) /\ c # << >>
        /\ Head(c) = ExprItem(t) /\ Tail(c) = b
    BY <1>3, <1>5, <2>2, <2>3, OneNested, Kinds
  <2> HIDE DEF c
  <2>5. CallsOn(c) = CallsOn(a) /\ ~Waits(c) /\ Visiting(c) = 1
    BY <1>5, <2>2, <2>4, CallsOfTail, Kinds DEF Waits, Visiting
  <2>6. Poised(c, evalStack, abandoned)
    BY <2>1, <2>5 DEF Poised
  <2> QED
    BY <1>2, <1>4, <2>4, <2>6 DEF BalanceInv, b, c
<1> QED
  BY <1>6, <1>7 DEF CInv, CallsAreStatements

(* ... whose value waits in a register for the right one.                  *)
LEMMA PopLeftControl == IInv /\ IInv' /\ CInv /\ PopLeft => CInv'
<1> SUFFICES ASSUME IInv, IInv', CInv, PopLeft PROVE CInv'
  OBVIOUS
<1> DEFINE item == Head(agenda)
           a == Tail(agenda)
           x == ExprItem(item.type)
           y == RightItem(item.op, item.type, item.node, ThisNode, Top.reg, item.of)
           b == << y >> \o a
           c == << x >> \o b
<1>1. /\ Doing({"left"}) /\ evalStack # << >> /\ evalStack' = Popped
      /\ Replace(<< x, y >>) /\ UNCHANGED << mode, status, nodes, abandoned >>
  BY DEF PopLeft, historyVars
<1>2. /\ agenda \in Seq(SafeItem) /\ agenda # << >> /\ item \in SafeItem
      /\ item.what = "left" /\ a \in Seq(SafeItem) /\ nodes \in Nat
      /\ status = "running"
  BY <1>1, HandledHead
<1>3. x \in SafeItem /\ y \in SafeItem
  <2>1. Top.reg \in Register \ {RAX, RSP} /\ ThisNode \in Nat
    BY <1>1, <1>2, Popping DEF IInv, ThisNode
  <2> QED
    BY <1>2, <2>1, ItemFields, ItemsTyped
<1>4. x.what = "expr" /\ y.what = "right" /\ y.of = ThisNode /\ y.node = item.node
  BY ItemFieldsByName
<1> HIDE DEF a, x, y, item
<1>5. << x, y >> \in Seq(SafeItem) /\ agenda' = c /\ {"left"} \cap {"fn", "call"} = {}
  BY <1>1, <1>2, <1>3, TwoItems DEF Replace, a
<1>6. Rooted(agenda') /\ CallModeInv'
  BY <1>1, <1>5, Replacing, ModeKept
<1>7. ASSUME BalanceInv PROVE BalanceInv'
  <2>1. Nested(agenda, nodes) /\ Poised(agenda, evalStack, abandoned)
    BY <1>2, <1>7 DEF BalanceInv
  <2>2. a # << >> /\ Receives(Head(a), item.node) /\ NoExpr(a) /\ Nested(a, nodes)
    BY <1>2, <2>1, TailNested DEF a, item
  <2>3. /\ Nested(b, nodes) /\ NoExpr(b) /\ b \in Seq(SafeItem) /\ b # << >>
        /\ Head(b) = y /\ Tail(b) = a
    BY <1>2, <1>3, <1>4, <2>2, OneNested, Kinds
  <2>4. Receives(y, nodes + 1)
    BY <1>4, Kinds DEF Receives, ThisNode
  <2> HIDE DEF b
  <2>5. /\ Nested(c, nodes) /\ c \in Seq(SafeItem) /\ c # << >>
        /\ Head(c) = x /\ Tail(c) = b
    BY <1>3, <1>4, <2>3, <2>4, OneNested, Kinds
  <2> HIDE DEF c
  <2>6. /\ CallsOn(c) = CallsOn(a) /\ ~Waits(c) /\ Visiting(c) = 1
        /\ CallsOn(agenda) = CallsOn(a) /\ Waits(agenda) /\ Visiting(agenda) = 1
    BY <1>2, <1>4, <2>3, <2>5, CallsOfTail, Kinds DEF Waits, Visiting, a, item
  <2>7. Len(Popped) = Len(evalStack) - 1
    BY <1>1, PoppedShape
  <2>8. Poised(c, Popped, abandoned)
    BY <2>1, <2>6, <2>7 DEF Poised
  <2> QED
    BY <1>1, <1>5, <2>5, <2>8 DEF BalanceInv, b, c
<1> QED
  BY <1>6, <1>7 DEF CInv, CallsAreStatements

(* The operator delivers the value of the whole expression.                *)
LEMMA ApplyOperatorControl == IInv /\ IInv' /\ CInv /\ ApplyOperator => CInv'
<1> SUFFICES ASSUME IInv, IInv', CInv, ApplyOperator PROVE CInv'
  OBVIOUS
<1> DEFINE item == Head(agenda)
           a == Tail(agenda)
           result == Operand(Top.reg, item.node)
<1>1. /\ Doing({"right"}) /\ evalStack # << >> /\ evalStack' = Append(Popped, result)
      /\ Replace(<< >>) /\ UNCHANGED << mode, status, nodes, abandoned >>
  BY DEF ApplyOperator
<1>2. /\ agenda \in Seq(SafeItem) /\ agenda # << >> /\ item.what = "right"
      /\ a \in Seq(SafeItem) /\ status = "running" /\ evalStack \in Seq(SafeOperand)
  BY <1>1, HandledHead
<1>3. agenda' = a /\ {"right"} \cap {"fn", "call"} = {}
  BY <1>1, <1>2, NoItems DEF Replace
<1>4. result.node = item.node
  BY DEF Operand
<1> HIDE DEF a, item, result
<1>5. Rooted(agenda') /\ CallModeInv'
  BY <1>1, <1>3, NoItems, Replacing, ModeKept
<1>6. ASSUME BalanceInv PROVE BalanceInv'
  <2> DEFINE k == Len(evalStack) - 1
  <2>1. Nested(agenda, nodes) /\ Poised(agenda, evalStack, abandoned)
    BY <1>2, <1>6 DEF BalanceInv
  <2>2. a # << >> /\ Receives(Head(a), item.node) /\ Nested(a, 0) /\ Nested(a, nodes)
    BY <1>2, <2>1, TailNested DEF a, item
  <2>3. CallsOn(agenda) = CallsOn(a) /\ Waits(agenda) /\ Visiting(agenda) = 1
    BY <1>2, CallsOfTail, Kinds DEF Waits, Visiting, a, item
  <2>4. Held(CallsOn(a), abandoned, k, 1)
    BY <2>1, <2>3 DEF Poised
  <2>5. Len(Popped) = k /\ k \in Nat /\ Popped \in Seq(SafeOperand)
    BY <1>1, PoppedShape
  <2>6. evalStack' \in Seq(SafeOperand) /\ abandoned \in Nat
    BY DEF IInv, AllocatorInv, CountersInv
  <2> HIDE DEF k, Popped
  <2>7. Len(evalStack') = k + 1 /\ evalStack'[k + 1] = result
    BY <1>1, <2>5
  <2>8. Poised(a, evalStack', abandoned)
    BY <1>2, <1>4, <2>2, <2>4, <2>5, <2>6, <2>7, Delivered
  <2> QED
    BY <1>1, <1>3, <2>2, <2>8 DEF BalanceInv
<1> QED
  BY <1>5, <1>6 DEF CInv, CallsAreStatements

-----------------------------------------------------------------------------
(* Calls.                                                                  *)

LEMMA VisitCallStatementControl == IInv /\ IInv' /\ CInv /\ VisitCallStatement => CInv'
<1> SUFFICES ASSUME IInv, IInv', CInv, VisitCallStatement PROVE CInv'
  OBVIOUS
<1>1. PICK f \in FnNames : BeginCall(f) /\ Enter(<< CallItem(f, Len(evalStack), 0) >>)
  BY DEF VisitCallStatement
<1> DEFINE x == CallItem(f, Len(evalStack), 0)
           b == << x >> \o agenda
<1>2. Doing(BodyKind) /\ UNCHANGED << evalStack, status, abandoned >>
  BY <1>1 DEF VisitCallStatement, InBody, BeginCall, historyVars
<1>3. agenda \in Seq(SafeItem) /\ x \in SafeItem /\ Len(evalStack) \in Nat
  BY <1>2, HandledHead, HandlersPush
<1>4. x.what = "call" /\ x.base = Len(evalStack) /\ x.count = 0
  BY DEF CallItem
<1>5. agenda' = b /\ << x >> \in Seq(SafeItem)
  BY <1>1, <1>3 DEF Enter
<1> HIDE DEF x
<1>6. Rooted(agenda')
  BY <1>1, <1>2, <1>5, Entering DEF x
<1>7. /\ b \in Seq(SafeItem) /\ b # << >> /\ Head(b) = x /\ Tail(b) = agenda
  BY <1>3
<1> HIDE DEF b
<1>8. CallsOn(b) = CallsOn(agenda) \cup {x}
  BY <1>4, <1>7, CallsOfTail
<1>9. CallModeInv'
  BY <1>5, <1>8, CallIsOn DEF CallModeInv
<1>10. ASSUME BalanceInv PROVE BalanceInv'
  <2>1. OnlyBodies(agenda) /\ Len(evalStack) = abandoned
    BY <1>2, <1>10, AtBody
  <2>2. Nested(agenda, nodes') /\ NoExpr(agenda) /\ CallsOn(agenda) = {}
    BY <1>3, <2>1, BodiesNested, BodiesHaveNoCall
  <2>3. Nested(b, nodes')
    BY <1>3, <1>4, <2>1, <2>2, OneNested, Kinds DEF b
  <2>4. CallsOn(b) = {x} /\ ~Waits(b) /\ Visiting(b) = 0
    BY <1>4, <1>7, <1>8, <2>2, Kinds DEF Waits, Visiting
  <2>5. Poised(b, evalStack, abandoned)
    BY <1>3, <1>4, <2>1, <2>4 DEF Poised, Held
  <2> QED
    BY <1>2, <1>5, <2>3, <2>5 DEF BalanceInv
<1> QED
  BY <1>6, <1>9, <1>10 DEF CInv, CallsAreStatements

LEMMA VisitCallOperandControl == IInv /\ IInv' /\ CInv /\ VisitCallOperand => CInv'
<1> SUFFICES ASSUME IInv, IInv', CInv, VisitCallOperand PROVE CInv'
  OBVIOUS
<1>1. PICK f \in FnNames : Replace(<< CallItem(f, Len(evalStack), 0) >>)
  BY DEF VisitCallOperand
<1> DEFINE x == CallItem(f, Len(evalStack), 0)
<1>2. Doing({"expr"}) /\ "call" \in Operands \cup Arguments
  BY DEF VisitCallOperand, Expecting
<1>3. Tail(agenda) \in Seq(SafeItem) /\ x \in SafeItem /\ {"expr"} \cap {"fn", "call"} = {}
  BY <1>2, HandledHead, HandlersPush
<1>4. x.what = "call"
  BY ItemFieldsByName
<1> HIDE DEF x
<1>5. << x >> \in Seq(SafeItem) /\ Replace(<< x >>)
  BY <1>1, <1>3 DEF x
<1>6. Rooted(agenda')
  BY <1>2, <1>3, <1>5, Replacing
<1>7. HasCall(agenda')
  <2>1. agenda' = << x >> \o Tail(agenda)
    BY <1>5 DEF Replace
  <2>2. 1 \in 1 .. Len(agenda') /\ agenda'[1] = x
    BY <1>3, <2>1
  <2> QED
    BY <1>4, <2>2 DEF HasCall
<1> QED
  BY <1>2, <1>6, <1>7 DEF CInv, CallModeInv, CallsAreStatements

LEMMA VisitArgumentControl == IInv /\ IInv' /\ CInv /\ VisitArgument => CInv'
<1> SUFFICES ASSUME IInv, IInv', CInv, VisitArgument PROVE CInv'
  OBVIOUS
<1> DEFINE item == Head(agenda)
           a == Tail(agenda)
           y == [item EXCEPT !.count = item.count + 1]
<1>1. PICK t \in Types : Replace(<< ExprItem(t), y >>)
  BY DEF VisitArgument
<1> DEFINE x == ExprItem(t)
           b == << y >> \o a
           c == << x >> \o b
<1>2. Doing({"call"}) /\ UNCHANGED << mode, status, evalStack, nodes, abandoned >>
  BY DEF VisitArgument, visitedOnly, allocatorVars, historyVars
<1>3. /\ agenda \in Seq(SafeItem) /\ agenda # << >> /\ item \in SafeItem
      /\ item.what = "call" /\ a \in Seq(SafeItem) /\ status = "running"
      /\ x \in SafeItem
  BY <1>2, HandledHead, HandlersPush, TypesAssumption
<1>4. /\ y \in SafeItem /\ y.what = "call" /\ y.base = item.base
      /\ y.count = item.count + 1 /\ item.count \in Nat
  BY <1>3 DEF SafeItem, Item, UseKind
<1>5. x.what = "expr"
  BY ItemFieldsByName
<1> HIDE DEF a, x, y, item
<1>6. << x, y >> \in Seq(SafeItem) /\ agenda' = c
  BY <1>1, <1>3, <1>4, TwoItems DEF Replace, a, x
<1>7. b \in Seq(SafeItem) /\ b # << >> /\ Head(b) = y /\ Tail(b) = a
  BY <1>3, <1>4, OneItem
<1> HIDE DEF b
<1>8. c \in Seq(SafeItem) /\ c # << >> /\ Head(c) = x /\ Tail(c) = b
  BY <1>3, <1>7, OneItem
<1> HIDE DEF c
<1>9. CallsOn(c) = CallsOn(a) \cup {y}
  BY <1>4, <1>5, <1>7, <1>8, CallsOfTail
<1>10. CallsOn(agenda) = CallsOn(a) \cup {item}
  BY <1>3, CallsOfTail DEF item, a
<1>11. CallModeInv'
  BY <1>6, <1>9, CallIsOn DEF CallModeInv
<1>12. Rooted(agenda')
  <2>1. Rooted(a) /\ a # << >>
    BY <1>3, TailShape DEF CInv, a, item
  <2>2. Rooted(<< x, y >> \o a)
    BY <1>3, <1>6, <2>1, ConcatShape
  <2> QED
    BY <1>1, <2>2 DEF Replace, a, x
<1>13. ASSUME BalanceInv PROVE BalanceInv'
  <2>1. /\ Nested(agenda, nodes) /\ Poised(agenda, evalStack, abandoned)
        /\ ~Waits(agenda) /\ Visiting(agenda) = 0
    BY <1>3, <1>13, Kinds DEF BalanceInv, Waits, Visiting, item
  <2>2. OnlyBodies(a) /\ NoExpr(a) /\ Nested(a, nodes)
    BY <1>3, <2>1, TailNested, Kinds DEF a, item
  <2>3. Nested(b, nodes) /\ NoExpr(b)
    BY <1>3, <1>4, <2>2, OneNested, Kinds DEF b
  <2>4. Receives(y, nodes + 1)
    BY <1>4 DEF Receives
  <2>5. Nested(c, nodes) /\ ~Waits(c) /\ Visiting(c) = 1
    BY <1>3, <1>5, <1>7, <1>8, <2>3, <2>4, OneNested, Kinds DEF Waits, Visiting, c
  <2>6. item.base = abandoned /\ Len(evalStack) = abandoned + item.count
    <3>1. item \in CallsOn(agenda) /\ Len(evalStack) \in Nat
      BY <1>2, <1>10, HandledHead
    <3>2. item.base = abandoned /\ Len(evalStack) + 0 = abandoned + item.count
      BY <2>1, <3>1 DEF Poised, Held
    <3> QED
      BY <3>1, <3>2
  <2>7. CallsOn(c) = {y}
    BY <1>9, <2>2, BodiesHaveNoCall
  <2>8. Poised(c, evalStack, abandoned)
    <3>1. abandoned \in Nat /\ y.base = abandoned
      BY <1>4, <2>6 DEF IInv, CountersInv
    <3>2. Len(evalStack) + 1 = abandoned + y.count /\ y.count # 0
      BY <1>4, <2>6, <3>1
    <3>3. Held({y}, abandoned, Len(evalStack), 1)
      BY <3>1, <3>2 DEF Held
    <3> QED
      BY <2>5, <2>7, <3>3 DEF Poised
  <2> QED
    BY <1>2, <1>6, <2>5, <2>8 DEF BalanceInv
<1> QED
  BY <1>11, <1>12, <1>13 DEF CInv, CallsAreStatements

LEMMA EndCallControl == IInv /\ IInv' /\ CInv /\ EndCall => CInv'
<1> SUFFICES ASSUME IInv, IInv', CInv, EndCall PROVE CInv'
  OBVIOUS
<1> DEFINE item == Head(agenda)
<1>1. /\ Doing({"call"}) /\ mode' = "None" /\ Replace(<< >>) /\ UNCHANGED status
      /\ UNCHANGED evalStack /\ abandoned' = abandoned + item.count
  BY DEF EndCall, end_call_prepare
<1>2. /\ agenda \in Seq(SafeItem) /\ agenda # << >> /\ Tail(agenda) \in Seq(SafeItem)
      /\ item.what = "call" /\ item \in SafeItem /\ status = "running"
  BY <1>1, HandledHead
<1>3. agenda' = Tail(agenda)
  BY <1>1, <1>2, NoItems DEF Replace
<1>4. Rooted(agenda')
  BY <1>2, <1>3, TailShape DEF CInv
<1>5. CallModeInv'
  BY <1>1 DEF CallModeInv
<1>6. ASSUME BalanceInv PROVE BalanceInv'
  <2>1. Nested(agenda, nodes) /\ Poised(agenda, evalStack, abandoned)
    BY <1>2, <1>6 DEF BalanceInv
  <2>2. OnlyBodies(Tail(agenda))
    BY <1>2, <2>1, TailNested, Kinds
  <2>3. item \in CallsOn(agenda) /\ ~Waits(agenda) /\ Visiting(agenda) = 0
    BY <1>2, CallsOfTail, Kinds DEF Waits, Visiting
  <2>4. Len(evalStack) + 0 = abandoned + item.count /\ Len(evalStack) \in Nat
    BY <1>1, <2>1, <2>3, HandledHead DEF Poised, Held
  <2> HIDE DEF item
  <2>5. Len(evalStack') = abandoned'
    BY <1>1, <2>4
  <2> QED
    BY <1>2, <1>3, <2>2, <2>5, StatementOver DEF BalanceInv
<1> QED
  BY <1>4, <1>5, <1>6 DEF CInv, CallsAreStatements

-----------------------------------------------------------------------------
(* Every step keeps the invariant.                                         *)

LEMMA StatementsControl == IInv /\ IInv' /\ CInv /\ Statement => CInv'
<1> SUFFICES ASSUME IInv, IInv', CInv, Statement PROVE CInv'
  OBVIOUS
<1> USE DEF allocatorVars, historyVars
<1>1. CASE VisitVarDecl
  <2>1. PICK n \in Names, t \in Types : Enter(<< ExprItem(t), LetItem(n, t, NextNode) >>)
    BY <1>1 DEF VisitVarDecl
  <2>2. /\ LetItem(n, t, NextNode).what = "let" /\ LetItem(n, t, NextNode).of = NextNode
        /\ LetItem(n, t, NextNode) \in SafeItem
    BY ItemFieldsByName, HandlersPush
  <2>3. t \in ValueType /\ Doing(BodyKind) /\ NewNode
        /\ UNCHANGED << mode, status, evalStack, abandoned >>
    BY <1>1, TypesAssumption DEF VisitVarDecl, InBody, visitedOnly
  <2> QED
    BY <2>1, <2>2, <2>3, StatementControl
<1>2. CASE VisitRet \/ VisitIf \/ VisitExprStatement
  <2>1. /\ Types \subseteq ValueType /\ {"bool"} \subseteq ValueType
        /\ {"ret", "test", "discard"} \subseteq UseKind
    BY TypesAssumption DEF ValueType, UseKind
  <2>2. \E what \in UseKind, t \in ValueType :
          Enter(<< ExprItem(t), UseItem(what, NextNode) >>)
    BY <1>2, <2>1 DEF VisitRet, VisitIf, VisitExprStatement, VisitUse
  <2>3. PICK what \in UseKind, t \in ValueType :
          Enter(<< ExprItem(t), UseItem(what, NextNode) >>)
    BY <2>2
  <2>4. Doing(BodyKind) /\ NewNode
        /\ UNCHANGED << mode, status, evalStack, abandoned >>
    BY <1>2 DEF VisitRet, VisitIf, VisitExprStatement, VisitUse, InBody, visitedOnly
  <2>5. /\ UseItem(what, NextNode) \in SafeItem /\ UseItem(what, NextNode).of = NextNode
        /\ UseItem(what, NextNode).what = what
    BY HandlersPush DEF UseItem
  <2> QED
    BY <2>3, <2>4, <2>5, StatementControl
<1>3. CASE VisitAssign
  <2>1. Doing(BodyKind) /\ UNCHANGED << mode, status, evalStack, agenda, abandoned >>
    BY <1>3 DEF VisitAssign, InBody, visitedOnly
  <2>2. ASSUME BalanceInv PROVE BalanceInv'
    BY <2>1, <2>2, AtBody, HandledHead, StatementOver DEF BalanceInv
  <2> QED
    BY <2>1, <2>2 DEF CInv, CallModeInv, CallsAreStatements
<1>4. CASE VisitCallStatement
  BY <1>4, VisitCallStatementControl
<1>5. CASE EndVarDecl \/ EndRet
  <2>1. PICK what \in {{"let"}, {"ret"}} :
          /\ Doing(what) /\ evalStack # << >> /\ Replace(<< >>) /\ evalStack' = Popped
          /\ UNCHANGED << mode, status, abandoned >>
    BY <1>5 DEF EndVarDecl, EndRet
  <2>2. what \subseteq UseKind \cup {"let"} /\ OnlyBodies(<< >>)
    BY DEF UseKind, OnlyBodies
  <2> QED
    BY <2>1, <2>2, NoItems, PoppedShape, StatementEndControl
<1>6. CASE BeginIf
  <2> DEFINE x == IfItem(codeLength + Len(emit_test8(Top.reg, 1) \o emit_je_rel8(0)) - 1)
  <2>1. /\ Doing({"test"}) /\ evalStack # << >> /\ evalStack' = Popped
        /\ UNCHANGED << mode, status, abandoned >> /\ Replace(<< x >>)
    BY <1>6 DEF BeginIf
  <2>2. x.what = "if"
    BY ItemFieldsByName
  <2>3. x \in SafeItem
    <3>1. Top.reg \in Register
      BY <2>1, Popping DEF IInv
    <3>2. emit_test8(Top.reg, 1) \o emit_je_rel8(0) \in Code
      BY <3>1, RegisterCalls, JumpCalls, SmallBytes, CodeConcat
    <3>3. codeLength + Len(emit_test8(Top.reg, 1) \o emit_je_rel8(0)) - 1 \in Int
      BY <3>2, CodeLength DEF IInv, CodeInv
    <3> QED
      BY <3>3, ItemsTyped
  <2> HIDE DEF x
  <2>4. /\ << x >> \in Seq(SafeItem) /\ OnlyBodies(<< x >>)
        /\ {"test"} \subseteq UseKind \cup {"let"}
    BY <2>2, <2>3 DEF OnlyBodies, BodyKind, UseKind
  <2> QED
    BY <2>1, <2>4, PoppedShape, StatementEndControl
<1>7. CASE EndIf
  <2>1. Doing({"if"}) /\ Replace(<< >>)
        /\ UNCHANGED << mode, status, evalStack, abandoned >>
    BY <1>7 DEF EndIf
  <2>2. Doing(BodyKind)
    BY <2>1 DEF Doing, BodyKind
  <2> QED
    BY <2>1, <2>2, ClosingControl
<1>8. CASE EndExprStatement
  <2>1. /\ Doing({"discard"}) /\ Replace(<< >>)
        /\ UNCHANGED << mode, status, evalStack >> /\ abandoned' = abandoned + 1
    BY <1>8 DEF EndExprStatement
  <2>2. {"discard"} \subseteq UseKind \cup {"let"} /\ OnlyBodies(<< >>)
        /\ Len(evalStack) \in Nat
    BY <2>1, HandledHead DEF UseKind, OnlyBodies
  <2>3. Len(evalStack) - 1 = abandoned => Len(evalStack') = abandoned'
    BY <2>1, <2>2
  <2> QED
    BY <2>1, <2>2, <2>3, NoItems, StatementEndControl
<1> QED
  BY <1>1, <1>2, <1>3, <1>4, <1>5, <1>6, <1>7, <1>8 DEF Statement

LEMMA ExpressionsControl == IInv /\ IInv' /\ CInv /\ Expression => CInv'
<1> SUFFICES ASSUME IInv, IInv', CInv, Expression PROVE CInv'
  OBVIOUS
<1>1. CASE VisitLiteral \/ VisitString \/ VisitIdentifier
  <2>1. PICK r \in Register : GetAndPush(r, ThisNode)
    BY <1>1 DEF VisitLiteral, VisitString, VisitIdentifier
  <2>2. Doing({"expr"}) /\ Replace(<< >>) /\ NewNode
        /\ UNCHANGED << status, abandoned >>
    BY <1>1 DEF VisitLiteral, VisitString, VisitIdentifier, Expecting
  <2> QED
    BY <2>1, <2>2, LeafControl
<1> QED
  BY <1>1, StoreLiteralControl, VisitBinaryControl, PopLeftControl, ApplyOperatorControl,
     VisitCallOperandControl, VisitArgumentControl, EndCallControl
  DEF Expression

LEMMA NextControl == IInv /\ IInv' /\ CInv /\ [Next]_vars => CInv'
<1> SUFFICES ASSUME IInv, IInv', CInv, [Next]_vars PROVE CInv'
  OBVIOUS
<1>1. CASE EndFunction
  <2>1. Doing({"fn"}) /\ Replace(<< >>) /\ UNCHANGED << mode, status, evalStack, abandoned >>
    BY <1>1 DEF EndFunction, allocatorVars, historyVars
  <2>2. Doing(BodyKind)
    BY <2>1 DEF Doing, BodyKind
  <2> QED
    BY <2>1, <2>2, ClosingControl
<1>2. CASE WriteToDisk \/ Failure
  <2>1. status' # "running" /\ UNCHANGED agenda
    BY <1>2 DEF WriteToDisk, Failure, OutOfRegisters, RejectOperator, PopEmpty
  <2> QED
    BY <2>1, StoppingControl
<1>3. CASE Terminated \/ UNCHANGED vars
  <2>1. UNCHANGED << agenda, status, mode, evalStack, nodes, abandoned >>
    BY <1>3 DEF Terminated, vars
  <2> QED
    BY <2>1 DEF CInv, CallModeInv, BalanceInv, CallsAreStatements
<1> QED
  BY <1>1, <1>2, <1>3, BeginFunctionControl, StatementsControl, ExpressionsControl DEF Next

LEMMA InitControl == Init => CInv
<1> SUFFICES ASSUME Init PROVE CInv
  OBVIOUS
<1>1. agenda = << >> /\ evalStack = << >> /\ mode = "None" /\ agenda \in Seq(SafeItem)
  BY DEF Init
<1>2. OnlyBodies(agenda) /\ Len(evalStack) = abandoned
  BY <1>1 DEF OnlyBodies, Init
<1>3. BalanceInv
  BY <1>1, <1>2, StatementOver DEF BalanceInv
<1> QED
  BY <1>1, <1>3 DEF CInv, Rooted, CallModeInv

LEMMA ControlInvariant == Spec => [](IInv /\ CInv)
<1>1. IInv /\ CInv /\ [Next]_vars => (IInv /\ CInv)'
  BY NextSafe, NextControl
<1> QED
  BY <1>1, InitSafe, InitControl, PTL DEF Spec

(* In every program call mode is over when the outermost call is, however  *)
(* calls are nested in the arguments of calls: between two statements      *)
(* get_free looks through all registers again (generator.cpp:199-205).     *)
THEOREM CallModeEnds == Spec => []CallModeInCalls
<1>1. CInv => CallModeInCalls
  BY DEF CInv, CallModeInv, HasCall, CallModeInCalls
<1> QED
  BY <1>1, ControlInvariant, PTL

LEMMA BalanceImplied == IInv /\ CInv /\ CallsAreStatements => Balanced
<1> SUFFICES ASSUME IInv, CInv, BalanceInv, status = "running", agenda # << >> PROVE Balanced
  BY DEF CInv, Balanced, Doing
<1>1. agenda \in Seq(SafeItem) /\ Nested(agenda, nodes) /\ Poised(agenda, evalStack, abandoned)
  BY DEF BalanceInv, IInv, ControlInv
<1>2. Doing(Awaiting) => evalStack # << >> /\ Top.node = Head(agenda).of
  BY <1>1 DEF Poised, Waits, Doing, Top
<1>3. ASSUME Doing(BodyKind) PROVE Len(evalStack) = abandoned /\ mode = "None"
  <2>1. OnlyBodies(agenda) /\ Len(evalStack) = abandoned
    BY <1>3, AtBody
  <2>2. CallsOn(agenda) = {}
    BY <2>1, BodiesHaveNoCall
  <2>3. mode # "Call"
    BY <2>2, CallIsOn DEF CInv, CallModeInv
  <2> QED
    BY <2>1, <2>3 DEF IInv, AllocatorInv, AllocatorMode
<1> QED
  BY <1>2, <1>3 DEF Balanced

(* In every program whose calls are statements, whatever its operators,    *)
(* its depth and its size, a visit that pops the evaluation stack finds    *)
(* there the value of the expression it has just visited, above the        *)
(* arguments and unused values that earlier statements left, and between   *)
(* two statements the stack holds exactly those, one entry for each        *)
(* (generator.cpp:30-57, 166-231).                                         *)
THEOREM StackBalanced == ASSUME CallsAreStatements PROVE Spec => []Balanced
BY BalanceImplied, ControlInvariant, PTL
=============================================================================
