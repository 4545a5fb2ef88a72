------------------------------ MODULE Processor ------------------------------
(***************************************************************************)
(* The code of the operators run by the machine it is for.  Literals are   *)
(* loaded into free registers and combined by operators, as the generator  *)
(* does it for an expression; the bytes of each are decoded and executed   *)
(* one instruction at a time.  The machine is x64 with narrower bytes:     *)
(* ByteBits bits each, so that a 32-bit register has 4 * ByteBits bits.    *)
(* holds is what the generator believes: the type and the value of what a  *)
(* register stands for.                                                    *)
(***************************************************************************)
EXTENDS OperatorCode, X64Decoder, FiniteSets

CONSTANTS
  ByteBits,       \* bits of a byte of the machine
  Loaded,         \* the registers that literals are loaded into
  OperandTypes,   \* types of the literals
  Literals,       \* their values
  Rubbish,        \* what a register holds before it is used
  MaxOperands,    \* bound: registers in use at a time
  MaxEmits        \* bound: literals and operators of the expression

ASSUME MachineAssumption == ByteBits \in Nat \ {0} /\ Rubbish \in Nat
ASSUME RegistersAssumption ==
  Loaded \subseteq 0 .. RDI \ {RAX, RDX, RSP}
ASSUME LiteralsAssumption == OperandTypes \subseteq ValueType /\ Literals \subseteq Nat

VARIABLES
  code,    \* the code being executed
  ip,      \* how much of it has been
  regs,    \* the registers of the machine
  zero,    \* its zero flag
  holds,   \* the values the registers stand for
  emits    \* number of literals and operators so far

processorVars == << code, ip, regs, zero, holds, emits >>

Nothing == [type |-> "none", value |-> 0, clean |-> FALSE]
Value(t, v, clean) == [type |-> t, value |-> v, clean |-> clean]

Span(bytes) == 2 ^ (bytes * ByteBits)
Part(v, bytes) == v % Span(bytes)
Negative(v, bytes) == 2 * v >= Span(bytes)

-----------------------------------------------------------------------------
(* The machine.  Writing four bytes clears the upper half, writing one or  *)
(* two keeps the rest.                                                     *)
Bytes(size) == size \div 8
Read(operand, size) ==
  CASE operand[1] = "reg" -> Part(regs[operand[2]], Bytes(size))
    [] operand[1] = "high" -> Part(regs[operand[2]] \div Span(1), 1)

Into(old, size, v) ==
  IF size >= 32 THEN v ELSE old - Part(old, Bytes(size)) + v

Written(operand, size, v) ==
  CASE operand[1] = "reg" -> [regs EXCEPT ![operand[2]] = Into(@, size, v)]
    [] operand[1] = "high" ->
         [regs EXCEPT ![operand[2]] =
            @ - Part(@, 2) + Part(@, 1) + Span(1) * v]

Ins == Decode(SubSeq(code, ip + 1, Len(code)) \o Padding)
Source(ins) == IF ins.src = NoOperand THEN Part(ins.imm, Bytes(ins.size))
               ELSE Read(ins.src, ins.size)

(* Two's complement: the bits of a difference, and equality of all bits.   *)
Alu(op, x, y, bytes) ==
  CASE op = "add" -> (x + y) % Span(bytes)
    [] op = "sub" -> (x - y) % Span(bytes)
    [] op = "imul" -> (x * y) % Span(bytes)
    [] op = "xor" /\ x = y -> 0
    [] op = "mov" -> y

Advance(n) == ip' = ip + n

Compute(d) ==
  /\ d.ins.op \in {"add", "sub", "imul", "xor", "mov"}
  /\ LET v == Alu(d.ins.op, Read(d.ins.dst, d.ins.size), Source(d.ins), Bytes(d.ins.size))
     IN /\ regs' = Written(d.ins.dst, d.ins.size, v)
        /\ zero' = IF d.ins.op = "mov" THEN zero ELSE (v = 0)
  /\ Advance(d.length)

(* cmp subtracts, test takes the conjunction with a mask of one bit.       *)
Test(d) ==
  /\ d.ins.op \in {"cmp", "test"}
  /\ zero' = IF d.ins.op = "cmp"
               THEN Read(d.ins.dst, d.ins.size) = Source(d.ins)
               ELSE (Read(d.ins.dst, d.ins.size) % 2) * (Source(d.ins) % 2) = 0
  /\ Advance(d.length)
  /\ UNCHANGED regs

(* idiv divides RDX:RAX by a signed divisor and truncates toward zero,     *)
(* which for dividends that are not negative is a matter of the divisor's  *)
(* sign.  A divisor of zero and a quotient that does not fit fault.        *)
Divisor(ins) == Read(ins.dst, ins.size)
Magnitude(ins) ==
  LET bytes == Bytes(ins.size) IN
  IF Negative(Divisor(ins), bytes) THEN Span(bytes) - Divisor(ins) ELSE Divisor(ins)
Dividend(bytes) == Span(bytes) * Part(regs[RDX], bytes) + Part(regs[RAX], bytes)

Divides(ins) ==
  LET bytes == Bytes(ins.size) IN
  /\ Divisor(ins) # 0
  /\ ~Negative(Part(regs[RDX], bytes), bytes)
  /\ 2 * (Dividend(bytes) \div Magnitude(ins)) < Span(bytes)

Divide(d) ==
  /\ d.ins.op = "idiv" /\ Divides(d.ins)
  /\ LET bytes == Bytes(d.ins.size)
         quotient == Dividend(bytes) \div Magnitude(d.ins)
     IN regs' = [regs EXCEPT
          ![RAX] = IF Negative(Divisor(d.ins), bytes) THEN (-quotient) % Span(bytes)
                                                       ELSE quotient,
          ![RDX] = Dividend(bytes) % Magnitude(d.ins)]
  /\ Advance(d.length)
  /\ UNCHANGED zero

Taken(op) == op = "jmp" \/ (op = "je" /\ zero) \/ (op = "jne" /\ ~zero)

Branch(d) ==
  /\ d.ins.op \in {"je", "jne", "jmp"}
  /\ Advance(d.length + IF Taken(d.ins.op) THEN d.ins.imm ELSE 0)
  /\ UNCHANGED << regs, zero >>

Execute ==
  /\ ip < Len(code)
  /\ LET d == Ins IN Compute(d) \/ Test(d) \/ Divide(d) \/ Branch(d)
  /\ UNCHANGED << code, holds, emits >>

-----------------------------------------------------------------------------
(* The generator.  It goes on when the code so far has been executed.      *)
Idle == ip = Len(code)
Emit(bytes) == emits < MaxEmits /\ code' = bytes /\ ip' = 0 /\ emits' = emits + 1

Operands == {r \in Register : holds[r] # Nothing}

LoadLiteral ==
  /\ Idle
  /\ Cardinality(Operands) < MaxOperands
  /\ \E r \in Loaded \ Operands, t \in OperandTypes, v \in Literals :
       /\ \A s \in Operands : holds[s].type = t
       /\ t = "bool" => v < 2
       /\ v < Span(Size(t))
       /\ Emit(emit_mov32_imm(r, v))
       /\ holds' = [holds EXCEPT ![r] = Value(t, v, TRUE)]
  /\ UNCHANGED << regs, zero >>

(* What an operator yields, in the bits of its type.                       *)
Result(op, t, x, y) ==
  CASE op = "Plus" -> (x + y) % Span(Size(t))
    [] op = "Minus" -> (x - y) % Span(Size(t))
    [] op = "Star" -> (x * y) % Span(Size(t))
    [] op = "Slash" -> x \div y
    [] op = "Modulus" -> x % y
    [] op = "DoubleEquals" -> IF x = y THEN 1 ELSE 0
    [] op = "NotEqual" -> IF x # y THEN 1 ELSE 0
    [] op = "LogOr" -> IF x + y > 0 THEN 1 ELSE 0
    [] op = "LogAnd" -> x * y

(* The operators whose code computes what they mean.  Division clears RDX  *)
(* instead of extending the sign, and on one or two bytes divides what the *)
(* upper bytes of EAX happen to hold.  == and != compare four bytes even   *)
(* when the operands are narrower, so the rest must be clear, which it is  *)
(* not after an operator on one or two bytes, == and != included.          *)
Meant(op, t, left, right) ==
  /\ IF t = "bool" THEN op \in Logical \cup Equality ELSE op \in Arithmetic \cup Equality
  /\ op \in Division =>
       /\ Size(t) >= 4
       /\ holds[right].value # 0
       /\ ~Negative(holds[left].value, Size(t)) /\ ~Negative(holds[right].value, Size(t))
  /\ op \in Equality => holds[left].clean /\ holds[right].clean

Operate ==
  /\ Idle
  /\ \E left, right \in Operands, op \in Arithmetic \cup Logical \cup Equality :
       LET t == holds[left].type
           yields == IF op \in Equality THEN "bool" ELSE t
           result == Value(yields, Result(op, t, holds[left].value, holds[right].value),
                           Size(yields) >= 4)
       IN /\ left # right
          /\ holds[right].type = t
          /\ Meant(op, t, left, right)
          /\ Emit(BinaryCode(op, t, left, right))
          /\ holds' = [Effect(holds, Nothing, op, t, left, right, result) EXCEPT ![left] = Nothing]
  /\ UNCHANGED << regs, zero >>

-----------------------------------------------------------------------------
Init ==
  /\ code = << >> /\ ip = 0
  /\ regs = [r \in Register |-> Rubbish] /\ zero = FALSE
  /\ holds = [r \in Register |-> Nothing]
  /\ emits = 0

(* An expression may end after any of them.                                *)
EndExpression == Idle /\ UNCHANGED processorVars

Next == Execute \/ LoadLiteral \/ Operate \/ EndExpression

Spec == Init /\ [][Next]_processorVars

-----------------------------------------------------------------------------
(* Registers of eight bytes, and an instruction pointer into the code.     *)
ProcessorTypeOK ==
  /\ regs \in [Register -> 0 .. Span(8) - 1]
  /\ zero \in BOOLEAN
  /\ code \in Seq(Byte) /\ ip \in 0 .. Len(code)
  /\ emits \in 0 .. MaxEmits
  /\ \A r \in Operands :
       holds[r].type \in OperandTypes \cup {"bool"} /\ holds[r].value < Span(Size(holds[r].type))

(* When the code of an operator has run, every register that is an operand *)
(* contains, in the bytes of its type, the value the expression has, and   *)
(* all of EAX's width of it when the generator may compare it: the result  *)
(* is in the right operand, and nothing else in use was overwritten by a   *)
(* difference, a division or the high byte of another register.            *)
OperatorsCompute ==
  Idle => \A r \in Operands :
            LET v == holds[r] IN
            /\ Part(regs[r], Size(v.type)) = v.value
            /\ v.clean /\ Size(v.type) < 4 => Part(regs[r], 4) = v.value

(* The jumps of fixed length inside an operator land on instructions of    *)
(* it, whichever way the tests go, and a division that is divided by       *)
(* something does not fault, whatever was in RDX.                          *)
RunsWithoutFault ==
  ip < Len(code) =>
    /\ Ins.ins.op \in {"add", "sub", "imul", "xor", "mov", "cmp", "test", "idiv", "je", "jne", "jmp"}
    /\ Ins.ins.op = "idiv" => Divides(Ins.ins)
=============================================================================
