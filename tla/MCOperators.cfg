SPECIFICATION Spec
CONSTANTS
  ByteBits = 1
  Loaded = {1, 3, 5}
  OperandTypes = {"i64", "i32", "u16", "u8", "bool"}
  Literals = {0, 1, 3, 7}
  Rubbish = 181
  MaxOperands = 3
  MaxEmits = 5
INVARIANTS
  ProcessorTypeOK
  OperatorsCompute
  RunsWithoutFault
