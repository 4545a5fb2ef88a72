SPECIFICATION Spec
CONSTANTS
  x = x
  Types = {"i32", "i64", "bool"}
  Names = {x}
  FnNames = {"f"}
  Statements = {"let", "ret", "if", "assign", "expr"}
  Operands = {"literal", "identifier", "binary"}
  Arguments = {"literal"}
  Operators = {"Plus", "Minus", "Star", "Slash", "Modulus", "LogOr", "LogAnd", "DoubleEquals", "NotEqual"}
  StringSizes = {0}
  MaxArgs = 0
  MaxNodes = 4
INVARIANTS
  ReservedRegisters Balanced RegistersAccounted JumpsLandInReach
PROPERTIES
  KeepsOperands
