SPECIFICATION Spec
CONSTANTS
  Types = {"i32"}
  Names = {1}
  FnNames = {"f"}
  Statements = {"call"}
  Operands = {"literal"}
  Arguments = {"literal", "binary"}
  Operators = {"Plus"}
  StringSizes = {0}
  MaxArgs = 1
  MaxNodes = 3
INVARIANT ArgumentsInOrder
