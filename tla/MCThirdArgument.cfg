SPECIFICATION Spec
CONSTANTS
  Types = {"i32"}
  Names = {1}
  FnNames = {"f"}
  Statements = {"call"}
  Operands = {"literal"}
  Arguments = {"literal"}
  Operators = {"Plus"}
  StringSizes = {0}
  MaxArgs = 3
  MaxNodes = 4
INVARIANT ArgumentsDelivered
