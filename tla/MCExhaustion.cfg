SPECIFICATION FairSpec
CONSTANTS
  x = x
  Types = {"i32"}
  Names = {x}
  FnNames = {"f"}
  Statements = {"ret", "expr"}
  Operands = {"literal"}
  Arguments = {"literal"}
  Operators = {"Plus"}
  StringSizes = {0}
  MaxArgs = 0
  MaxNodes = 28
INVARIANTS
  ThrowsOnlyWhenFull
PROPERTIES
  Finishes
