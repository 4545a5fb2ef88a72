SPECIFICATION Spec
CONSTANTS
  x = x
  Types = {"i32", "str"}
  Names = {x}
  FnNames = {"f", "g"}
  Statements = {"call", "let", "ret", "if"}
  Operands = {"literal", "identifier", "binary"}
  Arguments = {"literal", "identifier"}
  Operators = {"Minus", "DoubleEquals"}
  StringSizes = {0, 1}
  MaxArgs = 3
  MaxNodes = 4
INVARIANTS
  TypeOK ValuesHeld Balanced ArgumentsInOrder PatchSitesDisjoint StringsDistinct
