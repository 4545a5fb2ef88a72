SPECIFICATION Spec
CONSTANTS
  v = v
  w = w
  x = x
  y = y
  z = z
  Types = {"u8", "i64"}
  Names = {v, w, x, y, z}
  FnNames = {"f"}
  Statements = {"let", "if", "call"}
  Operands = {"literal", "binary", "call"}
  Arguments = {"literal", "call"}
  Operators = {"LogOr"}
  StringSizes = {0}
  MaxArgs = 5
  MaxNodes = 6
SYMMETRY Interchangeable
INVARIANTS
  SlotsDisjoint SlotsInFrame ScopesFollowBodies CallModeInCalls
