SPECIFICATION FrontSpec
CONSTANTS
  Types = {"i64", "u8", "bool"}
  VarNames = {"x"}
  FnNames = {"f", "g"}
  Headers <- SomeHeaders
  Infix = {"Plus", "DoubleEquals", "Equals"}
  Statements = {"explicit", "inferred", "ret", "if", "expr"}
  Muts = {TRUE, FALSE}
  MaxArgs = 1
  MaxNodes = 8
  FewNodes = 5
CONSTRAINT Explored
INVARIANTS
  FrontTypeOK PrecedenceRespected TypesResolved BindingsAgree WellTyped
