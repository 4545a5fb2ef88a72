SPECIFICATION Spec
CONSTANTS
  SectionOrders <- BothOrders
  SymbolNames <- ShortAndLongNames
  ContentSizes = {0, 6}
  Offsets = {4, 9}
  U16 = 65536
  MaxSymbols = 2
  MaxRelocations = 2
INVARIANTS ReadsBack SectionsNumbered StringTableSized
