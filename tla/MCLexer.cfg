SPECIFICATION MCSpec
CONSTANTS
  Letters = {"i", "f"}
  Digits = {"8"}
  Files <- SomeFiles
  MaxPeek = 2
  ColumnLimit = 16
  Short = 3
  Long = 4
INVARIANTS LexerTypeOK ReadsInsideFile PositionsPointBack StringsUnescape
PROPERTIES KeepsStream CallsReturn
