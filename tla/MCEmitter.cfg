SPECIFICATION Spec
CONSTANTS
  Ops = {0, 1, 2, 3, 6}
  ByteOps = {1, 3, 6}
  Stored = {1, 6, 8, 15}
  Loaded = {1, 3, 6, 8, 10, 13}
  Displacements = {8, 127}
  Immediates = {77}
  MaxProgram = 2
INVARIANT BufferDecodes
