SPECIFICATION Spec
CONSTANTS
  Allocator = {a1, a2, a3}
  Shape <- MCShape
  ArenaSize = 64
  PageSize = 32
  WordSize = 8
  Base = {32, 256}
  Data = Data
CONSTRAINT Bounds
SYMMETRY Symmetry
CHECK_DEADLOCK FALSE
INVARIANTS InOnePlace FreeLists ObjectsFit
