CONSTANTS
  Names = {x, y}
  Elements = {p, q}
  N = 1
  Buffers = {b1, b2, b3}
  MaxSize = 3
  Junk = Junk
  None = None
SPECIFICATION Spec
INVARIANTS
  VecInv
PROPERTIES
  KeepsValues
