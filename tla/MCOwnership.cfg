SPECIFICATION Spec
CONSTANTS
  Buffers = {b1, b2, b3}
  Blocks = {k1, k2}
  nullptr = nullptr
  MaxSize = 2
SYMMETRY Symmetry
INVARIANTS TypeOK OneOwner
PROPERTY BlocksChangeHandsClean
