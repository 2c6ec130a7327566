\* Two calls of Seal and any number of Open; lengths up to one more than an int.
SPECIFICATION Spec
CONSTANTS
  k1 = k1
  k2 = k2
  n1 = n1
  n2 = n2
  x = x
  y = y
  nullptr = nullptr
  Noise = Noise
  Keys = {k1, k2}
  Nonces = {n1, n2}
  Aads <- MCAads
  Texts <- MCTexts
  IntMax = 2
  MaxSeals = 2
SYMMETRY Symmetry

INVARIANTS OpenIsExact
PROPERTY ImplementsContract
