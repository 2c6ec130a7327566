SPECIFICATION Spec
CONSTANTS
  Writers = {w1, w2}
  Readers = {}
  Jobs <- TwoJobs
  Dest = "dest"
  Temps = {t1, t2}
  Inodes = {i1, i2, i3}
  NoInode = NoInode
  MaxParts = 2
  Truncations = FALSE
SYMMETRY Symmetry
INVARIANTS TypeOK PrivateStaysPrivate
PROPERTIES NoTempLeft ImplementsRegister
