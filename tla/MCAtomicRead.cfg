SPECIFICATION FairSpec
CONSTANTS
  Writers = {w1}
  Readers = {"r1"}
  Jobs <- ThreeJobs
  Dest = "dest"
  Temps = {t1}
  Inodes = {i1, i2}
  NoInode = NoInode
  MaxParts = 2
  Truncations = TRUE
INVARIANT ReadsOneVersion
PROPERTY CallsReturn
