SPECIFICATION Spec
CONSTANTS
  p1 = p1
  p2 = p2
  p3 = p3
  Processes = {p1, p2, p3}
  Byte <- MCByte
  CommandLines <- MCCommandLines
  Number <- Numbers
  ULL = 1073741824
  Original <- Files
  NoFile = NoFile
  Environment <- MCEnvironment
  Typed <- MCTyped
  RawKeys <- DrawnKeys
  kMaxKeyFileSize = 5
  MC_MIN_KEY_SIZE = 2
  ReadErrors = {"worn"}
  Signals = TRUE
  chr = chr
CHECK_DEADLOCK FALSE
INVARIANTS PlainKeyIsTheSource UsableKeysAreTaken ExitCodesTell
  EchoComesBack UsedKeysAreWiped NumbersAreInRange
PROPERTY KeysAreNotReplaced
