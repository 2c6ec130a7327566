SPECIFICATION Spec
CONSTANTS
  Callers = {t1, t2}
  Model = "model"
  Copy = "copy"
  EmptyFile = "empty"
  Paths = {"model", "copy", "empty"}
  Original <- Originals
  NoFile = NoFile
  Null = NULL
  t1 = t1
  t2 = t2
  CallsOf <- MCCallsOf
  Keys = {"k1", "k2"}
  CoreSize <- SizeOfCore
  EmptyCore = "nothing"
  MaxPlain = 1
  Framing = 1
INVARIANTS TypeOK ModelSurvives PlaintextIsPrivate
PROPERTIES OpenableFilesAreRead WholeOrUntouched
