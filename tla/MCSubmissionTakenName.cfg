SPECIFICATION Spec
CONSTANTS
  Form = {f1}
  Name = {n1, n2}
  MaxDocs = 2
  MaxIds = 3
  MaxGivenUp = 0
  None = None
INVARIANTS
  UploadsMeetFreeNames
CHECK_DEADLOCK FALSE
