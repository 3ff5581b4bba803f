SPECIFICATION Spec
SYMMETRY Symmetry
VIEW LateView
CONSTANTS
  Form = {f1, f2}
  Name = {n1, n2, n3}
  MaxDocs = 1
  MaxIds = 3
  MaxGivenUp = 1
  None = None
INVARIANTS
  TypeOK
  LimitByOverlap
  DoneIsWhole
CHECK_DEADLOCK FALSE
