SPECIFICATION Spec
SYMMETRY TabSymmetry
VIEW HeldView
CONSTANTS
  t1 = t1
  t2 = t2
  Tab <- Tabs
  MaxSessions = 2
  MaxLoads = 2
  AutoLogin = TRUE
  Nobody = Nobody
  Unknown = Unknown
INVARIANTS
  TypeOK
  AttemptOnce
PROPERTIES
  EndedWhereShown
CHECK_DEADLOCK FALSE
