SPECIFICATION Spec
CONSTANTS
  t1 = t1
  t2 = t2
  Tab <- Tabs
  MaxSessions = 2
  MaxLoads = 3
  AutoLogin = TRUE
  Nobody = Nobody
  Unknown = Unknown
PROPERTIES
  NoLoginScreen
CHECK_DEADLOCK FALSE
