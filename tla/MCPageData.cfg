SPECIFICATION FairSpec
CONSTANTS
  Site <- AllPages
  MaxRev = 2
  None = None
  Typed = Typed
INVARIANTS
  TypeOK
  ReadYourWrites
  FormFollowsData
PROPERTIES
  TypingIsKept
  SavesEnd
  Promised
CHECK_DEADLOCK FALSE
