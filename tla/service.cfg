SPECIFICATION FairSpec
CONSTANTS
  v1 = v1  v2 = v2
  VM = {v1, v2}
  NoVM = NoVM
  Timeout = 4
  Duration = 1
  DeleteInPrepare = FALSE
  MaxEvents = 1
  MaxDowns = 2
INVARIANTS
  TypeOK
  TaskPerCall
  WaitIsBounded
PROPERTIES
  Exits
  MountPathRemoved
