SPECIFICATION Spec
CONSTANTS
  v1 = v1  v2 = v2
  VM = {v1, v2}
  NoVM = NoVM
  Timeout = 4
  Duration = 1
  DeleteInPrepare = FALSE
  MaxEvents = 2
  MaxDowns = 2
PROPERTIES
  MountPathKept
