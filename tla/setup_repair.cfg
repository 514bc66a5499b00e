SPECIFICATION Spec
CONSTANTS
  Settings = {1, 2}
  MaxKeys = 3
INVARIANTS
  TypeOK
  ForcedSetupRepairs
PROPERTIES
  SecretBeforeKey
  SecretKept
  KeptUnlessForced
