SPECIFICATION Spec
CONSTANTS
  r1 = r1  r2 = r2  r3 = r3
  Request = {r1, r2, r3}
  Sessions = 2
INVARIANTS
  TypeOK
PROPERTIES
  AcceptedAnswered
  Ends
CHECK_DEADLOCK FALSE
