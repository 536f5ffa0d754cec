SPECIFICATION Spec
CONSTANTS
  Records = {p1, p2}
  Nobody = Nobody
CHECK_DEADLOCK FALSE
INVARIANT AckedIsALine
