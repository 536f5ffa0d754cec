SPECIFICATION Spec
CONSTANTS
  Records = {p1, p2, p3}
  Nobody = Nobody
CHECK_DEADLOCK FALSE
INVARIANTS
  TypeOK
  LinesContiguous
PROPERTY ImplementsDurableLog
