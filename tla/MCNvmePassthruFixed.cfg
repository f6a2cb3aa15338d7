\* Commands that combine a registered buffer with a vector.
SPECIFICATION Spec
CONSTANTS
  t1 = t1
  t2 = t2
  c1 = c1
  c2 = c2
  Tasks = {t1, t2}
  Cmds = {c1, c2}
  Inputs <- VectoredFixed
  Depth = 1
CHECK_DEADLOCK FALSE
INVARIANT
  FixedVectorHoldsNothing
