SPECIFICATION Spec
CONSTANTS
  a = a
  b = b
  p1 = p1
  p2 = p2
  Tasks = {a, b}
  Edges <- Circle
  ByHand = {b}
  Procs = {p1, p2}
  NoTask = NoTask
INVARIANT TypeOK
INVARIANT WaitsForUndone
INVARIANT NoStrandedPlan
INVARIANT NoCircle
\* the processes are alike
SYMMETRY Symmetric
\* all tasks may be over
CHECK_DEADLOCK FALSE
