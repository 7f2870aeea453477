SPECIFICATION Spec
CONSTANTS
  a = a
  b = b
  t1 = t1
  t2 = t2
  p1 = p1
  p2 = p2
  Nodes = {a, b}
  Tasks = {t1, t2}
  Procs = {p1, p2}
  Specs <- Shapes
  ByHand = {a}
  Awaited = {t1, t2}
  NoNode = NoNode
  NoTask = NoTask
SYMMETRY Symmetric
INVARIANT TypeOK
INVARIANT Settled
INVARIANT NotStuck
INVARIANT OneAttempt
PROPERTY OverStays
CONSTRAINT AtMostTwo
