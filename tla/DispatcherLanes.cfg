SPECIFICATION LanesSpec
CONSTANTS
  Sessions = {s1, s2, s3, s4}
  Incs = {i1, i2, i3, i4}
  Prompts = {m1, m2, m3, m4}
  Background = {m3, m4}
  NoInc = NoInc
  NoSession = NoSession
  MaxSessions = 2
  Reserved = 1
  SettledGap = FALSE
SYMMETRY Symmetry
INVARIANT DrainIsTheLoop
PROPERTY ImplementsSlotPool
PROPERTY AdmittedInOrder
\* once the prompts have been handled nothing is left to do
CHECK_DEADLOCK FALSE
