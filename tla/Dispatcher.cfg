SPECIFICATION Spec
CONSTANTS
  Sessions = {s1, s2}
  Incs = {i1, i2, i3}
  Prompts = {m1, m2}
  Background = {}
  NoInc = NoInc
  NoSession = NoSession
  MaxSessions = 1
  Reserved = 0
  SettledGap = FALSE
SYMMETRY Symmetry
INVARIANT TypeOK
INVARIANT PoolBound
INVARIANT WorkConserving
INVARIANT ReservationsOwned
INVARIANT NoStaleStartIndex
\* once the prompts have been handled nothing is left to do
CHECK_DEADLOCK FALSE
