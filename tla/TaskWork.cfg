SPECIFICATION FairSpec
CONSTANTS
  Sessions = {s1, s2}
  Procs = {p1, p2}
  Dispatchers = {p1}
  Daemon = Daemon
  NoSession = NoSession
\* the bound on how many are busy
CONSTRAINT AtMostTwo
INVARIANT TypeOK
INVARIANT RowFitsTask
INVARIANT NotForgotten
PROPERTY AssignmentTakenUp
