SPECIFICATION FairSpec
CONSTANTS
  Prompts = {m1, m2}
  Poison = {m2}
  Daemons = {d1, d2}
  MaxAge = 1
  AckWait = 5
  MaxFaults = 2
INVARIANT TypeOK
INVARIANT HandledOnce
PROPERTY HandledAfterFaults
