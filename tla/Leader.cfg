SPECIFICATION FairSpec
CONSTANTS
  Daemons = {d1, d2, d3}
  LeaseTTL = 3
  Renewal = 1
  Timely = TRUE
  MaxLost = 1
  MaxFaults = 3
INVARIANT TypeOK
INVARIANT AtMostOneRunner
INVARIANT LeaderHoldsLease
PROPERTY AlwaysLedAgain
