SPECIFICATION CronSpec
CONSTANTS
  d1 = d1
  d2 = d2
  j1 = j1
  j2 = j2
  Daemons = {d1, d2}
  Jobs = {j1, j2}
  Schedules <- AllSchedules
  DeleteAfterRun = {}
  Horizon = 2
  MaxDelay = 2
  MaxMishaps = 1
  MaxCommands = 1
  Nobody = Nobody
  Never = Never
  NotYet = NotYet
  Gone = Gone
INVARIANT CronTypeOK
INVARIANT TimerCoversJobs
INVARIANT FiresOnce
INVARIANT NextFitsSchedule
\* the daemons are alike, and so are the jobs
SYMMETRY Symmetric
\* the clock stops at the horizon
CHECK_DEADLOCK FALSE
