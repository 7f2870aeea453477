----------------------------- MODULE MCCronRunner -----------------------------
(* CronRunner for two daemons and jobs of each kind of schedule.             *)
EXTENDS CronRunner, TLC

CONSTANTS d1, d2, j1, j2

Every == [type |-> "every", n |-> 1]
At == [type |-> "at", n |-> 2]
Cron == [type |-> "cron", n |-> 2]
\* longer than the longest delay
Long == [type |-> "cron", n |-> 3]
AllSchedules == {Every, At, Cron, Long}
Intervals == {Every}

Symmetric == Permutations({d1, d2}) \cup Permutations({j1, j2})

===============================================================================
