------------------------------ MODULE CronRunner ------------------------------
(***************************************************************************)
(* Scheduled jobs: the runner of the leading daemon, its one timer, manual *)
(* runs, and the commands that edit the table meanwhile                    *)
(* (src/src/cron/runner.ts, cron-db.ts, schedule.ts).                      *)
(*                                                                         *)
(* A handler reads the row it works on before it awaits the publication,   *)
(* and writes the next run from what it read.  A step is what one daemon,  *)
(* or one command, does up to its next await.                              *)
(*                                                                         *)
(* No name is also one of TriggerRunner, which is proved about beside it.  *)
(***************************************************************************)
EXTENDS Integers, FiniteSetsExt

CONSTANTS
  Daemons,
  Jobs,
  Schedules,       \* records of a type and a number: interval, time, or period
  DeleteAfterRun,  \* the jobs that were created with this flag
  Horizon,         \* bound: the time at which the clock stops
  MaxDelay,        \* the longest delay a timer of the JavaScript engine has
  MaxMishaps,      \* bound: stops, crashes and lost refreshes
  MaxCommands,     \* bound: commands after the creation of the jobs
  Nobody, Never, NotYet, Gone

ASSUME CronAssumption ==
  /\ Nobody \notin Daemons /\ DeleteAfterRun \subseteq Jobs
  /\ Horizon \in Nat /\ MaxDelay \in Nat \ {0} /\ MaxMishaps \in Nat /\ MaxCommands \in Nat
  /\ IsFiniteSet(Schedules) /\ Never \notin Nat
  /\ \A s \in Schedules : s.type \in {"at", "every", "cron"} /\ s.n \in Nat \ {0}

VARIABLES
  now,
  rows,         \* the table cron_jobs
  leader,       \* the daemon whose runner runs (LeaderElection: one at a time)
  timer,        \* when its timer fires
  todo,         \* runDueJobs: rows as they were read, not yet executed
  exec,         \* executeJob, for the timer and for manual runs
  edited,       \* the leader has yet to hear of a change of the table
  wanted,       \* manual runs it has yet to make
  used,         \* mishaps and commands so far
  fired,        \* history: the last run time the timer has published, by job
  again,        \* history: jobs that may fire a run time again: overwritten, or cut off
  overwritten,  \* history: jobs whose row a handler wrote from what it had read before an edit,
                \* until an edit finds no handler with such a row
  unheard       \* history: the leader missed a refresh

processes == <<leader, timer, todo, exec>>
messages == <<edited, wanted>>
history == <<fired, again, overwritten, unheard>>
cronVars == <<now, rows, processes, messages, used, history>>

Lanes == {"timer", "manual"}
Times == 0 .. Horizon + (2 + MaxCommands) * Max({s.n : s \in Schedules})

Row == [schedule : Schedules, enabled : BOOLEAN, next : Times \cup {Never}]
Snapshot == [job : Jobs, schedule : Schedules, next : Times \cup {Never}]
Idle == [at |-> "idle"]
Execution == {Idle} \cup [at : {"publishing", "answered", "refused"}, of : Snapshot, started : Times]

Present(j) == rows[j] \notin {NotYet, Gone}
Scheduled(j) == Present(j) /\ rows[j].enabled /\ rows[j].next # Never

Read(j) == [job |-> j, schedule |-> rows[j].schedule, next |-> rows[j].next]

CronInit ==
  /\ now = 0
  /\ rows = [j \in Jobs |-> NotYet]
  /\ leader = Nobody /\ timer = Never
  /\ todo = [d \in Daemons |-> {}] /\ exec = [d \in Daemons |-> [l \in Lanes |-> Idle]]
  /\ edited = FALSE /\ wanted = {}
  /\ used = [mishaps |-> 0, commands |-> 0]
  /\ fired = [j \in Jobs |-> Never] /\ again = {} /\ overwritten = {} /\ unheard = FALSE

Mishap == used.mishaps < MaxMishaps /\ used' = [used EXCEPT !.mishaps = @ + 1]
Command == used.commands < MaxCommands /\ used' = [used EXCEPT !.commands = @ + 1]

TimePasses ==
  /\ now < Horizon /\ now' = now + 1
  /\ UNCHANGED <<rows, processes, messages, used, history>>

calculateNextRun(s, from) ==
  CASE s.type = "every" -> from + s.n
    [] s.type = "at"    -> IF s.n > from THEN s.n ELSE Never
    [] s.type = "cron"  -> (from \div s.n + 1) * s.n

------------------------------------------------------------------------------
(* The timer                                                                *)

\* A delay that is too long for setTimeout is one of a millisecond.
SetTimeout(delay) == now + IF delay > MaxDelay THEN 1 ELSE delay

\* when armTimer, that finds the rows r, has the timer fire
NextDue(r) ==
  LET nexts == {r[j].next : j \in {k \in Jobs : r[k] \notin {NotYet, Gone} /\ r[k].enabled}} \ {Never}
  IN IF nexts = {} THEN Never ELSE SetTimeout(Max({0, Min(nexts) - now}))

ArmsIdleTimer(r) ==
  /\ timer' = IF timer = Never THEN NextDue(r) ELSE timer
  /\ unheard' = FALSE

ArmTimer(r) == timer' = NextDue(r) /\ unheard' = FALSE

Start(d) ==
  /\ leader = Nobody /\ exec[d] = [l \in Lanes |-> Idle]
  /\ leader' = d
  /\ ArmTimer(rows)
  /\ UNCHANGED <<now, rows, todo, exec, messages, used, fired, again, overwritten>>

\* Messages go to whoever subscribes.
Ends ==
  /\ leader' = Nobody /\ timer' = Never /\ unheard' = FALSE
  /\ edited' = FALSE /\ wanted' = {}
  /\ again' = again \cup {exec[leader][l].of.job : l \in {k \in Lanes : exec[leader][k] # Idle}}
  /\ UNCHANGED <<now, rows, fired, overwritten>>

\* stop does not wait for the jobs that are being executed, and the next leader
\* may find them due.
Stop ==
  /\ leader # Nobody /\ Mishap
  /\ Ends
  /\ UNCHANGED <<todo, exec>>

Crash ==
  /\ leader # Nobody /\ Mishap
  /\ Ends
  /\ todo' = [todo EXCEPT ![leader] = {}]
  /\ exec' = [exec EXCEPT ![leader] = [l \in Lanes |-> Idle]]

\* the loop of runDueJobs, with the rows r: the next job of rest, or its finally
Loops(d, rest, r) ==
  IF leader = d /\ rest # {}
    THEN \E s \in rest :
           /\ \A other \in rest : s.next <= other.next
           /\ todo' = [todo EXCEPT ![d] = rest \ {s}]
           /\ exec' = [exec EXCEPT ![d]["timer"] = [at |-> "publishing", of |-> s, started |-> now]]
           /\ UNCHANGED <<timer, unheard>>
    ELSE /\ todo' = [todo EXCEPT ![d] = {}]
         /\ exec' = [exec EXCEPT ![d]["timer"] = Idle]
         /\ IF leader = d THEN ArmTimer(r) ELSE UNCHANGED <<timer, unheard>>

dbGetDueJobs == {Read(j) : j \in {k \in Jobs : Scheduled(k) /\ rows[k].next <= now}}

TimerIsUp(d) == leader = d /\ timer # Never /\ timer <= now

FiresWhileProcessing(d) ==
  /\ TimerIsUp(d)
  /\ Loops(d, dbGetDueJobs, rows)
  /\ UNCHANGED <<now, rows, leader, messages, used, fired, again, overwritten>>

\* While jobs are being processed the timer comes to nothing: it is armed again
\* after them.
RunDueJobs(d) ==
  /\ TimerIsUp(d)
  /\ IF exec[d]["timer"] = Idle
       THEN Loops(d, dbGetDueJobs, rows)
       ELSE timer' = Never /\ UNCHANGED <<todo, exec, unheard>>
  /\ UNCHANGED <<now, rows, leader, messages, used, fired, again, overwritten>>

------------------------------------------------------------------------------
(* executeJob                                                               *)

\* The prompt is published, or not, and the daemon learns of it, or not.
Publish(d, l, stored, answer) ==
  /\ exec[d][l].at = "publishing"
  /\ stored \/ answer = "refused"
  /\ exec' = [exec EXCEPT ![d][l].at = answer]
  /\ LET s == exec[d][l].of
     IN fired' = IF stored /\ l = "timer" THEN [fired EXCEPT ![s.job] = s.next] ELSE fired
  /\ UNCHANGED <<now, rows, leader, timer, todo, messages, used, again, overwritten, unheard>>

BaseTime(x) == IF x.of.schedule.type = "every" /\ x.of.next # Never THEN x.of.next ELSE x.started

\* what dbUpdateJobState and dbDeleteCronJob leave of the row
Settled(x) ==
  LET j == x.of.job
  IN IF ~Present(j) THEN rows[j]
     ELSE IF x.at = "answered" /\ (j \in DeleteAfterRun \/ x.of.schedule.type = "at") THEN Gone
     ELSE [rows[j] EXCEPT !.next = calculateNextRun(x.of.schedule, BaseTime(x))]

\* The row has changed while this one published, and is written as if it had not.
Overwritten(x) ==
  LET j == x.of.job
  IN IF Present(j) /\ Read(j) # x.of /\ Settled(x) # rows[j] THEN {j} ELSE {}

Settle(d, l) ==
  /\ exec[d][l].at \in {"answered", "refused"}
  /\ LET x == exec[d][l]
         r == [rows EXCEPT ![x.of.job] = Settled(x)]
     IN /\ rows' = r
        /\ overwritten' = overwritten \cup Overwritten(x) /\ again' = again \cup Overwritten(x)
        /\ IF l = "timer"
             THEN Loops(d, todo[d], r)
             ELSE exec' = [exec EXCEPT ![d][l] = Idle] /\ UNCHANGED <<timer, todo, unheard>>
  /\ UNCHANGED <<now, leader, messages, used, fired>>

\* triggerJob: no flag keeps it from a job that is being processed, and the timer
\* is not armed again.
TriggerJob(d, j) ==
  /\ leader = d /\ j \in wanted /\ exec[d]["manual"] = Idle
  /\ wanted' = wanted \ {j}
  /\ exec' = IF Present(j)
               THEN [exec EXCEPT ![d]["manual"] = [at |-> "publishing", of |-> Read(j), started |-> now]]
               ELSE exec
  /\ UNCHANGED <<now, rows, leader, timer, todo, edited, used, history>>

RefreshTimers ==
  /\ edited /\ edited' = FALSE
  /\ ArmTimer(rows)
  /\ UNCHANGED <<now, rows, leader, todo, exec, wanted, used, fired, again, overwritten>>

\* The subscription has failed, or the command ended before it could signal.
RefreshMissed ==
  /\ edited /\ Mishap
  /\ edited' = FALSE /\ unheard' = TRUE
  /\ UNCHANGED <<now, rows, processes, wanted, fired, again, overwritten>>

------------------------------------------------------------------------------
(* Commands                                                                 *)

\* the jobs of which a handler has a row, from before the edit
Executed == {j \in Jobs : \E d \in Daemons, l \in Lanes : exec[d][l] # Idle /\ exec[d][l].of.job = j}

Writes(j, row) ==
  /\ rows' = [rows EXCEPT ![j] = row]
  /\ edited' = (leader # Nobody)
  /\ UNCHANGED <<now, processes, wanted, fired, again, unheard>>

CreatesUnscheduled(j, s) ==
  /\ rows[j] = NotYet
  /\ Writes(j, [schedule |-> s, enabled |-> TRUE])
  /\ UNCHANGED <<used, overwritten>>

dbCreateCronJob(j, s) ==
  /\ rows[j] = NotYet
  /\ Writes(j, [schedule |-> s, enabled |-> TRUE, next |-> calculateNextRun(s, now)])
  /\ UNCHANGED <<used, overwritten>>

KeepsNextRun(j, s, enabled) ==
  /\ Present(j) /\ Command
  /\ Writes(j, [rows[j] EXCEPT !.schedule = s, !.enabled = enabled])
  /\ overwritten' = overwritten \ ({j} \ Executed)

\* A new schedule, or the old one of a job that is enabled again
dbUpdateCronJob(j, s, enabled) ==
  /\ Present(j) /\ Command
  /\ Writes(j, [schedule |-> s, enabled |-> enabled, next |-> calculateNextRun(s, now)])
  /\ overwritten' = overwritten \ ({j} \ Executed)

Disable(j) ==
  /\ Present(j) /\ Command
  /\ Writes(j, [rows[j] EXCEPT !.enabled = FALSE])
  /\ UNCHANGED overwritten

dbDeleteCronJob(j) ==
  /\ Present(j) /\ Command
  /\ Writes(j, Gone)
  /\ UNCHANGED overwritten

RunNow(j) ==
  /\ Present(j) /\ Command
  /\ wanted' = IF leader = Nobody THEN wanted ELSE wanted \cup {j}
  /\ UNCHANGED <<now, rows, processes, edited, history>>

------------------------------------------------------------------------------

Edits(j) ==
  \/ \E s \in Schedules : \/ dbCreateCronJob(j, s)
                          \/ Present(j) /\ dbUpdateCronJob(j, s, rows[j].enabled)
  \/ Present(j) /\ dbUpdateCronJob(j, rows[j].schedule, TRUE)
  \/ Disable(j) \/ dbDeleteCronJob(j) \/ RunNow(j)

Executes(d, l) ==
  \/ \E stored \in BOOLEAN, answer \in {"answered", "refused"} : Publish(d, l, stored, answer)
  \/ Settle(d, l)

CronNext ==
  \/ TimePasses \/ Stop \/ Crash \/ RefreshTimers \/ RefreshMissed
  \/ \E j \in Jobs : Edits(j)
  \/ \E d \in Daemons : \/ Start(d) \/ RunDueJobs(d)
                        \/ \E l \in Lanes : Executes(d, l)
                        \/ \E j \in Jobs : TriggerJob(d, j)

CronSpec == CronInit /\ [][CronNext]_cronVars

------------------------------------------------------------------------------
(* Properties                                                               *)

\* The table and the runners hold what they are declared to hold.
CronTypeOK ==
  /\ now \in 0 .. Horizon
  /\ rows \in [Jobs -> Row \cup {NotYet, Gone}]
  /\ leader \in Daemons \cup {Nobody} /\ timer \in Times \cup {Never}
  /\ todo \in [Daemons -> SUBSET Snapshot] /\ exec \in [Daemons -> [Lanes -> Execution]]
  /\ edited \in BOOLEAN /\ wanted \subseteq Jobs
  /\ used \in [mishaps : 0 .. MaxMishaps, commands : 0 .. MaxCommands]
  /\ fired \in [Jobs -> Times \cup {Never}]
  /\ again \cup overwritten \subseteq Jobs /\ unheard \in BOOLEAN

\* The timer of the leader is never late: unless it is processing jobs, or has yet
\* to hear of an edit, it fires for the first scheduled job when that is due, or
\* before.
TimerCoversJobs ==
  (leader # Nobody /\ exec[leader]["timer"] = Idle /\ ~edited /\ ~unheard) =>
    \A j \in Jobs \ overwritten :
      Scheduled(j) => timer # Never /\ timer <= Max({now, rows[j].next})

\* The timer publishes the run times of a job in their order, and each of them
\* once, unless a daemon ended before it wrote the next one, or the row was
\* overwritten.
FiresOnce ==
  \A d \in Daemons : exec[d]["timer"].at = "publishing" =>
    LET s == exec[d]["timer"].of
    IN s.job \notin again /\ fired[s.job] # Never => fired[s.job] < s.next

\* The run time of a job is one of its schedule, and an edit leaves none of the
\* old one behind, unless the edit was overwritten.
NextFitsSchedule ==
  \A j \in Jobs \ overwritten : Scheduled(j) =>
    LET s == rows[j].schedule
    IN /\ s.type = "at" => rows[j].next = s.n
       /\ s.type = "cron" => rows[j].next % s.n = 0
       /\ s.type = "every" => rows[j].next <= now + s.n * (1 + used.commands)

==============================================================================
