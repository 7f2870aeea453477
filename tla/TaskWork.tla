------------------------------- MODULE TaskWork -------------------------------
(***************************************************************************)
(* The work on one task: its assignments to sessions, the prompts that     *)
(* carry it there, reports, blocks and checkpoints                         *)
(* (src/src/tasks/task-db.ts, service.ts, checkpoint-runner.ts).           *)
(*                                                                         *)
(* Operators and agents run commands in processes of their own, the daemon *)
(* takes the prompts, sweeps the checkpoints and recovers after a restart; *)
(* all share one SQLite file without a transaction.  Most functions write  *)
(* the task and its assignments with one UPDATE each: a step is one write, *)
(* or the reads before the first.  Between two steps of a process others   *)
(* read and write, for as long as a writer waits for the lock, and the     *)
(* process may end.  Whether the task may start, and which process decides *)
(* it, is in TaskLaunch.                                                   *)
(***************************************************************************)
EXTENDS FiniteSets

CONSTANTS
  Sessions,
  Procs,      \* processes that run commands
  Dispatchers,  \* those of them that may dispatch the task
  Daemon,     \* the process that runs the sessions
  NoSession

ASSUME SessionsAssumption == NoSession \notin Sessions /\ Sessions \cap {"none", "listed"} = {}
ASSUME ProcsAssumption == Dispatchers \subseteq Procs /\ Daemon \notin Procs

VARIABLES
  status,     \* of the task
  rows,       \* its active rows in task_assignments, by the process that inserted them
  proc,       \* what each process is in the middle of
  prompts,    \* sessions for which a prompt with this task is in the stream
  recovery,   \* a restarted daemon has listed the task, or found its session
  torn,       \* history: a write fell between the writes of another function
  forgotten   \* history: nobody looks after the assignment, and why is known

tables == <<status, rows>>
stream == <<prompts, recovery>>
vars == <<tables, proc, stream, torn, forgotten>>

Everyone == Procs \cup {Daemon}

Active == {"dispatched", "in_progress", "blocked"}
Terminal == {"done", "failed"}
Statuses == {"open"} \cup Active \cup Terminal

\* A process supersedes what is active before it inserts a row, so each has at most
\* one.  due: checkpoint_due_at is null, ahead or past
Assignment == [session : Sessions \cup {NoSession},
               state : {"none", "assigned", "accepted", "blocked"},
               due : {"null", "ahead", "past"}]

NoRow == [session |-> NoSession, state |-> "none", due |-> "null"]

ActiveRow(o) == rows[o].state # "none"

\* what a process is about to write, before its first write and after it
First == {"resuming", "superseding", "reporting", "blocking", "ending", "accepting"}
Middle == {"resumingRows", "inserting", "dispatching", "reportingRows", "blockingRows",
           "endingRows", "acceptingTask"}

Places == {"idle", "publishing"} \cup First \cup Middle

\* bound: the row, if any, that the daemon has found for the prompt
Process == [at : Places, session : Sessions \cup {NoSession}, bound : SUBSET Dispatchers]

Idle == [at |-> "idle", session |-> NoSession, bound |-> {}]

Init ==
  /\ status = "open" /\ rows = [o \in Dispatchers |-> NoRow]
  /\ proc = [p \in Everyone |-> Idle]
  /\ prompts = {} /\ recovery = "none"
  /\ torn = FALSE /\ forgotten = FALSE

Runs(p, at) == proc[p].at = at
Goes(p, at) == proc' = [proc EXCEPT ![p].at = at]
Ends(p) == proc' = [proc EXCEPT ![p] = Idle]

Between(p) == \E q \in Everyone \ {p} : proc[q].at \in Middle

\* A write of p: torn, if it falls between two writes of another process.  What
\* writes everything anew starts from nothing.
Tears(p) == torn' = (torn \/ Between(p))
Renews(p) == torn' = Between(p)

\* nothing but a prompt for s starts the work, and the checkpoints
Awaited(s) == \E o \in Dispatchers : ActiveRow(o) /\ rows[o].session = s /\ rows[o].due = "null"

------------------------------------------------------------------------------
(* dispatchTask                                                             *)

AcceptedKeepsDue(r) == IF r.state \in {"assigned", "blocked"} THEN [r EXCEPT !.state = "accepted"] ELSE r

\* what resumes, reports and a bootstrap make of an active row
Accepted(r) ==
  IF r.state \in {"assigned", "blocked"} THEN [r EXCEPT !.state = "accepted", !.due = "ahead"] ELSE r

\* A blocked task is resumed first.
DispatchTask(p, s) ==
  /\ Runs(p, "idle") /\ p \in Dispatchers
  /\ proc' = [proc EXCEPT ![p] = [at |-> IF status = "blocked" THEN "resuming" ELSE "superseding",
                                  session |-> s, bound |-> {}]]
  /\ UNCHANGED <<tables, stream, torn, forgotten>>

dbAutoResumeBlockedTask(p) ==
  /\ Runs(p, "resuming")
  /\ status' = IF status = "blocked" THEN "in_progress" ELSE status
  /\ Tears(p) /\ Goes(p, "resumingRows")
  /\ UNCHANGED <<rows, stream, forgotten>>

\* A row that is not blocked stays as it is.
ResumesRows(p) ==
  /\ Runs(p, "resumingRows")
  /\ rows' = [o \in Dispatchers |-> IF rows[o].state = "blocked" THEN Accepted(rows[o]) ELSE rows[o]]
  /\ forgotten' = (forgotten /\ \A o \in Dispatchers : rows[o].state # "blocked")
  /\ IF p \in Procs /\ proc[p].session \in Sessions THEN Goes(p, "superseding") ELSE Ends(p)
  /\ Tears(p)
  /\ UNCHANGED <<status, stream>>

\* Whatever the task has become since, its active rows are superseded ...
dbDispatchTask(p) ==
  /\ Runs(p, "superseding")
  /\ rows' = [o \in Dispatchers |-> NoRow]
  /\ Renews(p) /\ Goes(p, "inserting")
  /\ UNCHANGED <<status, stream, forgotten>>

\* ... a row is inserted, which no binding of the daemon can mean ...
InsertsRow(p) ==
  /\ Runs(p, "inserting")
  /\ rows' = [rows EXCEPT ![p] = [session |-> proc[p].session, state |-> "assigned", due |-> "null"]]
  /\ proc' = [proc EXCEPT ![p].at = "dispatching", ![Daemon].bound = @ \ {p}]
  /\ Tears(p)
  /\ UNCHANGED <<status, stream, forgotten>>

\* ... and it is dispatched.
WritesDispatched(p) ==
  /\ Runs(p, "dispatching")
  /\ status' = "dispatched" /\ forgotten' = FALSE
  /\ Tears(p) /\ Goes(p, "publishing")
  /\ UNCHANGED <<rows, stream>>

PublishTaskSessionPrompt(p) ==
  /\ Runs(p, "publishing")
  /\ prompts' = prompts \cup {proc[p].session}
  /\ Ends(p)
  /\ UNCHANGED <<tables, recovery, torn, forgotten>>

\* A process ends, or its prompt finds no stream.
Crash(p) ==
  /\ ~Runs(p, "idle")
  /\ torn' = (torn \/ proc[p].at \in Middle)
  /\ forgotten' = (forgotten \/ (proc[p].at \in {"publishing", "accepting"} /\ Awaited(proc[p].session)))
  /\ Ends(p)
  /\ UNCHANGED <<tables, stream>>

------------------------------------------------------------------------------
(* The runtime that takes the prompt                                        *)

BindsDispatchedOnly(s) ==
  /\ Runs(Daemon, "idle") /\ s \in prompts
  /\ prompts' = prompts \ {s}
  /\ IF status = "dispatched"
       THEN \E o \in Dispatchers : ActiveRow(o) /\ rows[o].session = s
              /\ proc' = [proc EXCEPT ![Daemon] = [at |-> "accepting", session |-> s, bound |-> {o}]]
       ELSE UNCHANGED proc
  /\ UNCHANGED <<tables, recovery, torn, forgotten>>

BoundRows(s) == {o \in Dispatchers : ActiveRow(o) /\ rows[o].session = s}

\* markRuntimeTaskAcceptedForPrompt.  A session that has been replaced gets the
\* prompt all the same, and changes nothing.
dbMarkTaskAcceptedForSession(s) ==
  /\ Runs(Daemon, "idle") /\ s \in prompts
  /\ prompts' = prompts \ {s}
  /\ \/ \E o \in BoundRows(s) :
          /\ status \in Active
          /\ proc' = [proc EXCEPT ![Daemon] =
               [at |-> IF status = "blocked" THEN "resuming" ELSE "accepting",
                session |-> s, bound |-> {o}]]
     \/ ~(status \in Active /\ BoundRows(s) # {}) /\ UNCHANGED proc
  /\ UNCHANGED <<tables, recovery, torn, forgotten>>

\* The row found before, if it is active still: one blocked meanwhile is accepted.
AcceptsRow ==
  /\ Runs(Daemon, "accepting")
  /\ rows' = [o \in Dispatchers |-> IF o \in proc[Daemon].bound THEN Accepted(rows[o]) ELSE rows[o]]
  /\ forgotten' = (forgotten /\ \A o \in proc[Daemon].bound : ~ActiveRow(o))
  /\ Tears(Daemon) /\ Goes(Daemon, "acceptingTask")
  /\ UNCHANGED <<status, stream>>

AcceptsTask ==
  /\ Runs(Daemon, "acceptingTask")
  /\ status' = IF status = "dispatched" THEN "in_progress" ELSE status
  /\ Tears(Daemon) /\ Ends(Daemon)
  /\ UNCHANGED <<rows, stream, forgotten>>

\* max_age, or a daemon that dies with it
PromptLost(s) ==
  /\ s \in prompts
  /\ prompts' = prompts \ {s}
  /\ forgotten' = (forgotten \/ Awaited(s))
  /\ UNCHANGED <<tables, proc, recovery, torn>>

------------------------------------------------------------------------------
(* Commands that see a task that is not over, and write it and its rows     *)

Checks(p, at, s) ==
  /\ Runs(p, "idle") /\ status \notin Terminal
  /\ proc' = [proc EXCEPT ![p] = [at |-> at, session |-> s, bound |-> {}]]
  /\ UNCHANGED <<tables, stream, torn, forgotten>>

WritesTask(p, at, new, then) ==
  /\ Runs(p, at)
  /\ status' = new
  /\ Goes(p, then)
  /\ UNCHANGED <<rows, stream, forgotten>>

dbReportTaskProgress(p) ==
  Tears(p) /\ WritesTask(p, "reporting", "in_progress", "reportingRows")

\* The rows of the session that reports, or all, for a report of nobody.
Reported(p) ==
  {o \in Dispatchers : ActiveRow(o) /\ proc[p].session \in {rows[o].session, NoSession}}

ReportsRows(p) ==
  /\ Runs(p, "reportingRows")
  /\ rows' = [o \in Dispatchers |-> IF o \in Reported(p) THEN [rows[o] EXCEPT !.state = "accepted", !.due = "ahead"]
                              ELSE rows[o]]
  /\ forgotten' = IF \E o \in Dispatchers \ Reported(p) : rows[o].state = "blocked" THEN TRUE
                  ELSE forgotten /\ Reported(p) = {}
  /\ Tears(p) /\ Ends(p)
  /\ UNCHANGED <<status, stream>>

\* The daemon may have found the task before, and accept a row of it next.
dbBlockTask(p) ==
  /\ torn' = (torn \/ Between(p) \/ Runs(Daemon, "accepting"))
  /\ WritesTask(p, "blocking", "blocked", "blockingRows")

BlocksRows(p) ==
  /\ Runs(p, "blockingRows")
  /\ rows' = [o \in Dispatchers |-> IF ActiveRow(o) THEN [rows[o] EXCEPT !.state = "blocked", !.due = "null"]
                              ELSE rows[o]]
  /\ Tears(p) /\ Ends(p)
  /\ UNCHANGED <<status, stream, forgotten>>

EndsTask(p, outcome) == Renews(p) /\ WritesTask(p, "ending", outcome, "endingRows")

dbCompleteTask(p) == EndsTask(p, "done")

dbFailTask(p) == EndsTask(p, "failed")

EndsNoRow(p) ==
  /\ Runs(p, "endingRows")
  /\ Tears(p) /\ Ends(p)
  /\ UNCHANGED <<tables, stream, forgotten>>

EndsRows(p) ==
  /\ Runs(p, "endingRows")
  /\ rows' = [o \in Dispatchers |-> NoRow]
  /\ Tears(p) /\ Ends(p)
  /\ UNCHANGED <<status, stream, forgotten>>

\* A comment on a blocked task resumes it.
CommentTask(p) ==
  /\ Runs(p, "idle") /\ status = "blocked"
  /\ Goes(p, "resuming")
  /\ UNCHANGED <<tables, stream, torn, forgotten>>

------------------------------------------------------------------------------
(* The daemon                                                               *)

CheckpointPasses(o) ==
  /\ rows[o].due = "ahead"
  /\ rows' = [rows EXCEPT ![o].due = "past"]
  /\ UNCHANGED <<status, proc, stream, torn, forgotten>>

\* TaskCheckpointRunner.sweep: the next checkpoint, in one UPDATE that sees that the
\* row is the one that was read, and a reminder to the session
dbRegisterTaskCheckpointMiss(o) ==
  /\ status \in {"dispatched", "in_progress"}
  /\ rows[o].due = "past" /\ rows[o].state \in {"assigned", "accepted"}
  /\ rows' = [rows EXCEPT ![o].due = "ahead"]
  /\ UNCHANGED <<status, proc, stream, torn, forgotten>>

\* recoverActiveTasksAfterRestart, its first half: what was listed ...
RecoveryLists ==
  /\ recovery = "none" /\ status \in {"dispatched", "in_progress"}
  /\ recovery' = "listed"
  /\ UNCHANGED <<tables, proc, prompts, torn, forgotten>>

RecoverAnyRow ==
  /\ recovery = "listed"
  /\ \E o \in Dispatchers : recovery' = rows[o].session
  /\ UNCHANGED <<tables, proc, prompts, torn, forgotten>>

\* ... has an active row that is not stale, or is skipped ...
RecoverActiveTask ==
  /\ recovery = "listed"
  /\ \/ \E o \in Dispatchers : ActiveRow(o) /\ recovery' = rows[o].session
     \/ recovery' = "none"
  /\ UNCHANGED <<tables, proc, prompts, torn, forgotten>>

\* ... and that session is asked to go on.
PublishTaskResume(s) ==
  /\ recovery = s /\ recovery' = "none"
  /\ prompts' = prompts \cup {s}
  /\ forgotten' = (forgotten /\ ~Awaited(s))
  /\ UNCHANGED <<tables, proc, torn>>

------------------------------------------------------------------------------

CommandStarts(p) ==
  \/ \E s \in Sessions : DispatchTask(p, s)
  \/ \E s \in Sessions \cup {NoSession} : Checks(p, "reporting", s)
  \/ \E at \in {"blocking", "ending"} : Checks(p, at, NoSession)
  \/ CommentTask(p)

CommandGoesOn(p) ==
  \/ dbDispatchTask(p) \/ InsertsRow(p) \/ WritesDispatched(p) \/ PublishTaskSessionPrompt(p)
  \/ dbReportTaskProgress(p) \/ ReportsRows(p)
  \/ dbBlockTask(p) \/ BlocksRows(p)
  \/ dbCompleteTask(p) \/ dbFailTask(p) \/ EndsRows(p)

Resumes(p) == dbAutoResumeBlockedTask(p) \/ ResumesRows(p)

GoesOn(p) == Resumes(p) \/ IF p = Daemon THEN AcceptsRow \/ AcceptsTask ELSE CommandGoesOn(p)

Runtime ==
  \E s \in Sessions : dbMarkTaskAcceptedForSession(s) \/ PromptLost(s) \/ PublishTaskResume(s)

Checkpoints ==
  \E o \in Dispatchers : CheckpointPasses(o) \/ dbRegisterTaskCheckpointMiss(o)

Next ==
  \/ \E p \in Procs : CommandStarts(p)
  \/ \E p \in Everyone : GoesOn(p) \/ Crash(p)
  \/ Runtime \/ Checkpoints
  \/ RecoveryLists \/ RecoverActiveTask

Spec == Init /\ [][Next]_vars

\* A process goes on unless it crashes, and the runtime takes its prompts.
FairSpec ==
  /\ Spec
  /\ \A p \in Everyone : WF_vars(GoesOn(p))
  /\ \A s \in Sessions : SF_vars(dbMarkTaskAcceptedForSession(s))

------------------------------------------------------------------------------
(* Properties                                                               *)

\* The tables and the processes hold what they are declared to hold.
TypeOK ==
  /\ status \in Statuses /\ rows \in [Dispatchers -> Assignment]
  /\ proc \in [Everyone -> Process]
  /\ prompts \subseteq Sessions /\ recovery \in {"none", "listed"} \cup Sessions
  /\ torn \in BOOLEAN /\ forgotten \in BOOLEAN

\* Nobody has written one table and not yet the other.
Whole == \A p \in Everyone : proc[p].at \notin Middle

\* The task and its rows tell the same story: a task that is over has no active row,
\* a dispatched one has a row that waits for its session, a blocked one no other
\* than blocked rows, and there is one row at most.  Only when a write fell between
\* the steps of another function, or a process ended between its writes, is this
\* lost, and then till the next dispatch or end that nobody disturbs.
RowFitsTask ==
  (Whole /\ ~torn) =>
    /\ \A o \in Dispatchers : ActiveRow(o) => status \in Active
    /\ \A o, q \in Dispatchers : ActiveRow(o) /\ ActiveRow(q) => o = q
    /\ status = "dispatched" => \E o \in Dispatchers : rows[o].state = "assigned"
    /\ status = "blocked" => \A o \in Dispatchers : rows[o].state \in {"none", "blocked"}

\* No assignment is forgotten: an active task that is not blocked has a checkpoint
\* that will be missed, or the prompt that starts it is on its way, or has just
\* come.  Otherwise it is known what went wrong: the prompt was lost, its process
\* died, another session reported for a blocked one, or functions were torn.
NotForgotten ==
  (status \in {"dispatched", "in_progress"} /\ Whole /\ ~torn /\ ~forgotten) =>
    \A o \in Dispatchers : ActiveRow(o) =>
      \/ rows[o].due # "null"
      \/ rows[o].session \in prompts
      \/ \E p \in Procs : Runs(p, "publishing") /\ proc[p].session = rows[o].session
      \/ Runs(Daemon, "accepting") /\ o \in proc[Daemon].bound

\* An assignment that was given out is taken up, taken back, forgotten or torn.
AssignmentTakenUp ==
  LET given == \E o \in Dispatchers : rows[o].state = "assigned"
  IN given ~> ~given \/ forgotten \/ torn

==============================================================================
