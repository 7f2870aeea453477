------------------------------ MODULE TaskLaunch ------------------------------
(***************************************************************************)
(* When a task may start: dependencies, launch plans and the commands that *)
(* dispatch (src/src/tasks/service.ts, task-db.ts).                        *)
(*                                                                         *)
(* Every command runs in a process of its own - the command line of an     *)
(* operator or of an agent, the daemon that recovers - and they share one  *)
(* SQLite file without a transaction.  Readers never wait there, a writer  *)
(* waits up to five seconds for the lock or throws: a step is one write,   *)
(* or the reads up to the next write, and between two steps of a process   *)
(* others read and write, and it may end.                                  *)
(* What a dispatched task goes through is in TaskWork: here it is active.  *)
(***************************************************************************)
EXTENDS Naturals, FiniteSets

CONSTANTS
  Tasks,
  Edges,     \* <<t, u>>: that t depends on u is what operators may ask for
  ByHand,    \* bound: the tasks that are dispatched, started, failed, archived by hand
  Procs,     \* processes that run a command
  NoTask

ASSUME TasksAssumption ==
  Edges \subseteq Tasks \X Tasks /\ ByHand \subseteq Tasks /\ NoTask \notin Tasks

VARIABLES
  status,     \* open; active: dispatched, in_progress or blocked; done; failed
  archived,
  needs,      \* task_dependencies
  satisfied,  \* those with satisfied_at
  recorded,   \* tasks with a task.done among their events
  planned,    \* tasks with a row in task_launch_plans
  proc,       \* what each process is in the middle of
  stranded,   \* history: planned tasks whose launch somebody gave up
  unheard,    \* history: done tasks whose completion went no further
  blind,      \* history: dependencies inserted after another one the check had not seen
  late        \* history: dependencies inserted as unsatisfied on a task done meanwhile

tables == <<status, archived, needs, satisfied, recorded, planned>>
history == <<stranded, unheard, blind, late>>
vars == <<tables, proc, history>>

Statuses == {"open", "active", "done", "failed"}

\* What a process is about to do: write a status, record that the task is done,
\* list its dependents, mark them; look at the tasks of todo one by one; take the
\* plan of a task, make it active; store a plan; insert or delete a dependency.
Places == {"idle", "writing", "recording", "satisfying", "marking", "reconciling", "relaunching",
           "dispatching", "launching", "planning", "inserting", "deleting"}

\* task: whose command it is; launch: the task it dispatches; todo: tasks to look
\* at; then: where a dispatch returns to; put: the status to write; edge, waited,
\* seen, resolved: the dependency, and what was read of it before
Command == [at : Places, task : Tasks \cup {NoTask}, launch : Tasks \cup {NoTask},
            todo : SUBSET Tasks, then : {"idle", "reconciling", "relaunching"},
            put : Statuses, edge : SUBSET Edges, waited : BOOLEAN, seen : SUBSET Edges,
            resolved : BOOLEAN]

Idle == [at |-> "idle", task |-> NoTask, launch |-> NoTask, todo |-> {}, then |-> "idle",
         put |-> "open", edge |-> {}, waited |-> FALSE, seen |-> {}, resolved |-> FALSE]

Unsatisfied(t) == {e \in needs \ satisfied : e[1] = t}
Ready(t) == status[t] = "open" /\ Unsatisfied(t) = {}

IsItself(t, u) == t = u

\* taskDependsOn: every set with t that dependencies do not leave has u in it
TaskDependsOn(t, u) ==
  \A S \in SUBSET Tasks : (t \in S /\ \A e \in needs : e[1] \in S => e[2] \in S) => u \in S

Init ==
  /\ status = [t \in Tasks |-> "open"]
  /\ archived = {} /\ needs = {} /\ satisfied = {} /\ recorded = {} /\ planned = {}
  /\ proc = [p \in Procs |-> Idle]
  /\ stranded = {} /\ unheard = {} /\ blind = {} /\ late = {}

Runs(p, at) == proc[p].at = at
Goes(p, command) == proc' = [proc EXCEPT ![p] = command]

\* A process that has written that t is done and has yet to tell those who wait.
Tells(p, t) == proc[p].at \in {"recording", "satisfying", "marking"} /\ proc[p].task = t

\* A command ends in the middle, and leaves what it had yet to do.
Dies(p) ==
  /\ Goes(p, Idle)
  /\ unheard' = unheard \cup {t \in Tasks : status[t] = "done" /\ Tells(p, t)}
  /\ stranded' = stranded \cup (planned \cap ({proc[p].launch} \cup proc[p].todo))

------------------------------------------------------------------------------
(* The status of a task, and whether it is archived                         *)

\* dbCompleteTask, dbFailTask, dbReportTaskProgress and dbBlockTask see that the
\* task is not over.  The last two ask for no dispatch: an open task starts.
ChecksStatus(p, t, put) ==
  /\ Runs(p, "idle") /\ status[t] \in {"open", "active"}
  /\ Goes(p, [Idle EXCEPT !.at = "writing", !.task = t, !.put = put])
  /\ UNCHANGED <<tables, history>>

\* The status is written whatever it is by now: a report may make a task that was
\* done since the check active again.
WritesStatus(p) ==
  /\ Runs(p, "writing")
  /\ LET t == proc[p].task
     IN /\ status' = [status EXCEPT ![t] = proc[p].put]
        /\ unheard' = unheard \ {t}
        /\ Goes(p, IF proc[p].put = "done" THEN [Idle EXCEPT !.at = "recording", !.task = t]
                   ELSE Idle)
  /\ UNCHANGED <<archived, needs, satisfied, recorded, planned, stranded, blind, late>>

dbArchiveTask(t) ==
  /\ t \notin archived
  /\ archived' = archived \cup {t}
  /\ UNCHANGED <<status, needs, satisfied, recorded, planned, proc, history>>

\* An unarchived task is launched by nobody, though it may have become ready.
dbUnarchiveTask(t) ==
  /\ t \in archived
  /\ archived' = archived \ {t}
  /\ stranded' = stranded \cup (planned \cap {t})
  /\ UNCHANGED <<status, needs, satisfied, recorded, planned, proc, unheard, blind, late>>

------------------------------------------------------------------------------
(* queueOrDispatchTask and dispatchTask                                     *)

QueueTaskLaunch(p, t) ==
  /\ Runs(p, "idle") /\ status[t] = "open" /\ Unsatisfied(t) # {} /\ t \notin archived
  /\ Goes(p, [Idle EXCEPT !.at = "planning", !.task = t])
  /\ UNCHANGED <<tables, history>>

\* The plan is stored even if the last dependency was satisfied meanwhile.
dbSetTaskLaunchPlan(p) ==
  /\ Runs(p, "planning")
  /\ LET t == proc[p].task
     IN /\ planned' = planned \cup {t}
        /\ stranded' = IF Unsatisfied(t) = {} THEN stranded \cup {t} ELSE stranded \ {t}
  /\ Goes(p, Idle)
  /\ UNCHANGED <<status, archived, needs, satisfied, recorded, unheard, blind, late>>

\* Only an open task has to wait: any other may be dispatched again.
DispatchTask(p, t) ==
  /\ Runs(p, "idle") /\ (status[t] = "open" => Unsatisfied(t) = {}) /\ t \notin archived
  /\ Goes(p, [Idle EXCEPT !.at = "dispatching", !.launch = t])
  /\ UNCHANGED <<tables, history>>

\* back to the rest of todo; with none left the command is over (emitMutationEvents
\* comes then: what waits for a task.done waits till here)
Returns(p, t) ==
  Goes(p, IF proc[p].todo \subseteq {t} THEN Idle
          ELSE [proc[p] EXCEPT !.at = proc[p].then, !.launch = NoTask, !.todo = @ \ {t}])

\* The plan is deleted whatever has become of the task since the check.
dbDispatchTask(p) ==
  /\ Runs(p, "dispatching")
  /\ LET t == proc[p].launch
     IN planned' = planned \ {t} /\ stranded' = stranded \ {t}
  /\ Goes(p, [proc[p] EXCEPT !.at = "launching"])
  /\ UNCHANGED <<status, archived, needs, satisfied, recorded, unheard, blind, late>>

\* Its last UPDATE, after the assignments.
MakesActive(p) ==
  /\ Runs(p, "launching")
  /\ status' = [status EXCEPT ![proc[p].launch] = "active"]
  /\ Returns(p, proc[p].launch)
  /\ UNCHANGED <<archived, needs, satisfied, recorded, planned, history>>

\* prepareTaskDispatchContext throws: no such agent, a session of another agent, a
\* profile that does not validate.  Recovery goes on with the next task; nobody
\* else catches it, and what the command had yet to do is not done.
DispatchThrows(p) ==
  /\ Runs(p, "dispatching")
  /\ IF proc[p].then = "relaunching"
       THEN /\ Returns(p, proc[p].launch)
            /\ stranded' = stranded \cup (planned \cap {proc[p].launch})
            /\ UNCHANGED unheard
       ELSE Dies(p)
  /\ UNCHANGED <<tables, blind, late>>

------------------------------------------------------------------------------
(* completeTask                                                             *)

\* appendTaskEvent, and the task as it is then: one that is not done after all
\* tells nobody.
RecordsDone(p) ==
  /\ Runs(p, "recording")
  /\ LET t == proc[p].task
     IN /\ recorded' = recorded \cup {t}
        /\ Goes(p, IF status[t] = "done" THEN [proc[p] EXCEPT !.at = "satisfying"] ELSE Idle)
  /\ UNCHANGED <<status, archived, needs, satisfied, planned, history>>

LooksAt(todo) ==
  IF todo = {} THEN Idle
  ELSE [Idle EXCEPT !.at = "reconciling", !.then = "reconciling", !.todo = todo]

Dependents(t) == {e[1] : e \in {d \in needs \ satisfied : d[2] = t}}

\* Without dependents nothing is written.
dbMarkTaskDependenciesSatisfiedByUpstream(p) ==
  /\ Runs(p, "satisfying")
  /\ LET found == Dependents(proc[p].task)
     IN Goes(p, IF found = {} THEN Idle ELSE [proc[p] EXCEPT !.at = "marking", !.todo = found])
  /\ UNCHANGED <<tables, history>>

\* The UPDATE is not bound to the rows that were listed: a dependency inserted since
\* is satisfied as well, and nobody looks at its task.
MarksSatisfied(p) ==
  /\ Runs(p, "marking")
  /\ satisfied' = satisfied \cup {e \in needs : e[2] = proc[p].task}
  /\ stranded' = stranded \cup (planned \cap (Dependents(proc[p].task) \ proc[p].todo))
  /\ Goes(p, LooksAt(proc[p].todo))
  /\ UNCHANGED <<status, archived, needs, recorded, planned, unheard, blind, late>>

\* One task of todo: it is launched if it has become ready, is not archived and
\* has a plan.
ReconcileTaskReadinessTransition(p, t) ==
  /\ Runs(p, "reconciling") /\ t \in proc[p].todo
  /\ IF Ready(t) /\ t \in planned \ archived
       THEN Goes(p, [proc[p] EXCEPT !.at = "dispatching", !.launch = t])
       ELSE Returns(p, t)
  /\ UNCHANGED <<tables, history>>

------------------------------------------------------------------------------
(* addTaskDependency and removeTaskDependency                               *)

Resolved(t) == status[t] = "done" /\ t \in recorded

\* The checks, and dbAddTaskDependency up to its INSERT: a dependency that is there
\* is left alone.
AddTaskDependency(p, e) ==
  /\ Runs(p, "idle") /\ status[e[1]] = "open" /\ ~TaskDependsOn(e[2], e[1]) /\ e \notin needs
  /\ Goes(p, [Idle EXCEPT !.at = "inserting", !.edge = {e}, !.seen = needs,
                          !.resolved = Resolved(e[2]), !.waited = Unsatisfied(e[1]) # {}])
  /\ UNCHANGED <<tables, history>>

RemoveTaskDependency(p, e) ==
  /\ Runs(p, "idle") /\ status[e[1]] = "open" /\ e \in needs
  /\ Goes(p, [Idle EXCEPT !.at = "deleting", !.edge = {e}, !.waited = Unsatisfied(e[1]) # {}])
  /\ UNCHANGED <<tables, history>>

EditedOnly(p, e) == Idle

\* The readiness of a task that did not wait before is not reconciled.
Edited(p, e) == LooksAt(IF proc[p].waited THEN {e[1]} ELSE {})

AddsUnresolved(p, e) ==
  /\ Runs(p, "inserting") /\ proc[p].edge = {e} /\ e \notin needs
  /\ Goes(p, Edited(p, e))
  /\ needs' = needs \cup {e}
  /\ UNCHANGED <<status, archived, recorded, planned, satisfied, history>>

\* Satisfied or not is what was read; a row inserted meanwhile makes the INSERT throw.
dbAddTaskDependency(p, e) ==
  /\ Runs(p, "inserting") /\ proc[p].edge = {e}
  /\ IF e \in needs
       THEN /\ Goes(p, Idle)
            /\ UNCHANGED <<needs, satisfied, blind, late>>
       ELSE /\ Goes(p, Edited(p, e))
            /\ needs' = needs \cup {e}
            /\ satisfied' = IF proc[p].resolved THEN satisfied \cup {e} ELSE satisfied
            /\ blind' = IF needs \subseteq proc[p].seen THEN blind \ {e} ELSE blind \cup {e}
            /\ late' = IF status[e[2]] = "done" /\ ~proc[p].resolved THEN late \cup {e}
                       ELSE late \ {e}
  /\ UNCHANGED <<status, archived, recorded, planned, stranded, unheard>>

RemovesEdgeOnly(p, e) ==
  /\ Runs(p, "deleting") /\ proc[p].edge = {e}
  /\ Goes(p, Idle)
  /\ needs' = needs \ {e}
  /\ UNCHANGED <<status, archived, recorded, planned, satisfied, history>>

\* Whether the task waited was read before: a plan armed since is not launched.
dbRemoveTaskDependency(p, e) ==
  /\ Runs(p, "deleting") /\ proc[p].edge = {e}
  /\ Goes(p, Edited(p, e))
  /\ needs' = needs \ {e} /\ satisfied' = satisfied \ {e}
  /\ stranded' = IF proc[p].waited \/ e \notin needs THEN stranded
                 ELSE stranded \cup (planned \cap {e[1]})
  /\ UNCHANGED <<status, archived, recorded, planned, unheard, blind, late>>

------------------------------------------------------------------------------
(* recoverActiveTasksAfterRestart, its second half; the first is in TaskWork *)

RecoverOpenTasks(p) ==
  /\ Runs(p, "idle")
  /\ LET listed == {t \in Tasks \ archived : status[t] = "open"}
     IN /\ listed # {}
        /\ Goes(p, [Idle EXCEPT !.at = "relaunching", !.then = "relaunching", !.todo = listed])
  /\ UNCHANGED <<tables, history>>

\* The status is the listed one, the dependencies and the plan are read now.
RelaunchTask(p, t) ==
  /\ Runs(p, "relaunching") /\ t \in proc[p].todo
  /\ IF Unsatisfied(t) = {} /\ t \in planned \ archived
       THEN Goes(p, [proc[p] EXCEPT !.at = "dispatching", !.launch = t])
       ELSE Returns(p, t)
  /\ UNCHANGED <<tables, history>>

\* A process ends in the middle of its command: the session of the agent that ran
\* it was aborted, the operator interrupted it, the machine stopped.
Crash(p) ==
  /\ ~Runs(p, "idle")
  /\ Dies(p)
  /\ UNCHANGED <<tables, blind, late>>

------------------------------------------------------------------------------

CommandStarts(p) ==
  \/ \E t \in Tasks : QueueTaskLaunch(p, t) \/ ChecksStatus(p, t, "done")
  \/ \E t \in ByHand : DispatchTask(p, t) \/ \E put \in {"active", "failed"} : ChecksStatus(p, t, put)
  \/ \E e \in Edges : AddTaskDependency(p, e) \/ RemoveTaskDependency(p, e)
  \/ RecoverOpenTasks(p)

CommandGoesOn(p) ==
  \/ WritesStatus(p) \/ RecordsDone(p)
  \/ dbMarkTaskDependenciesSatisfiedByUpstream(p) \/ MarksSatisfied(p)
  \/ dbSetTaskLaunchPlan(p) \/ dbDispatchTask(p) \/ MakesActive(p) \/ DispatchThrows(p)
  \/ \E t \in Tasks : ReconcileTaskReadinessTransition(p, t) \/ RelaunchTask(p, t)
  \/ \E e \in Edges : dbAddTaskDependency(p, e) \/ dbRemoveTaskDependency(p, e)

WritesOnce == \E t \in ByHand : dbArchiveTask(t) \/ dbUnarchiveTask(t)

Next == WritesOnce \/ \E p \in Procs : CommandStarts(p) \/ CommandGoesOn(p) \/ Crash(p)

Spec == Init /\ [][Next]_vars

------------------------------------------------------------------------------
(* Properties                                                               *)

\* The tables and the processes hold what they are declared to hold.
TypeOK ==
  /\ status \in [Tasks -> Statuses]
  /\ archived \subseteq Tasks /\ recorded \subseteq Tasks /\ planned \subseteq Tasks
  /\ needs \subseteq Edges /\ satisfied \subseteq needs
  /\ proc \in [Procs -> Command]
  /\ stranded \subseteq planned /\ unheard \subseteq Tasks /\ blind \subseteq Edges
  /\ late \subseteq Edges

\* Nobody waits for what is done: an unsatisfied dependency on a done task is
\* about to be satisfied by a process that completed the task.  Otherwise that
\* process has ended, or the task was done between the read and the INSERT of
\* the dependency, and then nothing ever satisfies it.
WaitsForUndone ==
  \A e \in needs \ (satisfied \cup late) : status[e[2]] = "done" =>
    e[2] \in unheard \/ \E p \in Procs : Tells(p, e[2])

LooksAfter(p, t) == t \in proc[p].todo \/ proc[p].launch = t

\* No launch plan is left lying: when a task with a plan may start, a process is
\* on its way to dispatch it, or it is known who gave up.
NoStrandedPlan ==
  \A t \in planned \ (archived \cup stranded) :
    Ready(t) => \E p \in Procs : LooksAfter(p, t)

\* Tasks never wait for each other in a circle, but for dependencies two processes
\* inserted at a time.
NoCircle ==
  \A S \in (SUBSET Tasks) \ {{}} : \E t \in S : \A e \in needs \ blind : e[1] = t => e[2] \notin S

==============================================================================
