---------------------------- MODULE TaskLaunchProofs ----------------------------
(***************************************************************************)
(* Theorems about TaskLaunch, for any number of tasks, processes and       *)
(* dependencies: the types, and the three promises of the launch.          *)
(*                                                                         *)
(* The invariant adds what a process holds at each place: the task its     *)
(* command is about, and tasks to look at only where it goes on to look at *)
(* them (Fits); and, for a dependency that has passed the check for a      *)
(* circle, a set of tasks that shows it: everything the awaited task leads *)
(* to, without the waiting one, as the dependencies were then (Checked).   *)
(***************************************************************************)
EXTENDS TaskLaunch, TLAPS

\* What a process holds, place by place.
Early == {"idle", "writing", "recording", "satisfying", "planning", "inserting", "deleting"}

Fits(c) ==
  /\ c.at \in {"writing", "recording", "satisfying", "marking", "planning"} => c.task \in Tasks
  /\ c.at = "writing" => c.put # "open"
  /\ c.at \in {"dispatching", "launching"} => c.launch \in Tasks
  /\ c.at \notin {"dispatching", "launching"} => c.launch = NoTask
  /\ c.then = "idle" /\ c.at # "marking" => c.todo = {}
  /\ c.at \in Early => c.then = "idle"

TypedTables ==
  /\ status \in [Tasks -> Statuses]
  /\ archived \subseteq Tasks /\ recorded \subseteq Tasks /\ planned \subseteq Tasks
  /\ needs \subseteq Edges /\ satisfied \subseteq needs
  /\ stranded \subseteq planned /\ unheard \subseteq Tasks /\ blind \subseteq Edges
  /\ late \subseteq Edges

TypedProc == proc \in [Procs -> Command] /\ \A p \in Procs : Fits(proc[p])

Typed == TypedTables /\ TypedProc

\* Dependencies do not lead out of S.
ClosedUnder(S, edges) == \A e \in edges : e[1] \in S => e[2] \in S

\* The check of a dependency that is about to be inserted: what its task will wait
\* for did not lead back to it.
Checked ==
  \A p \in Procs, e \in Edges : Runs(p, "inserting") /\ proc[p].edge = {e} =>
    \E S \in SUBSET Tasks : ClosedUnder(S, proc[p].seen) /\ e[2] \in S /\ e[1] \notin S

------------------------------------------------------------------------------
(* Types                                                                    *)

\* A dependency is between two tasks.
LEMMA EndsOfEdges ==
  ASSUME NEW e \in Edges
  PROVE  e[1] \in Tasks /\ e[2] \in Tasks
BY TasksAssumption

\* A process goes on to a command that is well formed.
LEMMA GoesTyped ==
  ASSUME TypedProc, NEW p \in Procs, NEW c \in Command, Fits(c), Goes(p, c)
  PROVE  TypedProc'
BY DEF TypedProc, Goes, Fits

\* A process that is in no command holds nothing.
LEMMA IdleFits == Idle \in Command /\ Fits(Idle)
BY DEF Idle, Command, Fits, Places, Early, Statuses

\* A command that returns leaves its process typed.
LEMMA ReturnsTyped ==
  ASSUME TypedProc, NEW p \in Procs, NEW t \in Tasks, Returns(p, t), ~Runs(p, "marking")
  PROVE  TypedProc'
<1> DEFINE rest == [proc[p] EXCEPT !.at = proc[p].then, !.launch = NoTask, !.todo = @ \ {t}]
<1>1. proc[p] \in Command /\ Fits(proc[p])
  BY DEF TypedProc
<1>2. CASE proc[p].todo \subseteq {t}
  <2>1. Goes(p, Idle)
    BY <1>2 DEF Returns
  <2>2. QED
    BY <2>1, IdleFits, GoesTyped
<1>3. CASE ~(proc[p].todo \subseteq {t})
  <2>1. Goes(p, rest)
    BY <1>3 DEF Returns
  <2>2. proc[p].then \in {"reconciling", "relaunching"}
    BY <1>1, <1>3 DEF Fits, Command, Runs
  <2>3. rest \in Command
    BY <1>1, <2>2 DEF Command, Places
  <2>4. rest.at = proc[p].then /\ rest.then = proc[p].then /\ rest.launch = NoTask
    BY <1>1 DEF Command
  <2>5. Fits(rest)
    BY <2>2, <2>4 DEF Fits, Early
  <2> HIDE DEF rest
  <2>6. QED
    BY <2>1, <2>3, <2>5, GoesTyped
<1>4. QED
  BY <1>2, <1>3

\* A command that goes on to look at dependents fits its place.
LEMMA LooksAtTyped ==
  ASSUME NEW todo \in SUBSET Tasks
  PROVE  LooksAt(todo) \in Command /\ Fits(LooksAt(todo))
<1>1. CASE todo = {}
  BY <1>1, IdleFits DEF LooksAt
<1>2. CASE todo # {}
  <2> DEFINE on == [Idle EXCEPT !.at = "reconciling", !.then = "reconciling", !.todo = todo]
  <2>1. on \in Command
    BY DEF Command, Idle, Places, Statuses
  <2>2. on.at = "reconciling" /\ on.then = "reconciling" /\ on.launch = NoTask
    BY DEF Idle
  <2>3. Fits(on)
    BY <2>2 DEF Fits, Early
  <2>4. QED
    BY <1>2, <2>1, <2>3 DEF LooksAt
<1>3. QED
  BY <1>1, <1>2

\* So does one that has written a dependency.
LEMMA EditedTyped ==
  ASSUME NEW p \in Procs, NEW e \in Edges
  PROVE  Edited(p, e) \in Command /\ Fits(Edited(p, e))
<1>1. (IF proc[p].waited THEN {e[1]} ELSE {}) \in SUBSET Tasks
  BY EndsOfEdges
<1>2. QED
  BY <1>1, LooksAtTyped DEF Edited

\* Every step keeps the types.
LEMMA TypedStep ==
  ASSUME Typed, [Next]_vars
  PROVE  Typed'
<1> USE DEF Typed
<1>1. ASSUME NEW t \in Tasks, dbArchiveTask(t) \/ dbUnarchiveTask(t)
      PROVE  Typed'
  <2>1. TypedTables'
    BY <1>1 DEF TypedTables, dbArchiveTask, dbUnarchiveTask, history
  <2>2. TypedProc'
    BY <1>1 DEF TypedProc, dbArchiveTask, dbUnarchiveTask, Fits
  <2>3. QED
    BY <2>1, <2>2
<1>2. ASSUME NEW p \in Procs, CommandStarts(p)
      PROVE  Typed'
  <2>1. TypedTables'
    BY <1>2 DEF TypedTables, CommandStarts, QueueTaskLaunch, ChecksStatus, DispatchTask,
      AddTaskDependency, RemoveTaskDependency, RecoverOpenTasks, tables, history
  <2>2. ASSUME NEW t \in Tasks, QueueTaskLaunch(p, t)
        PROVE  TypedProc'
    <3> DEFINE c == [Idle EXCEPT !.at = "planning", !.task = t]
    <3>1. c \in Command /\ Fits(c)
      BY DEF Idle, Command, Fits, Places, Early, Statuses
    <3>2. Goes(p, c)
      BY <2>2 DEF QueueTaskLaunch
    <3>3. QED
      BY <3>1, <3>2, GoesTyped
  <2>3. ASSUME NEW t \in Tasks, NEW put \in {"active", "done", "failed"}, ChecksStatus(p, t, put)
        PROVE  TypedProc'
    <3> DEFINE c == [Idle EXCEPT !.at = "writing", !.task = t, !.put = put]
    <3>1. c \in Command /\ Fits(c)
      BY DEF Idle, Command, Fits, Places, Early, Statuses
    <3>2. Goes(p, c)
      BY <2>3 DEF ChecksStatus
    <3>3. QED
      BY <3>1, <3>2, GoesTyped
  <2>4. ASSUME NEW t \in ByHand, DispatchTask(p, t)
        PROVE  TypedProc'
    <3> DEFINE c == [Idle EXCEPT !.at = "dispatching", !.launch = t]
    <3>1. c \in Command /\ Fits(c)
      BY TasksAssumption DEF Idle, Command, Fits, Places, Early, Statuses
    <3>2. Goes(p, c)
      BY <2>4 DEF DispatchTask
    <3>3. QED
      BY <3>1, <3>2, GoesTyped
  <2>5. ASSUME NEW e \in Edges, AddTaskDependency(p, e)
        PROVE  TypedProc'
    <3> DEFINE c == [Idle EXCEPT !.at = "inserting", !.edge = {e}, !.seen = needs,
                                 !.resolved = Resolved(e[2]), !.waited = Unsatisfied(e[1]) # {}]
    <3>1. c \in Command /\ Fits(c)
      BY DEF Idle, Command, Fits, Places, Early, Statuses, TypedTables, Resolved
    <3>2. Goes(p, c)
      BY <2>5 DEF AddTaskDependency
    <3>3. QED
      BY <3>1, <3>2, GoesTyped
  <2>6. ASSUME NEW e \in Edges, RemoveTaskDependency(p, e)
        PROVE  TypedProc'
    <3> DEFINE c == [Idle EXCEPT !.at = "deleting", !.edge = {e},
                                 !.waited = Unsatisfied(e[1]) # {}]
    <3>1. c \in Command /\ Fits(c)
      BY DEF Idle, Command, Fits, Places, Early, Statuses
    <3>2. Goes(p, c)
      BY <2>6 DEF RemoveTaskDependency
    <3>3. QED
      BY <3>1, <3>2, GoesTyped
  <2>7. ASSUME RecoverOpenTasks(p)
        PROVE  TypedProc'
    <3> DEFINE listed == {t \in Tasks \ archived : status[t] = "open"}
               c == [Idle EXCEPT !.at = "relaunching", !.then = "relaunching", !.todo = listed]
    <3>1. c \in Command /\ Fits(c)
      BY DEF Idle, Command, Fits, Places, Early, Statuses
    <3>2. Goes(p, c)
      BY <2>7 DEF RecoverOpenTasks
    <3>3. QED
      BY <3>1, <3>2, GoesTyped
  <2>8. QED
    BY <1>2, <2>1, <2>2, <2>3, <2>4, <2>5, <2>6, <2>7, TasksAssumption DEF CommandStarts
<1>3. ASSUME NEW p \in Procs, Dies(p)
      PROVE  TypedProc'
  BY <1>3, IdleFits, GoesTyped DEF Dies
<1>4. ASSUME NEW p \in Procs, dbSetTaskLaunchPlan(p)
      PROVE  Typed'
  <2>1. TypedTables'
    BY <1>4 DEF TypedTables, TypedProc, dbSetTaskLaunchPlan, Runs, Fits
  <2>2. QED
    BY <1>4, <2>1, IdleFits, GoesTyped DEF dbSetTaskLaunchPlan
<1>5. ASSUME NEW p \in Procs, dbDispatchTask(p)
      PROVE  Typed'
  <2> DEFINE c == [proc[p] EXCEPT !.at = "launching"]
  <2>1. proc[p] \in Command /\ Fits(proc[p]) /\ proc[p].at = "dispatching"
    BY <1>5 DEF dbDispatchTask, TypedProc, Runs
  <2>2. c \in Command /\ Fits(c)
    BY <2>1 DEF Command, Places, Fits, Early
  <2>3. TypedTables'
    BY <1>5 DEF dbDispatchTask, TypedTables
  <2>4. Goes(p, c)
    BY <1>5 DEF dbDispatchTask
  <2>5. QED
    BY <2>2, <2>3, <2>4, GoesTyped
<1>6. ASSUME NEW p \in Procs, MakesActive(p)
      PROVE  Typed'
  <2>1. proc[p].launch \in Tasks /\ ~Runs(p, "marking")
    BY <1>6 DEF MakesActive, TypedProc, Runs, Fits
  <2>2. TypedTables'
    BY <1>6, <2>1 DEF MakesActive, TypedTables, Statuses, history
  <2>3. QED
    BY <1>6, <2>1, <2>2, ReturnsTyped DEF MakesActive
<1>7. ASSUME NEW p \in Procs, DispatchThrows(p)
      PROVE  Typed'
  <2>1. proc[p].launch \in Tasks /\ ~Runs(p, "marking")
    BY <1>7 DEF DispatchThrows, TypedProc, Runs, Fits
  <2>2. TypedTables'
    BY <1>7, <2>1 DEF DispatchThrows, Dies, TypedTables, tables
  <2>3. QED
    BY <1>3, <1>7, <2>1, <2>2, ReturnsTyped DEF DispatchThrows
<1>8. ASSUME NEW p \in Procs, WritesStatus(p)
      PROVE  Typed'
  <2> DEFINE c == [Idle EXCEPT !.at = "recording", !.task = proc[p].task]
  <2>1. proc[p].task \in Tasks /\ proc[p].put \in Statuses
    BY <1>8 DEF WritesStatus, TypedProc, Runs, Fits, Command
  <2>2. TypedTables'
    BY <1>8, <2>1 DEF WritesStatus, TypedTables
  <2>3. c \in Command /\ Fits(c)
    BY <2>1 DEF Idle, Command, Fits, Places, Early, Statuses
  <2>4. Goes(p, c) \/ Goes(p, Idle)
    BY <1>8 DEF WritesStatus
  <2>5. QED
    BY <2>2, <2>3, <2>4, IdleFits, GoesTyped
<1>9. ASSUME NEW p \in Procs, RecordsDone(p)
      PROVE  Typed'
  <2> DEFINE c == [proc[p] EXCEPT !.at = "satisfying"]
  <2>1. proc[p] \in Command /\ Fits(proc[p]) /\ proc[p].at = "recording"
    BY <1>9 DEF RecordsDone, TypedProc, Runs
  <2>2. c \in Command /\ Fits(c)
    BY <2>1 DEF Command, Places, Fits, Early
  <2>3. TypedTables'
    BY <1>9, <2>1 DEF RecordsDone, TypedTables, Fits, history
  <2>4. Goes(p, c) \/ Goes(p, Idle)
    BY <1>9 DEF RecordsDone
  <2>5. QED
    BY <2>2, <2>3, <2>4, IdleFits, GoesTyped
<1>10. ASSUME NEW p \in Procs, dbMarkTaskDependenciesSatisfiedByUpstream(p)
       PROVE  Typed'
  <2> DEFINE found == Dependents(proc[p].task)
             c == [proc[p] EXCEPT !.at = "marking", !.todo = found]
  <2>1. proc[p] \in Command /\ Fits(proc[p]) /\ proc[p].at = "satisfying"
    BY <1>10 DEF dbMarkTaskDependenciesSatisfiedByUpstream, TypedProc, Runs
  <2>2. found \in SUBSET Tasks
    BY EndsOfEdges DEF TypedTables, Dependents
  <2>3. Goes(p, c) \/ Goes(p, Idle)
    BY <1>10 DEF dbMarkTaskDependenciesSatisfiedByUpstream
  <2>4. TypedTables'
    BY <1>10 DEF dbMarkTaskDependenciesSatisfiedByUpstream, TypedTables, tables, history
  <2> HIDE DEF found
  <2>5. c \in Command /\ Fits(c)
    BY <2>1, <2>2 DEF Command, Places, Fits, Early
  <2> HIDE DEF c
  <2>6. QED
    BY <2>3, <2>4, <2>5, IdleFits, GoesTyped
<1>11. ASSUME NEW p \in Procs, MarksSatisfied(p)
       PROVE  Typed'
  <2>1. proc[p].todo \in SUBSET Tasks
    BY DEF TypedProc, Command
  <2>2. TypedTables'
    BY <1>11 DEF MarksSatisfied, TypedTables
  <2>3. QED
    BY <1>11, <2>1, <2>2, LooksAtTyped, GoesTyped DEF MarksSatisfied
<1>12. ASSUME NEW p \in Procs, NEW t \in Tasks,
              ReconcileTaskReadinessTransition(p, t) \/ RelaunchTask(p, t)
       PROVE  Typed'
  <2> DEFINE c == [proc[p] EXCEPT !.at = "dispatching", !.launch = t]
  <2>1. proc[p] \in Command /\ Fits(proc[p]) /\ proc[p].at \in {"reconciling", "relaunching"}
        /\ t \in proc[p].todo /\ ~Runs(p, "marking")
    BY <1>12 DEF ReconcileTaskReadinessTransition, RelaunchTask, TypedProc, Runs
  <2>2. c \in Command
    BY <2>1 DEF Command, Places
  <2>3. c.at = "dispatching" /\ c.launch = t /\ c.then = proc[p].then /\ c.todo = proc[p].todo
    BY <2>1 DEF Command
  <2>4. Fits(c)
    BY <2>1, <2>3 DEF Fits, Early
  <2>5. Goes(p, c) \/ Returns(p, t)
    BY <1>12 DEF ReconcileTaskReadinessTransition, RelaunchTask
  <2>6. TypedTables'
    BY <1>12 DEF ReconcileTaskReadinessTransition, RelaunchTask, TypedTables, tables, history
  <2> HIDE DEF c
  <2>7. QED
    BY <2>1, <2>2, <2>4, <2>5, <2>6, GoesTyped, ReturnsTyped
<1>13. ASSUME NEW p \in Procs, NEW e \in Edges, dbAddTaskDependency(p, e)
       PROVE  Typed'
  <2>1. TypedTables'
    BY <1>13 DEF dbAddTaskDependency, TypedTables
  <2>2. QED
    BY <1>13, <2>1, IdleFits, EditedTyped, GoesTyped DEF dbAddTaskDependency
<1>14. ASSUME NEW p \in Procs, NEW e \in Edges, dbRemoveTaskDependency(p, e)
       PROVE  Typed'
  <2>1. TypedTables'
    BY <1>14 DEF dbRemoveTaskDependency, TypedTables
  <2>2. QED
    BY <1>14, <2>1, EditedTyped, GoesTyped DEF dbRemoveTaskDependency
<1>15. ASSUME NEW p \in Procs, Crash(p)
       PROVE  Typed'
  <2>1. TypedTables'
    BY <1>15 DEF Crash, Dies, TypedTables, tables
  <2>2. QED
    BY <1>3, <1>15, <2>1 DEF Crash
<1>16. CASE UNCHANGED vars
  BY <1>16 DEF vars, tables, history, TypedTables, TypedProc, Fits
<1>17. QED
  BY <1>1, <1>2, <1>4, <1>5, <1>6, <1>7, <1>8, <1>9, <1>10, <1>11, <1>12, <1>13, <1>14, <1>15, <1>16,
    TasksAssumption
  DEF Next, WritesOnce, CommandGoesOn

\* The tables start with their types.
LEMMA TypedInit == Init => Typed
<1> SUFFICES ASSUME Init PROVE Typed
  OBVIOUS
<1>1. TypedTables
  BY DEF Init, TypedTables, Statuses
<1>2. TypedProc
  BY IdleFits DEF Init, TypedProc
<1>3. QED
  BY <1>1, <1>2 DEF Typed

\* The types hold in every reachable state.
LEMMA AlwaysTyped == Spec => []Typed
BY TypedInit, TypedStep, PTL DEF Spec

\* The tables and the processes hold what they are declared to hold.
THEOREM TypeCorrect == Spec => []TypeOK
<1>1. Typed => TypeOK
  BY DEF Typed, TypedTables, TypedProc, TypeOK
<1>2. QED
  BY <1>1, AlwaysTyped, PTL

------------------------------------------------------------------------------
(* What steps have in common                                                *)

\* A process goes on: nobody else does.
LEMMA OthersStay ==
  ASSUME TypedProc, NEW p \in Procs, NEW c, Goes(p, c)
  PROVE  proc'[p] = c /\ \A q \in Procs \ {p} : proc'[q] = proc[q]
BY DEF TypedProc, Goes

\* A command that has not come to its tasks looks after none.
LEMMA EarlyIdle ==
  ASSUME TypedProc, NEW p \in Procs, proc[p].at \in Early
  PROVE  \A t \in Tasks : ~LooksAfter(p, t)
BY TasksAssumption DEF TypedProc, Fits, LooksAfter, Early

\* A process that returns from a task loses sight of no other.
LEMMA ReturnsKeeps ==
  ASSUME TypedProc, NEW p \in Procs, NEW t \in Tasks, Returns(p, t),
         proc[p].at \in {"dispatching", "launching"} => proc[p].launch = t
  PROVE  /\ \A u \in Tasks \ {t} : LooksAfter(p, u) => u \in proc'[p].todo
         /\ \A q \in Procs \ {p} : proc'[q] = proc[q]
<1> DEFINE rest == [proc[p] EXCEPT !.at = proc[p].then, !.launch = NoTask, !.todo = @ \ {t}]
<1>1. \A u \in Tasks \ {t} : LooksAfter(p, u) => u \in proc[p].todo
  BY TasksAssumption DEF TypedProc, Fits, LooksAfter
<1>2. CASE proc[p].todo \subseteq {t}
  BY <1>1, <1>2 DEF TypedProc, Returns, Goes
<1>3. CASE ~(proc[p].todo \subseteq {t})
  <2>1. Goes(p, rest)
    BY <1>3 DEF Returns
  <2>2. rest.todo = proc[p].todo \ {t}
    BY DEF TypedProc, Command
  <2> HIDE DEF rest
  <2>3. QED
    BY <1>1, <2>1, <2>2, OthersStay
<1>4. QED
  BY <1>2, <1>3

\* Where a process stands after it has looked for tasks.
LEMMA LooksAtAll ==
  ASSUME NEW todo \in SUBSET Tasks
  PROVE  LooksAt(todo).todo = todo /\ LooksAt(todo).at \in {"idle", "reconciling"}
BY DEF LooksAt, Idle

------------------------------------------------------------------------------
(* Nobody waits for what is done                                            *)

\* Steps that complete no task, add no dependency that is open, and take no process
\* away from the dependents of a task.
LEMMA SameWaits ==
  ASSUME Typed, WaitsForUndone,
         \A e \in needs' \ (satisfied' \cup late') : e \in needs \ (satisfied \cup late),
         \A t \in Tasks : status'[t] = "done" => status[t] = "done",
         \A t \in Tasks : t \in unheard /\ status'[t] = "done" => t \in unheard',
         \A q \in Procs, t \in Tasks : Tells(q, t) => Tells(q, t)'
  PROVE  WaitsForUndone'
<1> SUFFICES ASSUME NEW e \in (needs \ (satisfied \cup late))', (status[e[2]] = "done")'
             PROVE  (e[2] \in unheard \/ \E p \in Procs : Tells(p, e[2]))'
  BY DEF WaitsForUndone
<1>1. e \in needs \ (satisfied \cup late) /\ e[2] \in Tasks
  BY EndsOfEdges DEF Typed, TypedTables
<1>2. QED
  BY <1>1 DEF WaitsForUndone

\* A process that has nothing to tell, or goes on telling it.
LEMMA SameTells ==
  ASSUME TypedProc, NEW p \in Procs, NEW c, Goes(p, c),
         \A t \in Tasks : Tells(p, t) =>
           c.at \in {"recording", "satisfying", "marking"} /\ c.task = t
  PROVE  \A q \in Procs, t \in Tasks : Tells(q, t) => Tells(q, t)'
<1>1. proc'[p] = c /\ \A q \in Procs \ {p} : proc'[q] = proc[q]
  BY OthersStay
<1>2. QED
  BY <1>1 DEF Tells

\* The same for a process that returns from a task.
LEMMA ReturnsTells ==
  ASSUME TypedProc, NEW p \in Procs, NEW t \in Tasks, Returns(p, t),
         \A u \in Tasks : ~Tells(p, u)
  PROVE  \A q \in Procs, u \in Tasks : Tells(q, u) => Tells(q, u)'
BY SameTells DEF Returns

\* No step leaves a wait for a done task that nobody is about to satisfy.
LEMMA WaitsStep ==
  ASSUME Typed, WaitsForUndone, [Next]_vars
  PROVE  WaitsForUndone'
<1> USE DEF Typed
<1>1. ASSUME NEW t \in Tasks, dbArchiveTask(t) \/ dbUnarchiveTask(t)
      PROVE  WaitsForUndone'
  BY <1>1, SameWaits DEF TypedTables, dbArchiveTask, dbUnarchiveTask, Tells, history
<1>2. ASSUME NEW p \in Procs, CommandStarts(p)
      PROVE  WaitsForUndone'
  <2>1. Runs(p, "idle") /\ UNCHANGED <<tables, history>> /\ \E c : Goes(p, c)
    BY <1>2 DEF CommandStarts, QueueTaskLaunch, ChecksStatus, DispatchTask, AddTaskDependency,
      RemoveTaskDependency, RecoverOpenTasks
  <2>2. \A q \in Procs, t \in Tasks : Tells(q, t) => Tells(q, t)'
    BY <2>1, SameTells DEF Runs, Tells
  <2>3. QED
    BY <2>1, <2>2, SameWaits DEF tables, history
<1>3. ASSUME NEW p \in Procs, WritesStatus(p)
      PROVE  WaitsForUndone'
  <2> DEFINE t == proc[p].task
  <2>1. t \in Tasks
    BY <1>3 DEF WritesStatus, TypedProc, Runs, Fits
  <2>2. \A q \in Procs, u \in Tasks : Tells(q, u) => Tells(q, u)'
    BY <1>3, SameTells DEF WritesStatus, Runs, Tells
  <2>3. SUFFICES ASSUME NEW e \in needs \ (satisfied \cup late), status'[e[2]] = "done"
                 PROVE  e[2] \in unheard' \/ \E q \in Procs : Tells(q, e[2])'
    BY <1>3 DEF WaitsForUndone, WritesStatus
  <2>4. e[2] \in Tasks
    BY EndsOfEdges DEF TypedTables
  <2>5. CASE e[2] = t
    <3>1. proc[p].put = "done"
      BY <1>3, <2>1, <2>3, <2>5 DEF WritesStatus, TypedTables
    <3>2. proc'[p] = [Idle EXCEPT !.at = "recording", !.task = t]
      BY <1>3, <3>1, OthersStay DEF WritesStatus
    <3>3. QED
      BY <2>5, <3>2 DEF Idle, Tells
  <2>6. CASE e[2] # t
    <3>1. status[e[2]] = "done"
      BY <1>3, <2>3, <2>4, <2>6 DEF WritesStatus, TypedTables
    <3>2. e[2] \in unheard \/ \E q \in Procs : Tells(q, e[2])
      BY <2>3, <3>1 DEF WaitsForUndone
    <3>3. QED
      BY <1>3, <2>2, <2>4, <2>6, <3>2 DEF WritesStatus
  <2>7. QED
    BY <2>5, <2>6
<1>4. ASSUME NEW p \in Procs, RecordsDone(p)
      PROVE  WaitsForUndone'
  <2> DEFINE t == proc[p].task
             c == [proc[p] EXCEPT !.at = "satisfying"]
  <2>1. t \in Tasks /\ c.at = "satisfying" /\ c.task = t
    BY <1>4 DEF RecordsDone, TypedProc, Runs, Fits, Command
  <2>2. CASE status[t] = "done"
    <3>1. Goes(p, c)
      BY <1>4, <2>2 DEF RecordsDone
    <3> HIDE DEF c
    <3>2. \A q \in Procs, u \in Tasks : Tells(q, u) => Tells(q, u)'
      BY <2>1, <3>1, SameTells DEF Tells
    <3>3. QED
      BY <1>4, <3>2, SameWaits DEF RecordsDone, history
  <2>3. CASE status[t] # "done"
    <3>1. \A q \in Procs \ {p} : proc'[q] = proc[q]
      BY <1>4, OthersStay DEF RecordsDone
    <3>2. SUFFICES ASSUME NEW e \in needs \ (satisfied \cup late), status[e[2]] = "done"
                   PROVE  e[2] \in unheard \/ \E q \in Procs : Tells(q, e[2])'
      BY <1>4 DEF WaitsForUndone, RecordsDone, history
    <3>3. e[2] \in unheard \/ \E q \in Procs : Tells(q, e[2])
      BY <3>2 DEF WaitsForUndone
    <3>4. QED
      BY <2>3, <3>1, <3>2, <3>3 DEF Tells
  <2>4. QED
    BY <2>2, <2>3
<1>5. ASSUME NEW p \in Procs, dbMarkTaskDependenciesSatisfiedByUpstream(p)
      PROVE  WaitsForUndone'
  <2> DEFINE t == proc[p].task
             found == Dependents(t)
             c == [proc[p] EXCEPT !.at = "marking", !.todo = found]
  <2>1. c.at = "marking" /\ c.task = t
    BY DEF TypedProc, Command
  <2>2. UNCHANGED <<tables, history>>
    BY <1>5 DEF dbMarkTaskDependenciesSatisfiedByUpstream
  <2>3. CASE found # {}
    <3>1. Goes(p, c)
      BY <1>5, <2>3 DEF dbMarkTaskDependenciesSatisfiedByUpstream
    <3> HIDE DEF c
    <3>2. \A q \in Procs, u \in Tasks : Tells(q, u) => Tells(q, u)'
      BY <2>1, <3>1, SameTells DEF Tells
    <3>3. QED
      BY <2>2, <3>2, SameWaits DEF tables, history
  <2>4. CASE found = {}
    <3>1. \A q \in Procs \ {p} : proc'[q] = proc[q]
      BY <1>5, OthersStay DEF dbMarkTaskDependenciesSatisfiedByUpstream
    <3>2. SUFFICES ASSUME NEW e \in needs \ (satisfied \cup late), status[e[2]] = "done"
                   PROVE  e[2] \in unheard \/ \E q \in Procs : Tells(q, e[2])'
      BY <2>2 DEF WaitsForUndone, tables, history
    <3>3. e[2] # t
      BY <2>4, <3>2 DEF Dependents
    <3>4. e[2] \in unheard \/ \E q \in Procs : Tells(q, e[2])
      BY <3>2 DEF WaitsForUndone
    <3>5. QED
      BY <3>1, <3>3, <3>4 DEF Tells
  <2>5. QED
    BY <2>3, <2>4
<1>6. ASSUME NEW p \in Procs, MarksSatisfied(p)
      PROVE  WaitsForUndone'
  <2>1. SUFFICES ASSUME NEW e \in needs \ (satisfied' \cup late), status[e[2]] = "done"
                 PROVE  e[2] \in unheard \/ \E q \in Procs : Tells(q, e[2])'
    BY <1>6 DEF WaitsForUndone, MarksSatisfied
  <2>2. e \in needs \ (satisfied \cup late) /\ e[2] # proc[p].task
    BY <1>6, <2>1 DEF MarksSatisfied
  <2>3. \A q \in Procs \ {p} : proc'[q] = proc[q]
    BY <1>6, OthersStay DEF MarksSatisfied
  <2>4. e[2] \in unheard \/ \E q \in Procs : Tells(q, e[2])
    BY <2>1, <2>2 DEF WaitsForUndone
  <2>5. QED
    BY <2>2, <2>3, <2>4 DEF Tells
<1>7. ASSUME NEW p \in Procs, Dies(p), UNCHANGED <<tables, late>>
      PROVE  WaitsForUndone'
  <2>1. SUFFICES ASSUME NEW e \in needs \ (satisfied \cup late), status[e[2]] = "done"
                 PROVE  e[2] \in unheard' \/ \E q \in Procs : Tells(q, e[2])'
    BY <1>7 DEF WaitsForUndone, tables
  <2>2. \A q \in Procs \ {p} : proc'[q] = proc[q]
    BY <1>7, OthersStay DEF Dies
  <2>3. e[2] \in unheard \/ \E q \in Procs : Tells(q, e[2])
    BY <2>1 DEF WaitsForUndone
  <2>4. e[2] \in Tasks
    BY EndsOfEdges DEF TypedTables
  <2>5. QED
    BY <1>7, <2>1, <2>2, <2>3, <2>4 DEF Dies, Tells
<1>8. ASSUME NEW p \in Procs, dbSetTaskLaunchPlan(p)
      PROVE  WaitsForUndone'
  <2>1. \A q \in Procs, t \in Tasks : Tells(q, t) => Tells(q, t)'
    BY <1>8, SameTells DEF dbSetTaskLaunchPlan, Runs, Tells
  <2>2. QED
    BY <1>8, <2>1, SameWaits DEF dbSetTaskLaunchPlan
<1>9. ASSUME NEW p \in Procs, dbDispatchTask(p)
      PROVE  WaitsForUndone'
  <2>1. \A q \in Procs, t \in Tasks : Tells(q, t) => Tells(q, t)'
    BY <1>9, SameTells DEF dbDispatchTask, Runs, Tells
  <2>2. QED
    BY <1>9, <2>1, SameWaits DEF dbDispatchTask
<1>10. ASSUME NEW p \in Procs, MakesActive(p)
       PROVE  WaitsForUndone'
  <2>1. proc[p].launch \in Tasks /\ \A u \in Tasks : ~Tells(p, u)
    BY <1>10 DEF MakesActive, TypedProc, Runs, Fits, Tells
  <2>2. \A q \in Procs, t \in Tasks : Tells(q, t) => Tells(q, t)'
    BY <1>10, <2>1, ReturnsTells DEF MakesActive
  <2>3. \A t \in Tasks : status'[t] = "done" => status[t] = "done"
    BY <1>10 DEF MakesActive, TypedTables
  <2>4. QED
    BY <1>10, <2>2, <2>3, SameWaits DEF MakesActive, history
<1>11. ASSUME NEW p \in Procs, DispatchThrows(p)
       PROVE  WaitsForUndone'
  <2>1. proc[p].launch \in Tasks /\ \A u \in Tasks : ~Tells(p, u)
    BY <1>11 DEF DispatchThrows, TypedProc, Runs, Fits, Tells
  <2>2. CASE proc[p].then = "relaunching"
    <3>1. \A q \in Procs, t \in Tasks : Tells(q, t) => Tells(q, t)'
      BY <1>11, <2>1, <2>2, ReturnsTells DEF DispatchThrows
    <3>2. QED
      BY <1>11, <2>2, <3>1, SameWaits DEF DispatchThrows, tables
  <2>3. CASE proc[p].then # "relaunching"
    BY <1>7, <1>11, <2>3 DEF DispatchThrows
  <2>4. QED
    BY <2>2, <2>3
<1>12. ASSUME NEW p \in Procs, NEW t \in Tasks,
              ReconcileTaskReadinessTransition(p, t) \/ RelaunchTask(p, t)
       PROVE  WaitsForUndone'
  <2>1. \A u \in Tasks : ~Tells(p, u)
    BY <1>12 DEF ReconcileTaskReadinessTransition, RelaunchTask, Runs, Tells
  <2>2. Returns(p, t) \/ Goes(p, [proc[p] EXCEPT !.at = "dispatching", !.launch = t])
    BY <1>12 DEF ReconcileTaskReadinessTransition, RelaunchTask
  <2>3. \A q \in Procs, u \in Tasks : Tells(q, u) => Tells(q, u)'
    BY <2>1, <2>2, SameTells, ReturnsTells
  <2>4. UNCHANGED <<tables, history>>
    BY <1>12 DEF ReconcileTaskReadinessTransition, RelaunchTask
  <2>5. QED
    BY <2>3, <2>4, SameWaits DEF tables, history
<1>13. ASSUME NEW p \in Procs, NEW e \in Edges, dbAddTaskDependency(p, e)
       PROVE  WaitsForUndone'
  <2>1. \A q \in Procs, t \in Tasks : Tells(q, t) => Tells(q, t)'
    BY <1>13, SameTells DEF dbAddTaskDependency, Runs, Tells
  <2>2. CASE e \in needs
    BY <1>13, <2>1, <2>2, SameWaits DEF dbAddTaskDependency
  <2>3. CASE e \notin needs
    <3>1. SUFFICES ASSUME NEW f \in needs' \ (satisfied' \cup late'), status[f[2]] = "done"
                   PROVE  f[2] \in unheard \/ \E q \in Procs : Tells(q, f[2])'
      BY <1>13 DEF WaitsForUndone, dbAddTaskDependency
    <3>2. f \in needs \ (satisfied \cup late)
      BY <1>13, <2>3, <3>1 DEF dbAddTaskDependency, TypedTables
    <3>3. f[2] \in unheard \/ \E q \in Procs : Tells(q, f[2])
      BY <3>1, <3>2 DEF WaitsForUndone
    <3>4. f[2] \in Tasks
      BY <3>2, EndsOfEdges DEF TypedTables
    <3>5. QED
      BY <2>1, <3>3, <3>4
  <2>4. QED
    BY <2>2, <2>3
<1>14. ASSUME NEW p \in Procs, NEW e \in Edges, dbRemoveTaskDependency(p, e)
       PROVE  WaitsForUndone'
  <2>1. \A q \in Procs, t \in Tasks : Tells(q, t) => Tells(q, t)'
    BY <1>14, SameTells DEF dbRemoveTaskDependency, Runs, Tells
  <2>2. QED
    BY <1>14, <2>1, SameWaits DEF dbRemoveTaskDependency, TypedTables
<1>15. ASSUME NEW p \in Procs, Crash(p)
       PROVE  WaitsForUndone'
  BY <1>7, <1>15 DEF Crash
<1>16. CASE UNCHANGED vars
  BY <1>16, SameWaits DEF vars, tables, history, Tells
<1>17. QED
  BY <1>1, <1>2, <1>3, <1>4, <1>5, <1>6, <1>8, <1>9, <1>10, <1>11, <1>12, <1>13, <1>14, <1>15, <1>16,
    TasksAssumption
  DEF Next, WritesOnce, CommandGoesOn

\* Whoever completes a task satisfies the dependencies on it, however its reads and
\* writes fall between those of others: only a process that ends, or a dependency
\* whose INSERT comes after the completion its read came before, leaves a task
\* waiting for a done one.
THEOREM DoneIsHeard == Spec => []WaitsForUndone
<1>1. Init => WaitsForUndone
  BY DEF Init, WaitsForUndone
<1>2. Typed /\ WaitsForUndone /\ [Next]_vars => WaitsForUndone'
  BY WaitsStep
<1>3. QED
  BY <1>1, <1>2, AlwaysTyped, PTL DEF Spec

------------------------------------------------------------------------------
(* No launch plan is left lying                                             *)

\* Steps that make no task with a plan ready, and after which every task is still
\* looked after.
LEMMA SamePlans ==
  ASSUME Typed, NoStrandedPlan,
         \A t \in planned' \ (archived' \cup stranded') : Ready(t)' =>
           /\ t \in planned \ (archived \cup stranded)
           /\ Ready(t)
           /\ \A q \in Procs : LooksAfter(q, t) => LooksAfter(q, t)'
  PROVE  NoStrandedPlan'
BY DEF NoStrandedPlan

\* Readiness is read from the tables.
LEMMA SameReady ==
  ASSUME UNCHANGED <<status, needs, satisfied>>, NEW t
  PROVE  Ready(t)' <=> Ready(t)
BY DEF Ready, Unsatisfied

\* Commands start where no task is looked after.
LEMMA StartsLosesNothing ==
  ASSUME TypedProc, NEW p \in Procs, NEW c, Goes(p, c), proc[p].at \in Early
  PROVE  \A t \in Tasks, q \in Procs : LooksAfter(q, t) => LooksAfter(q, t)'
<1>1. \A t \in Tasks : ~LooksAfter(p, t)
  BY EarlyIdle
<1>2. \A q \in Procs \ {p} : proc'[q] = proc[q]
  BY OthersStay
<1>3. QED
  BY <1>1, <1>2 DEF LooksAfter

\* Who makes a task startable starts it, or is recorded as having given its plan up.
LEMMA PlansStep ==
  ASSUME Typed, NoStrandedPlan, [Next]_vars
  PROVE  NoStrandedPlan'
<1> USE DEF Typed
<1>1. ASSUME NEW p \in Procs, WritesStatus(p) \/ RecordsDone(p)
      PROVE  NoStrandedPlan'
  <2>1. \E c : Goes(p, c)
    BY <1>1 DEF WritesStatus, RecordsDone
  <2>2. \A u \in Tasks, q \in Procs : LooksAfter(q, u) => LooksAfter(q, u)'
    BY <1>1, <2>1, StartsLosesNothing DEF WritesStatus, RecordsDone, Runs, Early
  <2>3. ASSUME WritesStatus(p), NEW u \in Tasks, Ready(u)', ~Ready(u)
        PROVE  FALSE
    <3>1. status'[u] = "open" /\ UNCHANGED <<needs, satisfied>>
      BY <2>3 DEF WritesStatus, Ready
    <3>2. proc[p].put # "open" /\ proc[p].task \in Tasks
      BY <2>3 DEF WritesStatus, TypedProc, Runs, Fits
    <3>3. QED
      BY <2>3, <3>1, <3>2 DEF WritesStatus, TypedTables, Ready, Unsatisfied
  <2>4. QED
    BY <1>1, <2>2, <2>3, SamePlans DEF WritesStatus, RecordsDone, TypedTables, Ready, Unsatisfied, history
<1>2. ASSUME NEW t \in Tasks, dbArchiveTask(t) \/ dbUnarchiveTask(t)
      PROVE  NoStrandedPlan'
  BY <1>2, SamePlans DEF dbArchiveTask, dbUnarchiveTask, TypedTables, Ready, Unsatisfied, LooksAfter, history
<1>3. ASSUME NEW p \in Procs, NEW c, Goes(p, c), Runs(p, "idle"), UNCHANGED <<tables, history>>
      PROVE  NoStrandedPlan'
  <2>1. \A t \in Tasks, q \in Procs : LooksAfter(q, t) => LooksAfter(q, t)'
    BY <1>3, StartsLosesNothing DEF Runs, Early
  <2>2. \A t \in Tasks : Ready(t)' <=> Ready(t)
    BY <1>3, SameReady DEF tables
  <2>3. QED
    BY <1>3, <2>1, <2>2, SamePlans DEF tables, history, TypedTables
<1>4. ASSUME NEW p \in Procs, CommandStarts(p)
      PROVE  NoStrandedPlan'
  <2>1. Runs(p, "idle") /\ UNCHANGED <<tables, history>> /\ \E c : Goes(p, c)
    BY <1>4 DEF CommandStarts, QueueTaskLaunch, ChecksStatus, DispatchTask, AddTaskDependency,
      RemoveTaskDependency, RecoverOpenTasks
  <2>2. QED
    BY <1>3, <2>1
<1>5. ASSUME NEW p \in Procs, dbSetTaskLaunchPlan(p)
      PROVE  NoStrandedPlan'
  <2> DEFINE t == proc[p].task
  <2>1. \A u \in Tasks, q \in Procs : LooksAfter(q, u) => LooksAfter(q, u)'
    BY <1>5, StartsLosesNothing DEF dbSetTaskLaunchPlan, Runs, Early
  <2>2. \A u \in Tasks : Ready(u)' <=> Ready(u)
    BY <1>5, SameReady DEF dbSetTaskLaunchPlan
  <2>3. SUFFICES ASSUME NEW u \in planned' \ (archived' \cup stranded'), Ready(u)'
                 PROVE  \E q \in Procs : LooksAfter(q, u)'
    BY DEF NoStrandedPlan
  <2>4. u \in Tasks /\ u # t
    <3>1. t \in Tasks
      BY <1>5 DEF dbSetTaskLaunchPlan, TypedProc, Fits, Runs
    <3>2. u \in Tasks
      BY <1>5, <3>1 DEF dbSetTaskLaunchPlan, TypedTables
    <3>3. Unsatisfied(u) = {}
      BY <2>2, <2>3, <3>2 DEF Ready
    <3>4. QED
      BY <1>5, <2>3, <3>2, <3>3 DEF dbSetTaskLaunchPlan
  <2>5. u \in planned \ (archived \cup stranded)
    BY <1>5, <2>3, <2>4 DEF dbSetTaskLaunchPlan
  <2>6. QED
    BY <2>1, <2>2, <2>3, <2>4, <2>5 DEF NoStrandedPlan
<1>6. ASSUME NEW p \in Procs, NEW t \in Tasks, Returns(p, t),
             proc[p].at \in {"dispatching", "launching"} => proc[p].launch = t
      PROVE  \A u \in Tasks \ {t}, q \in Procs : LooksAfter(q, u) => LooksAfter(q, u)'
  BY <1>6, ReturnsKeeps DEF LooksAfter
<1>7. ASSUME NEW p \in Procs, dbDispatchTask(p)
      PROVE  NoStrandedPlan'
  <2> DEFINE c == [proc[p] EXCEPT !.at = "launching"]
  <2>1. Goes(p, c) /\ c.todo = proc[p].todo /\ c.launch = proc[p].launch
    BY <1>7 DEF dbDispatchTask, TypedProc, Command
  <2> HIDE DEF c
  <2>2. \A u \in Tasks, q \in Procs : LooksAfter(q, u) => LooksAfter(q, u)'
    BY <2>1, OthersStay DEF LooksAfter
  <2>3. \A u \in Tasks : Ready(u)' <=> Ready(u)
    BY <1>7, SameReady DEF dbDispatchTask
  <2>4. QED
    BY <1>7, <2>2, <2>3, SamePlans DEF dbDispatchTask, TypedTables
<1>8. ASSUME NEW p \in Procs, MakesActive(p)
      PROVE  NoStrandedPlan'
  <2> DEFINE t == proc[p].launch
  <2>1. t \in Tasks
    BY <1>8 DEF MakesActive, TypedProc, Runs, Fits
  <2>2. \A u \in Tasks \ {t}, q \in Procs : LooksAfter(q, u) => LooksAfter(q, u)'
    BY <1>6, <1>8, <2>1 DEF MakesActive
  <2>3. \A u \in Tasks : Ready(u)' => Ready(u) /\ u # t
    BY <1>8, <2>1 DEF MakesActive, Ready, Unsatisfied, TypedTables
  <2>4. QED
    BY <1>8, <2>2, <2>3, SamePlans DEF MakesActive, TypedTables, history
<1>9. ASSUME NEW p \in Procs, Dies(p), UNCHANGED tables
      PROVE  NoStrandedPlan'
  <2>1. \A q \in Procs \ {p} : proc'[q] = proc[q]
    BY <1>9, OthersStay DEF Dies
  <2>2. SUFFICES ASSUME NEW u \in planned \ (archived \cup stranded'), Ready(u)
                 PROVE  \E q \in Procs : LooksAfter(q, u)'
    BY <1>9 DEF NoStrandedPlan, tables, Ready, Unsatisfied
  <2>3. u \notin {proc[p].launch} \cup proc[p].todo /\ u \notin stranded
    BY <1>9, <2>2 DEF Dies
  <2>4. PICK q \in Procs : LooksAfter(q, u)
    BY <2>2, <2>3 DEF NoStrandedPlan
  <2>5. q # p
    BY <2>3, <2>4 DEF LooksAfter
  <2>6. QED
    BY <2>1, <2>4, <2>5 DEF LooksAfter
<1>10. ASSUME NEW p \in Procs, DispatchThrows(p)
       PROVE  NoStrandedPlan'
  <2> DEFINE t == proc[p].launch
  <2>1. t \in Tasks
    BY <1>10 DEF DispatchThrows, TypedProc, Runs, Fits
  <2>2. CASE proc[p].then = "relaunching"
    <3>1. \A u \in Tasks \ {t}, q \in Procs : LooksAfter(q, u) => LooksAfter(q, u)'
      BY <1>6, <1>10, <2>1, <2>2 DEF DispatchThrows
    <3>2. \A u \in Tasks : Ready(u)' <=> Ready(u)
      BY <1>10, SameReady DEF DispatchThrows, tables
    <3>3. UNCHANGED <<planned, archived>> /\ stranded' = stranded \cup (planned \cap {t})
      BY <1>10, <2>2 DEF DispatchThrows, tables
    <3>4. QED
      BY <3>1, <3>2, <3>3, SamePlans DEF TypedTables
  <2>3. CASE proc[p].then # "relaunching"
    BY <1>9, <1>10, <2>3 DEF DispatchThrows
  <2>4. QED
    BY <2>2, <2>3
<1>11. ASSUME NEW p \in Procs, MarksSatisfied(p)
       PROVE  NoStrandedPlan'
  <2> DEFINE heads == Dependents(proc[p].task)
             todo == proc[p].todo
  <2>1. todo \in SUBSET Tasks /\ proc[p].launch = NoTask
    BY <1>11 DEF MarksSatisfied, TypedProc, Command, Runs, Fits
  <2>2. \A u \in Tasks \ heads : Ready(u)' => Ready(u)
    BY <1>11 DEF MarksSatisfied, Ready, Unsatisfied, Dependents
  <2>3. UNCHANGED <<archived, planned>> /\ stranded' = stranded \cup (planned \cap (heads \ todo))
    BY <1>11 DEF MarksSatisfied
  <2>4. proc'[p].todo = todo /\ \A q \in Procs \ {p} : proc'[q] = proc[q]
    BY <1>11, <2>1, OthersStay, LooksAtAll DEF MarksSatisfied
  <2> HIDE DEF heads, todo
  <2>5. \A u \in Tasks, q \in Procs : LooksAfter(q, u) => LooksAfter(q, u)'
    BY <2>1, <2>4, TasksAssumption DEF LooksAfter, todo
  <2>6. \A u \in todo : LooksAfter(p, u)'
    BY <2>4 DEF LooksAfter
  <2>7. QED
    BY <2>2, <2>3, <2>5, <2>6 DEF NoStrandedPlan, TypedTables
<1>12. ASSUME NEW p \in Procs, dbMarkTaskDependenciesSatisfiedByUpstream(p)
       PROVE  NoStrandedPlan'
  <2>1. UNCHANGED <<tables, history>> /\ Runs(p, "satisfying") /\ \E c : Goes(p, c)
    BY <1>12 DEF dbMarkTaskDependenciesSatisfiedByUpstream
  <2>2. \A u \in Tasks, q \in Procs : LooksAfter(q, u) => LooksAfter(q, u)'
    BY <2>1, StartsLosesNothing DEF Runs, Early
  <2>3. \A u \in Tasks : Ready(u)' <=> Ready(u)
    BY <2>1, SameReady DEF tables
  <2>4. QED
    BY <2>1, <2>2, <2>3, SamePlans DEF tables, history, TypedTables
<1>13. ASSUME NEW p \in Procs, NEW t \in Tasks,
              ReconcileTaskReadinessTransition(p, t) \/ RelaunchTask(p, t)
       PROVE  NoStrandedPlan'
  <2> DEFINE c == [proc[p] EXCEPT !.at = "dispatching", !.launch = t]
  <2>1. proc[p] \in Command /\ Fits(proc[p]) /\ proc[p].at \in {"reconciling", "relaunching"}
    BY <1>13 DEF ReconcileTaskReadinessTransition, RelaunchTask, TypedProc, Runs
  <2>2. UNCHANGED <<tables, history>>
    BY <1>13 DEF ReconcileTaskReadinessTransition, RelaunchTask
  <2>3. \A u \in Tasks : Ready(u)' <=> Ready(u)
    BY <2>2, SameReady DEF tables
  <2>4. CASE Goes(p, c)
    <3>1. c.todo = proc[p].todo
      BY <2>1 DEF Command
    <3> HIDE DEF c
    <3>2. proc'[p] = c /\ \A q \in Procs \ {p} : proc'[q] = proc[q]
      BY <2>4, OthersStay
    <3>3. \A u \in Tasks, q \in Procs : LooksAfter(q, u) => LooksAfter(q, u)'
      BY <2>1, <3>1, <3>2, TasksAssumption DEF LooksAfter, Fits
    <3>4. QED
      BY <2>2, <2>3, <3>3, SamePlans DEF tables, history, TypedTables
  <2>5. CASE Returns(p, t) /\ ~(Ready(t) /\ t \in planned \ archived)
    <3>1. \A u \in Tasks \ {t}, q \in Procs : LooksAfter(q, u) => LooksAfter(q, u)'
      BY <1>6, <2>1, <2>5
    <3>2. SUFFICES ASSUME NEW u \in planned \ (archived \cup stranded), Ready(u)
                   PROVE  \E q \in Procs : LooksAfter(q, u)'
      BY <2>2, <2>3 DEF NoStrandedPlan, tables, history, TypedTables
    <3>3. u # t /\ u \in Tasks
      BY <2>5, <3>2 DEF TypedTables
    <3>4. QED
      BY <3>1, <3>2, <3>3 DEF NoStrandedPlan
  <2>6. QED
    BY <1>13, <2>4, <2>5 DEF ReconcileTaskReadinessTransition, RelaunchTask, Ready
<1>14. ASSUME NEW p \in Procs, NEW e \in Edges, dbAddTaskDependency(p, e)
       PROVE  NoStrandedPlan'
  <2>1. \A u \in Tasks, q \in Procs : LooksAfter(q, u) => LooksAfter(q, u)'
    BY <1>14, StartsLosesNothing DEF dbAddTaskDependency, Runs, Early
  <2>2. \A u \in Tasks : Ready(u)' => Ready(u)
    BY <1>14 DEF dbAddTaskDependency, Ready, Unsatisfied, TypedTables
  <2>3. QED
    BY <1>14, <2>1, <2>2, SamePlans DEF dbAddTaskDependency, TypedTables
<1>15. ASSUME NEW p \in Procs, NEW e \in Edges, dbRemoveTaskDependency(p, e)
       PROVE  NoStrandedPlan'
  <2>1. \A u \in Tasks, q \in Procs : LooksAfter(q, u) => LooksAfter(q, u)'
    BY <1>15, StartsLosesNothing DEF dbRemoveTaskDependency, Runs, Early
  <2>2. \A u \in Tasks \ {e[1]} : Ready(u)' => Ready(u)
    BY <1>15 DEF dbRemoveTaskDependency, Ready, Unsatisfied
  <2>3. UNCHANGED <<planned, archived>> /\ stranded \subseteq stranded'
    BY <1>15 DEF dbRemoveTaskDependency
  <2>4. CASE ~proc[p].waited /\ e \in needs
    BY <1>15, <2>1, <2>2, <2>3, <2>4, SamePlans DEF dbRemoveTaskDependency, TypedTables
  <2>5. CASE e \notin needs
    <3>1. \A u \in Tasks : Ready(u)' => Ready(u)
      BY <1>15, <2>5 DEF dbRemoveTaskDependency, Ready, Unsatisfied, TypedTables
    <3>2. QED
      BY <2>1, <2>3, <3>1, SamePlans DEF TypedTables
  <2>6. CASE proc[p].waited /\ e \in needs
    <3>1. Goes(p, LooksAt({e[1]}))
      BY <1>15, <2>6 DEF dbRemoveTaskDependency, Edited
    <3>2. proc'[p].todo = {e[1]}
      <4>1. proc'[p] = LooksAt({e[1]})
        BY <3>1, OthersStay
      <4>2. {e[1]} \in SUBSET Tasks
        BY EndsOfEdges
      <4>3. QED
        BY <4>1, <4>2, LooksAtAll
    <3>3. LooksAfter(p, e[1])'
      BY <3>2 DEF LooksAfter
    <3>4. QED
      BY <2>1, <2>2, <2>3, <3>3 DEF NoStrandedPlan, TypedTables
  <2>7. QED
    BY <2>4, <2>5, <2>6
<1>16. ASSUME NEW p \in Procs, Crash(p)
       PROVE  NoStrandedPlan'
  BY <1>9, <1>16 DEF Crash
<1>17. CASE UNCHANGED vars
  BY <1>17, SamePlans DEF vars, tables, history, Ready, Unsatisfied, LooksAfter
<1>18. QED
  BY <1>1, <1>2, <1>7, <1>4, <1>5, <1>8, <1>10, <1>11, <1>13, <1>14, <1>15, <1>16, <1>17, <1>12,
    TasksAssumption
  DEF Next, WritesOnce, CommandGoesOn

\* A plan whose task may start is on its way to be dispatched, or it is known who
\* gave it up.
THEOREM PlansLookedAfter == Spec => []NoStrandedPlan
<1>1. Init => NoStrandedPlan
  BY DEF Init, NoStrandedPlan
<1>2. Typed /\ NoStrandedPlan /\ [Next]_vars => NoStrandedPlan'
  BY PlansStep
<1>3. QED
  BY <1>1, <1>2, AlwaysTyped, PTL DEF Spec

------------------------------------------------------------------------------
(* No circle                                                                *)

\* What a check saw stays what it saw.
LEMMA CheckedStep ==
  ASSUME Typed, Checked, [Next]_vars
  PROVE  Checked'
<1> USE DEF Typed
<1>1. CASE UNCHANGED proc
  BY <1>1 DEF Checked, Runs
<1>2. ASSUME NEW p \in Procs, NEW c, Goes(p, c), c.at # "inserting"
      PROVE  Checked'
  <2>1. proc'[p] = c /\ \A q \in Procs \ {p} : proc'[q] = proc[q]
    BY <1>2, OthersStay
  <2>2. QED
    BY <1>2, <2>1 DEF Checked, Runs
<1>3. ASSUME NEW p \in Procs, NEW e \in Edges, AddTaskDependency(p, e)
      PROVE  Checked'
  <2> DEFINE c == [Idle EXCEPT !.at = "inserting", !.edge = {e}, !.seen = needs,
                               !.resolved = Resolved(e[2]), !.waited = Unsatisfied(e[1]) # {}]
  <2>1. c.edge = {e} /\ c.seen = needs
    BY DEF Idle
  <2>2. \E S \in SUBSET Tasks : ClosedUnder(S, needs) /\ e[2] \in S /\ e[1] \notin S
    BY <1>3 DEF AddTaskDependency, TaskDependsOn, ClosedUnder
  <2>3. Goes(p, c)
    BY <1>3 DEF AddTaskDependency
  <2> HIDE DEF c
  <2>4. proc'[p] = c /\ \A q \in Procs \ {p} : proc'[q] = proc[q]
    BY <2>3, OthersStay
  <2>5. QED
    BY <2>1, <2>2, <2>4 DEF Checked, Runs
<1>4. Idle.at # "inserting" /\ \A todo : LooksAt(todo).at # "inserting"
  BY DEF Idle, LooksAt
<1>5. ASSUME NEW p \in Procs, NEW t \in Tasks, Returns(p, t)
      PROVE  Checked'
  <2> DEFINE rest == [proc[p] EXCEPT !.at = proc[p].then, !.launch = NoTask, !.todo = @ \ {t}]
  <2>1. rest.at # "inserting"
    BY DEF TypedProc, Command
  <2>2. Goes(p, Idle) \/ Goes(p, rest)
    BY <1>5 DEF Returns
  <2> HIDE DEF rest
  <2>3. QED
    BY <1>2, <1>4, <2>1, <2>2
<1>6. ASSUME NEW p \in Procs, CommandStarts(p)
      PROVE  Checked'
  <2>1. ASSUME NEW t \in Tasks, QueueTaskLaunch(p, t)
        PROVE  Checked'
    BY <1>2, <2>1 DEF QueueTaskLaunch, Idle
  <2>2. ASSUME NEW t \in Tasks, NEW put, ChecksStatus(p, t, put)
        PROVE  Checked'
    BY <1>2, <2>2 DEF ChecksStatus, Idle
  <2>3. ASSUME NEW t \in ByHand, DispatchTask(p, t)
        PROVE  Checked'
    BY <1>2, <2>3 DEF DispatchTask, Idle
  <2>4. ASSUME NEW e \in Edges, RemoveTaskDependency(p, e)
        PROVE  Checked'
    BY <1>2, <2>4 DEF RemoveTaskDependency, Idle
  <2>5. ASSUME RecoverOpenTasks(p)
        PROVE  Checked'
    BY <1>2, <2>5 DEF RecoverOpenTasks, Idle
  <2>6. QED
    BY <1>3, <1>6, <2>1, <2>2, <2>3, <2>4, <2>5, TasksAssumption DEF CommandStarts
<1>7. ASSUME NEW p \in Procs, CommandGoesOn(p)
      PROVE  Checked'
  <2>1. ASSUME dbSetTaskLaunchPlan(p)
        PROVE  Checked'
    BY <1>2, <1>4, <2>1 DEF dbSetTaskLaunchPlan
  <2>2. ASSUME MakesActive(p) \/ DispatchThrows(p)
        PROVE  Checked'
    <3>1. proc[p].launch \in Tasks
      BY <2>2 DEF MakesActive, DispatchThrows, TypedProc, Runs, Fits
    <3>2. QED
      BY <1>2, <1>4, <1>5, <2>2, <3>1 DEF MakesActive, DispatchThrows, Dies
  <2>3. ASSUME dbDispatchTask(p) \/ WritesStatus(p) \/ RecordsDone(p)
               \/ dbMarkTaskDependenciesSatisfiedByUpstream(p) \/ MarksSatisfied(p)
        PROVE  Checked'
    <3> DEFINE found == Dependents(proc[p].task)
    <3>1. /\ [proc[p] EXCEPT !.at = "launching"].at # "inserting"
          /\ [Idle EXCEPT !.at = "recording", !.task = proc[p].task].at # "inserting"
          /\ [proc[p] EXCEPT !.at = "satisfying"].at # "inserting"
          /\ [proc[p] EXCEPT !.at = "marking", !.todo = found].at # "inserting"
      BY DEF Idle, TypedProc, Command
    <3>2. \/ Goes(p, [proc[p] EXCEPT !.at = "launching"])
          \/ Goes(p, [Idle EXCEPT !.at = "recording", !.task = proc[p].task])
          \/ Goes(p, [proc[p] EXCEPT !.at = "satisfying"])
          \/ Goes(p, [proc[p] EXCEPT !.at = "marking", !.todo = found])
          \/ Goes(p, Idle) \/ Goes(p, LooksAt(proc[p].todo))
      BY <2>3 DEF dbDispatchTask, WritesStatus, RecordsDone,
        dbMarkTaskDependenciesSatisfiedByUpstream, MarksSatisfied
    <3>3. QED
      BY <1>2, <1>4, <3>1, <3>2
  <2>4. ASSUME NEW t \in Tasks, ReconcileTaskReadinessTransition(p, t) \/ RelaunchTask(p, t)
        PROVE  Checked'
    <3> DEFINE c == [proc[p] EXCEPT !.at = "dispatching", !.launch = t]
    <3>1. c.at # "inserting"
      BY DEF TypedProc, Command
    <3>2. Goes(p, c) \/ Returns(p, t)
      BY <2>4 DEF ReconcileTaskReadinessTransition, RelaunchTask
    <3> HIDE DEF c
    <3>3. QED
      BY <1>2, <1>5, <3>1, <3>2
  <2>5. ASSUME NEW e \in Edges, dbAddTaskDependency(p, e) \/ dbRemoveTaskDependency(p, e)
        PROVE  Checked'
    <3>1. Goes(p, Idle) \/ Goes(p, Edited(p, e))
      BY <2>5 DEF dbAddTaskDependency, dbRemoveTaskDependency
    <3>2. Edited(p, e).at # "inserting"
      BY <1>4, IdleFits DEF Edited
    <3>3. QED
      BY <1>2, <1>4, <3>1, <3>2
  <2>6. QED
    BY <1>7, <2>1, <2>2, <2>3, <2>4, <2>5 DEF CommandGoesOn
<1>8. CASE WritesOnce
  BY <1>1, <1>8 DEF WritesOnce, dbArchiveTask, dbUnarchiveTask
<1>9. ASSUME NEW p \in Procs, Crash(p)
      PROVE  Checked'
  BY <1>2, <1>4, <1>9 DEF Crash, Dies
<1>10. CASE UNCHANGED vars
  BY <1>1, <1>10 DEF vars
<1>11. QED
  BY <1>6, <1>7, <1>8, <1>9, <1>10 DEF Next

\* Fewer dependencies make no circle.
LEMMA FewerNoCircle ==
  ASSUME NoCircle, needs' \ blind' \subseteq needs \ blind
  PROVE  NoCircle'
BY DEF NoCircle

\* One dependency more makes none, if what it leads to did not lead back to it.
LEMMA OneMoreNoCircle ==
  ASSUME Typed, NoCircle, NEW e \in Edges,
         \A f \in needs' \ blind' : f = e \/ f \in needs \ blind,
         NEW S0 \in SUBSET Tasks, ClosedUnder(S0, needs), e[2] \in S0, e[1] \notin S0
  PROVE  NoCircle'
<1> SUFFICES ASSUME NEW S \in (SUBSET Tasks) \ {{}},
                    \A t \in S : \E f \in needs' \ blind' : f[1] = t /\ f[2] \in S
             PROVE  FALSE
  BY ZenonT(30) DEF NoCircle
<1>1. CASE S \cap S0 = {}
  <2>1. \A t \in S : \E f \in needs \ blind : f[1] = t /\ f[2] \in S
    BY <1>1
  <2>2. QED
    BY ZenonT(30), <2>1 DEF NoCircle
<1>2. CASE S \cap S0 # {}
  <2> DEFINE X == S \cap S0
  <2>1. \A t \in X : \E f \in needs \ blind : f[1] = t /\ f[2] \in X
    BY DEF ClosedUnder
  <2>2. X \in (SUBSET Tasks) \ {{}}
    BY <1>2
  <2> HIDE DEF X
  <2>3. \E t \in X : \A f \in needs \ blind : f[1] = t => f[2] \notin X
    BY <2>2 DEF NoCircle
  <2>4. QED
    BY <2>1, <2>3
<1>3. QED
  BY <1>1, <1>2

\* A dependency that is written closes no circle, but one its check could not see.
LEMMA CircleStep ==
  ASSUME Typed, Checked, NoCircle, [Next]_vars
  PROVE  NoCircle'
<1>1. CASE UNCHANGED <<needs, blind>>
  BY <1>1, FewerNoCircle
<1>2. ASSUME NEW p \in Procs, NEW e \in Edges, dbAddTaskDependency(p, e)
      PROVE  NoCircle'
  <2>1. CASE e \in needs
    BY <1>1, <1>2, <2>1 DEF dbAddTaskDependency
  <2>2. CASE e \notin needs /\ ~(needs \subseteq proc[p].seen)
    BY <1>2, <2>2, FewerNoCircle DEF dbAddTaskDependency
  <2>3. CASE e \notin needs /\ needs \subseteq proc[p].seen
    <3>1. PICK S \in SUBSET Tasks : ClosedUnder(S, proc[p].seen) /\ e[2] \in S /\ e[1] \notin S
      BY <1>2 DEF dbAddTaskDependency, Checked
    <3>2. ClosedUnder(S, needs)
      BY <2>3, <3>1 DEF ClosedUnder
    <3>3. \A f \in needs' \ blind' : f = e \/ f \in needs \ blind
      BY <1>2, <2>3 DEF dbAddTaskDependency
    <3>4. QED
      BY <3>1, <3>2, <3>3, OneMoreNoCircle
  <2>4. QED
    BY <2>1, <2>2, <2>3
<1>3. ASSUME NEW p \in Procs, NEW e \in Edges, dbRemoveTaskDependency(p, e)
      PROVE  NoCircle'
  BY <1>3, FewerNoCircle DEF dbRemoveTaskDependency
<1>4. ASSUME NEW p \in Procs, CommandStarts(p)
      PROVE  NoCircle'
  BY <1>1, <1>4 DEF CommandStarts, QueueTaskLaunch, ChecksStatus, DispatchTask, AddTaskDependency,
    RemoveTaskDependency, RecoverOpenTasks, tables, history
<1>5. ASSUME NEW p \in Procs, CommandGoesOn(p)
      PROVE  NoCircle'
  BY <1>1, <1>2, <1>3, <1>5 DEF CommandGoesOn, dbSetTaskLaunchPlan, dbDispatchTask, DispatchThrows,
    WritesStatus, RecordsDone, MakesActive, MarksSatisfied, dbMarkTaskDependenciesSatisfiedByUpstream, ReconcileTaskReadinessTransition, RelaunchTask,
    tables, history, Dies
<1>6. CASE WritesOnce
  BY <1>1, <1>6 DEF WritesOnce, dbArchiveTask, dbUnarchiveTask, history
<1>7. ASSUME NEW p \in Procs, Crash(p)
      PROVE  NoCircle'
  BY <1>1, <1>7 DEF Crash, tables
<1>8. CASE UNCHANGED vars
  BY <1>1, <1>8 DEF vars, tables, history
<1>9. QED
  BY <1>4, <1>5, <1>6, <1>7, <1>8 DEF Next

\* The check of each dependency by itself keeps the whole graph free of circles,
\* but for those inserted next to others it had not seen.
THEOREM CirclesRefused == Spec => []NoCircle
<1> DEFINE Acyclic == Checked /\ NoCircle
<1>1. Init => Acyclic
  BY DEF Init, Checked, NoCircle, Idle, Runs
<1>2. Typed /\ Acyclic /\ [Next]_vars => Acyclic'
  BY CheckedStep, CircleStep
<1>3. QED
  BY <1>1, <1>2, AlwaysTyped, PTL DEF Spec

================================================================================
