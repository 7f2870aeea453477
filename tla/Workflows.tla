------------------------------- MODULE Workflows -------------------------------
(***************************************************************************)
(* A workflow run: nodes that wait for each other, are released, skipped,  *)
(* cancelled and archived by hand, and carried out by one task after the   *)
(* other (src/src/workflows/service.ts, workflow-db.ts).                   *)
(*                                                                         *)
(* Every command runs in a process of its own, over one SQLite file and    *)
(* without a transaction, and an UPDATE names its row and nothing that was *)
(* read of it.  A step is one write, or the reads before one: the checks   *)
(* of a command, the attempt's number, the list that a pass goes by, the   *)
(* task of a listed node, the nodes for the run's status.  Between two     *)
(* steps of a process others read and write, and it may end.  What is      *)
(* written only to be shown (who and when) is left out.                    *)
(***************************************************************************)
EXTENDS Naturals, FiniteSets

CONSTANTS
  Nodes,
  Tasks,
  Procs,    \* processes that run a command
  Specs,    \* the workflow specs a run is started from
  ByHand,   \* bound: the nodes that operators skip, cancel and archive
  Awaited,  \* bound: the tasks that may wait for a dependency of their own
  NoNode, NoTask

\* Of any nodes there is one that no other of them, nor itself, leads to.
Acyclic(edges) ==
  \A S \in (SUBSET Nodes) \ {{}} : \E m \in S : \A n \in S : <<n, m>> \notin edges

validateWorkflowGraph(edges) == edges \subseteq Nodes \X Nodes /\ Acyclic(edges)

\* gates: nodes of kind gate and approval, which are released by hand; so are the
\* task nodes in manual
WorkflowSpec ==
  {s \in [edges : SUBSET (Nodes \X Nodes), gates : SUBSET Nodes,
          manual : SUBSET Nodes, optional : SUBSET Nodes] :
     s.gates \subseteq s.manual /\ validateWorkflowGraph(s.edges)}

ASSUME WorkflowAssumption ==
  /\ Specs \subseteq WorkflowSpec /\ ByHand \subseteq Nodes /\ Awaited \subseteq Tasks
  /\ NoNode \notin Nodes /\ NoTask \notin Tasks

VARIABLES
  spec,       \* of the run
  node,       \* workflow_node_runs
  run,        \* workflow_runs.status
  owner, attempt,  \* workflow_node_run_tasks: the node of each task, and its number there
  task,       \* the status of each task
  proc,       \* what each process is about to do
  plan,       \* the nodes that its pass has listed and not visited
  drifted,    \* history: tables changed, or left half changed, and nodes not listed since
  late,       \* history: the run's status was last written for nodes that have changed
  taken,      \* history: an earlier attempt went on, or the check of a new one was overtaken
  early       \* history: who has read a node before it was over

tables == <<spec, node, run, owner, attempt, task>>
vars == <<tables, proc, plan, drifted, late, taken, early>>

Withdrawn == {"skipped", "cancelled", "archived"}
Final == Withdrawn \cup {"done", "failed"}
NodeStatuses == Final \cup {"pending", "awaiting_release", "ready", "running", "blocked"}
RunStatuses == {"draft", "waiting", "ready", "running", "blocked", "done", "failed", "cancelled"}

\* waiting: open, with a dependency that is not satisfied; running: dispatched or
\* in_progress
TaskStatuses == {"waiting", "open", "running", "blocked", "done", "failed"}
Ended == {"done", "failed"}

\* A process at work: releasing, putting, copying and passing are about to write the
\* status of a node, writing and noting that of a task; visiting and changing are in
\* a pass that has changed nothing, something
Places == {"idle", "linking", "inserting", "binding", "writing", "noting", "syncing",
           "releasing", "putting", "copying", "listing", "visiting", "changing",
           "passing", "closing"}

Work(at, n, t, status, k) ==
  [at |-> at, node |-> n, task |-> t, status |-> status, attempt |-> k]

Goes(p, at) == proc' = [proc EXCEPT ![p] = Work(at, NoNode, NoTask, "none", 0)]

\* a node that a pass has nothing to do with, or is through with
NoVisit == [listed |-> "none", task |-> NoTask, next |-> "none"]

------------------------------------------------------------------------------
(* What the tables say a status should be                                   *)

SatisfiedUnlessArchived(n) ==
  \/ node[n].status = "done"
  \/ node[n].status \in {"skipped", "cancelled"} /\ n \in spec.optional

nodeRunSatisfiesOutgoingEdges(n) ==
  \/ node[n].status \in {"done", "archived"}
  \/ node[n].status \in {"skipped", "cancelled"} /\ n \in spec.optional

WaitingOn(n) == {m \in Nodes : <<m, n>> \in spec.edges /\ ~nodeRunSatisfiesOutgoingEdges(m)}

AwaitingRelease(n) == WaitingOn(n) = {} /\ n \in spec.manual /\ ~node[n].released

TaskStatusAsIs(t) == task[t]

deriveWorkflowNodeRunStatusFromTask(t) ==
  CASE task[t] = "waiting" -> "pending"
    [] task[t] = "open"    -> "ready"
    [] OTHER               -> task[t]

\* ... of node n, while t is its task
Derived(n, t) ==
  IF WaitingOn(n) # {} THEN "pending"
  ELSE IF AwaitingRelease(n) THEN "awaiting_release"
  ELSE IF t = NoTask THEN "ready"
  ELSE deriveWorkflowNodeRunStatusFromTask(t)

Live == {n \in Nodes : node[n].status # "archived"}
Some(statuses) == \E n \in Live : node[n].status \in statuses

\* completed: the required nodes, or all if none is required
deriveWorkflowRunStatus ==
  LET required  == Live \ spec.optional
      completed == IF required # {} THEN required ELSE Live
  IN IF Live = {} THEN "draft"
     ELSE IF Some({"failed"}) THEN "failed"
     ELSE IF \E n \in required : node[n].status = "cancelled" THEN "cancelled"
     ELSE IF Some({"running"}) THEN "running"
     ELSE IF Some({"blocked"}) THEN "blocked"
     ELSE IF Some({"ready"}) THEN "ready"
     ELSE IF Some({"pending", "awaiting_release"}) THEN "waiting"
     ELSE IF \A n \in completed :
               \/ node[n].status = "done"
               \/ n \in spec.optional /\ node[n].status \in {"skipped", "cancelled"}
       THEN "done"
     ELSE "waiting"

\* startWorkflowRun, and the reconcile at its end, which finds nothing to change
Init ==
  /\ spec \in Specs
  /\ node = [n \in Nodes |->
       [status   |-> IF \E m \in Nodes : <<m, n>> \in spec.edges THEN "pending"
                     ELSE IF n \in spec.manual THEN "awaiting_release" ELSE "ready",
        task     |-> NoTask,
        released |-> FALSE,
        attempts |-> 0]]
  /\ run = deriveWorkflowRunStatus
  /\ owner = [t \in Tasks |-> NoNode] /\ attempt = [t \in Tasks |-> 0]
  /\ task \in [Tasks -> {"open", "waiting"}] /\ \A t \in Tasks \ Awaited : task[t] = "open"
  /\ proc = [p \in Procs |-> Work("idle", NoNode, NoTask, "none", 0)]
  /\ plan = [p \in Procs |-> [n \in Nodes |-> NoVisit]]
  /\ drifted = FALSE /\ late = FALSE /\ taken = FALSE /\ early = {}

------------------------------------------------------------------------------
(* The writes to a node                                                     *)

\* Withdrawn for good, or a gate that was released.
Over(n) == node[n].status \in Withdrawn \/ (n \in spec.gates /\ node[n].status = "done")

\* who goes by what it has read of node n
Holding(q) == proc[q].at \in {"releasing", "putting", "copying", "visiting", "changing", "passing"}

\* t is an attempt that a later one has followed.
Earlier(t) ==
  \E u \in Tasks : owner[t] # NoNode /\ owner[u] = owner[t] /\ attempt[t] < attempt[u]

\* A copy makes the node its task's, even if it has another by now.
dbUpdateWorkflowNodeRun(p, n) ==
  LET w == proc[p]
  IN /\ w.at \in {"releasing", "putting", "copying", "passing"} /\ w.node = n
     /\ node' = [node EXCEPT ![n].status = w.status,
                            ![n].released = (@ \/ w.at = "releasing"),
                            ![n].task = IF w.at = "copying" THEN w.task ELSE @]
     /\ Goes(p, IF w.at = "passing" THEN "changing" ELSE "listing")
     /\ taken' = (taken \/ (w.at = "copying" /\ Earlier(w.task)))
     /\ UNCHANGED <<spec, run, owner, attempt, task, plan, drifted, late>>
     /\ early' = IF ~Over(n) /\ Over(n)' THEN early \cup {<<q, n>> : q \in {r \in Procs : Holding(r)}}
                ELSE early

------------------------------------------------------------------------------
(* reconcileWorkflowRun: passes over the nodes, until one changes nothing   *)

\* The node as it is listed, what it should be by the list, and the task that says
\* more; nodes that are final are passed over.
Visit(n) ==
  IF node[n].status \in Final THEN NoVisit
  ELSE [listed |-> node[n].status,
        task   |-> IF WaitingOn(n) = {} /\ ~AwaitingRelease(n) THEN node[n].task ELSE NoTask,
        next   |-> Derived(n, NoTask)]

PassIsOver(p) == \A n \in Nodes : plan[p][n] = NoVisit

Lists(p) ==
  /\ proc[p].at = "listing" \/ (proc[p].at = "changing" /\ PassIsOver(p))
  /\ plan' = [plan EXCEPT ![p] = [n \in Nodes |-> Visit(n)]]
  /\ Goes(p, "visiting")
  /\ drifted' = FALSE
  /\ early' = early \ ({p} \X Nodes)
  /\ UNCHANGED <<tables, late, taken>>

\* A node that stays pending is written again when it waits for other nodes than
\* before (waitingOnNodeKeys).
Visits(p, n) ==
  LET v    == plan[p][n]
      next == IF v.task = NoTask THEN v.next ELSE deriveWorkflowNodeRunStatusFromTask(v.task)
  IN /\ proc[p].at \in {"visiting", "changing"} /\ v # NoVisit
     /\ plan' = [plan EXCEPT ![p][n] = NoVisit]
     /\ \/ next = v.listed /\ UNCHANGED proc
        \/ /\ next # v.listed \/ next = "pending"
           /\ proc' = [proc EXCEPT ![p] = Work("passing", n, NoTask, next, 0)]
     /\ UNCHANGED <<tables, drifted, late, taken, early>>

OnePass(p) ==
  /\ proc[p].at \in {"visiting", "changing"} /\ PassIsOver(p)
  /\ proc' = [proc EXCEPT ![p] = Work("closing", NoNode, NoTask, deriveWorkflowRunStatus, 0)]
  /\ early' = early \ ({p} \X Nodes)
  /\ UNCHANGED <<tables, plan, drifted, late, taken>>

refreshWorkflowRunStatus(p) ==
  /\ proc[p].at = "visiting" /\ PassIsOver(p)
  /\ proc' = [proc EXCEPT ![p] = Work("closing", NoNode, NoTask, deriveWorkflowRunStatus, 0)]
  /\ early' = early \ ({p} \X Nodes)
  /\ UNCHANGED <<tables, plan, drifted, late, taken>>

dbUpdateWorkflowRun(p) ==
  /\ proc[p].at = "closing"
  /\ run' = proc[p].status
  /\ late' = (proc[p].status # deriveWorkflowRunStatus)
  /\ Goes(p, "idle")
  /\ UNCHANGED <<spec, node, owner, attempt, task, plan, drifted, taken, early>>

\* A process ends, or a write of it gives up the wait for the lock.
Crash(p) ==
  /\ proc[p].at # "idle"
  /\ Goes(p, "idle")
  /\ plan' = [plan EXCEPT ![p] = [n \in Nodes |-> NoVisit]]
  /\ drifted' = TRUE
  /\ early' = early \ ({p} \X Nodes)
  /\ UNCHANGED <<tables, late, taken>>

------------------------------------------------------------------------------
(* Commands on a node                                                       *)

Begins(p, work) ==
  /\ proc[p].at = "idle"
  /\ proc' = [proc EXCEPT ![p] = work]
  /\ UNCHANGED <<tables, plan, drifted, late, taken, early>>

NoActiveTask(n) == node[n].task # NoTask => task[node[n].task] \in Ended

releaseWorkflowNodeRun(p, n) ==
  /\ node[n].status = "awaiting_release" /\ NoActiveTask(n)
  /\ Begins(p, Work("releasing", n, NoTask, IF n \in spec.gates THEN "done" ELSE "ready", 0))

skipWorkflowNodeRun(p, n) ==
  /\ node[n].status \notin Withdrawn /\ n \in spec.optional /\ NoActiveTask(n)
  /\ Begins(p, Work("putting", n, NoTask, "skipped", 0))

cancelWorkflowNodeRun(p, n) ==
  /\ node[n].status \notin Withdrawn /\ NoActiveTask(n)
  /\ Begins(p, Work("putting", n, NoTask, "cancelled", 0))

archiveWorkflowNodeRun(p, n) ==
  /\ NoActiveTask(n)
  /\ Begins(p, Work("putting", n, NoTask, "archived", 0))

AssertsNodeOnly(n) ==
  /\ n \notin spec.gates
  /\ node[n].status \notin Withdrawn \cup {"done", "running", "blocked"}
  /\ WaitingOn(n) = {} /\ ~AwaitingRelease(n)
  /\ node[n].task # NoTask => node[n].status = "failed"

assertCanAttachTaskToWorkflowNodeRun(n) ==
  /\ n \notin spec.gates
  /\ node[n].status \notin Withdrawn \cup {"done", "running", "blocked"}
  /\ WaitingOn(n) = {} /\ ~AwaitingRelease(n)
  /\ node[n].task # NoTask => node[n].status = "failed"
  /\ NoActiveTask(n)

attachTaskToWorkflowNodeRun(p, n, t) ==
  /\ assertCanAttachTaskToWorkflowNodeRun(n)
  /\ Begins(p, Work("linking", n, t, "none", 0))

dbLinkTaskToWorkflowNodeRun(p) ==
  LET w == proc[p]
  IN /\ w.at = "linking"
     /\ IF owner[w.task] # NoNode THEN Goes(p, "idle")
        ELSE proc' = [proc EXCEPT ![p] =
               Work("inserting", w.node, w.task, "none", node[w.node].attempts + 1)]
     /\ UNCHANGED <<tables, plan, drifted, late, taken, early>>

\* The table's keys: a task belongs to one node, and a number to one task of a node.
InsertsAttempt(p) ==
  LET w == proc[p]
  IN /\ w.at = "inserting"
     /\ IF \/ owner[w.task] # NoNode
           \/ \E u \in Tasks : owner[u] = w.node /\ attempt[u] = w.attempt
        THEN Goes(p, "idle") /\ UNCHANGED <<owner, attempt, taken>>
        ELSE /\ owner' = [owner EXCEPT ![w.task] = w.node]
             /\ attempt' = [attempt EXCEPT ![w.task] = w.attempt]
             /\ proc' = [proc EXCEPT ![p].at = "binding"]
             /\ taken' = (taken \/ ~assertCanAttachTaskToWorkflowNodeRun(w.node))
     /\ UNCHANGED <<spec, node, run, task, plan, drifted, late, early>>

BindsTask(p) ==
  LET w == proc[p]
  IN /\ w.at = "binding"
     /\ node' = [node EXCEPT ![w.node].task = w.task, ![w.node].attempts = w.attempt]
     /\ proc' = [proc EXCEPT ![p] = Work("syncing", NoNode, w.task, "none", 0)]
     /\ UNCHANGED <<spec, run, owner, attempt, task, plan, drifted, late, taken, early>>

------------------------------------------------------------------------------
(* Commands on a task                                                       *)

\* also a task that is over, and one of an earlier attempt
dispatchTask(p, t) ==
  /\ task[t] # "waiting"
  /\ Begins(p, Work("writing", NoNode, t, "running", 0))

\* blockTask, failTask, completeTask: of a task that is over, only the copy is made
Reports(p, t, status) ==
  Begins(p, IF task[t] \in Ended THEN Work("syncing", NoNode, t, "none", 0)
            ELSE Work("writing", NoNode, t, status, 0))

\* reportTaskProgress, a comment on a blocked task, and the session that takes the
\* task up copy nothing
ReportsProgress(p, t) ==
  /\ task[t] \notin Ended
  /\ Begins(p, Work("noting", NoNode, t, "running", 0))

WritesTask(p) ==
  LET w == proc[p]
  IN /\ w.at \in {"writing", "noting"}
     /\ task' = [task EXCEPT ![w.task] = w.status]
     /\ taken' = (taken \/ (Earlier(w.task) /\ w.status \notin Ended))
     /\ IF w.at = "noting" THEN Goes(p, "idle") /\ drifted' = TRUE
        ELSE /\ proc' = [proc EXCEPT ![p] = Work("syncing", NoNode, w.task, "none", 0)]
             /\ UNCHANGED drifted
     /\ UNCHANGED <<spec, node, run, owner, attempt, plan, late, early>>

\* a dependency is added or satisfied
Awaits(t) ==
  /\ \/ t \in Awaited /\ task[t] = "open" /\ task' = [task EXCEPT ![t] = "waiting"]
     \/ task[t] = "waiting" /\ task' = [task EXCEPT ![t] = "open"]
  /\ drifted' = TRUE
  /\ UNCHANGED <<spec, node, run, owner, attempt, proc, plan, late, taken, early>>

SyncsAny(p) ==
  LET t == proc[p].task
      n == owner[t]
  IN /\ proc[p].at = "syncing"
     /\ IF n = NoNode THEN Goes(p, "idle")
        ELSE proc' = [proc EXCEPT ![p] = Work("copying", n, t, Derived(n, t), 0)]
     /\ UNCHANGED <<tables, plan, drifted, late, taken, early>>

syncWorkflowNodeRunForTask(p) ==
  LET t == proc[p].task
      n == owner[t]
  IN /\ proc[p].at = "syncing"
     /\ IF n = NoNode \/ node[n].status \in Withdrawn THEN Goes(p, "idle")
        ELSE proc' = [proc EXCEPT ![p] = Work("copying", n, t, Derived(n, t), 0)]
     /\ UNCHANGED <<tables, plan, drifted, late, taken, early>>

------------------------------------------------------------------------------

OnNode(p, n) ==
  \/ releaseWorkflowNodeRun(p, n)
  \/ n \in ByHand /\ (skipWorkflowNodeRun(p, n) \/ cancelWorkflowNodeRun(p, n)
                       \/ archiveWorkflowNodeRun(p, n))
  \/ \E t \in Tasks : attachTaskToWorkflowNodeRun(p, n, t)

OnTask(p, t) ==
  \/ dispatchTask(p, t)
  \/ \E status \in {"blocked", "failed", "done"} : Reports(p, t, status)
  \/ ReportsProgress(p, t)

Links(p) == dbLinkTaskToWorkflowNodeRun(p) \/ InsertsAttempt(p) \/ BindsTask(p)

Reconciles(p) ==
  Lists(p) \/ (\E n \in Nodes : Visits(p, n)) \/ refreshWorkflowRunStatus(p)

Writes(p) ==
  WritesTask(p) \/ (\E n \in Nodes : dbUpdateWorkflowNodeRun(p, n)) \/ dbUpdateWorkflowRun(p)

Next ==
  \/ \E p \in Procs : \/ \E n \in Nodes : OnNode(p, n)
                      \/ \E t \in Tasks : OnTask(p, t)
                      \/ Links(p) \/ syncWorkflowNodeRunForTask(p) \/ Reconciles(p) \/ Writes(p)
                      \/ Crash(p)
  \/ \E t \in Tasks : Awaits(t)

Spec == Init /\ [][Next]_vars

------------------------------------------------------------------------------
(* Properties                                                               *)

\* The tables and the processes hold what they are declared to hold.
TypeOK ==
  /\ spec \in Specs
  /\ node \in [Nodes -> [status : NodeStatuses, task : Tasks \cup {NoTask},
                        released : BOOLEAN, attempts : Nat]]
  /\ run \in RunStatuses
  /\ owner \in [Tasks -> Nodes \cup {NoNode}] /\ attempt \in [Tasks -> Nat]
  /\ task \in [Tasks -> TaskStatuses]
  /\ proc \in [Procs -> [at : Places, node : Nodes \cup {NoNode}, task : Tasks \cup {NoTask},
                         status : NodeStatuses \cup RunStatuses \cup {"none"}, attempt : Nat]]
  /\ plan \in [Procs -> [Nodes -> [listed : NodeStatuses \cup {"none"}, task : Tasks \cup {NoTask},
                                  next : NodeStatuses \cup {"none"}]]]
  /\ drifted \in BOOLEAN /\ late \in BOOLEAN /\ taken \in BOOLEAN
  /\ early \subseteq Procs \X Nodes

Quiet == ~drifted /\ \A p \in Procs : proc[p].at = "idle"

\* Once the commands are through, every node that is not final has the status its
\* predecessors, its release and its task give it, whatever old lists were written
\* over newer ones on the way; and so has the run, unless the write to it that came
\* last went by nodes that had changed.
Settled ==
  Quiet => /\ \A n \in Nodes : node[n].status \in Final \/ node[n].status = Derived(n, node[n].task)
           /\ late \/ run = deriveWorkflowRunStatus

\* Somebody can take the node on, or it waits for a dependency of its own task.
GoesOn(n) ==
  /\ node[n].status \notin Final /\ WaitingOn(n) = {}
  /\ n \in spec.gates => node[n].status = "awaiting_release"
  /\ node[n].status = "pending" => task[node[n].task] = "waiting"

\* A run that is not over is never stuck: some node is at work, or can be started
\* or released, or waits for a dependency of its own task; unless the run's status
\* is late, or the release of a gate was written over.
NotStuck ==
  /\ Quiet /\ ~late /\ run \in {"waiting", "ready", "running", "blocked"}
  /\ \A n \in spec.gates : node[n].released => Over(n)
  => \E n \in Nodes : GoesOn(n)

\* A node is carried out by one task at a time: no task is attached before the
\* earlier ones are over, unless one of them went on after that, or the task was
\* attached by a check that another command had overtaken.
OneAttempt ==
  ~taken => \A t, u \in Tasks :
    owner[t] = owner[u] /\ owner[t] # NoNode /\ {task[t], task[u]} \cap Ended = {} => t = u

\* A node that was skipped, cancelled or archived, or a gate that was released, is
\* brought back by nothing but a process that had read it before: no report of a
\* task it had, and no command or pass that begins later.
OverStays ==
  [][\A n \in Nodes : Over(n) /\ ~Over(n)' =>
       \E p \in Procs : <<p, n>> \in early /\ proc'[p] # proc[p]]_vars

==============================================================================
