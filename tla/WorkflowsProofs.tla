--------------------------- MODULE WorkflowsProofs ---------------------------
(***************************************************************************)
(* Theorems about Workflows, for any graph, any number of tasks and any    *)
(* number of processes, whose steps fall between each other's reads and    *)
(* writes in any order.                                                    *)
(*                                                                         *)
(* What each step writes is stated once (the lemmas named ...Does); the    *)
(* invariants are kept by what these say.                                  *)
(*                                                                         *)
(* Settled holds when the commands are through.  On the way, a process     *)
(* that is about to write a node will list the nodes afterwards; so if     *)
(* none of these is left, and some node is behind, a process is in a pass  *)
(* whose list is still what the tables say, and has not come to the node,  *)
(* or is about to copy its task (Followed).  The run's status likewise     *)
(* (Counted).                                                              *)
(*                                                                         *)
(* The attempts of a node are numbered without a gap, and at most one is   *)
(* ahead of the node's count: one that is being bound, or was left by a    *)
(* process that ended (Numbered).  So an attempt that the table accepts is *)
(* the next one; if its check still holds, the earlier ones are over       *)
(* (Superseded).  A process that may take a node back is known to have     *)
(* read it before (Known).                                                 *)
(***************************************************************************)
EXTENDS Workflows, TLAPS

NodeRec == [status : NodeStatuses, task : Tasks \cup {NoTask}, released : BOOLEAN, attempts : Nat]

ProcRec == [at : Places, node : Nodes \cup {NoNode}, task : Tasks \cup {NoTask},
            status : NodeStatuses \cup RunStatuses \cup {"none"}, attempt : Nat]

VisitRec == [listed : NodeStatuses \cup {"none"}, task : Tasks \cup {NoTask},
             next : NodeStatuses \cup {"none"}]

\* The others go on as they were.
Others(p) == \A q \in Procs \ {p} : proc'[q] = proc[q]

\* What a process is about to do has what it takes.
Fit(w) ==
  /\ w.at \in {"linking", "inserting", "binding"} => w.node \in Nodes \ spec.gates /\ w.task \in Tasks
  /\ w.at \in {"writing", "noting", "syncing"} => w.task \in Tasks
  /\ w.at \in {"writing", "noting"} => w.status \in TaskStatuses
  /\ w.at \in {"releasing", "putting", "copying", "passing"} => w.node \in Nodes /\ w.status \in NodeStatuses
  /\ w.at \in {"binding", "copying"} => w.task \in Tasks /\ owner[w.task] = w.node
  /\ w.at = "putting" => w.status \in Withdrawn
  /\ w.at = "releasing" /\ w.node \in spec.gates => w.status = "done"
  /\ w.at \in {"releasing", "putting", "copying", "passing"} /\ w.status = "skipped" =>
       w.node \in spec.optional
  /\ w.at = "closing" => w.status \in RunStatuses

Fits == \A p \in Procs : Fit(proc[p])

PlansFit ==
  \A p \in Procs, n \in Nodes :
    plan[p][n] # NoVisit => plan[p][n].next \in NodeStatuses \ {"skipped"}

Owned ==
  /\ \A n \in Nodes : node[n].task # NoTask => owner[node[n].task] = n
  /\ \A t \in Tasks : owner[t] \notin spec.gates

OptionalSkips == \A n \in Nodes : node[n].status = "skipped" => n \in spec.optional

Typed == TypeOK /\ Fits /\ PlansFit /\ Owned /\ OptionalSkips

------------------------------------------------------------------------------
(* What is declared                                                         *)

\* The types of the tables and of the processes, one by one.
LEMMA TypesAre ==
  ASSUME TypeOK
  PROVE  /\ spec \in WorkflowSpec
         /\ \A n \in Nodes : node[n] \in NodeRec
         /\ \A t \in Tasks : /\ owner[t] \in Nodes \cup {NoNode} /\ attempt[t] \in Nat
                             /\ task[t] \in TaskStatuses
         /\ \A p \in Procs : proc[p] \in ProcRec
         /\ \A p \in Procs, n \in Nodes : plan[p][n] \in VisitRec
         /\ node \in [Nodes -> NodeRec] /\ proc \in [Procs -> ProcRec]
         /\ plan \in [Procs -> [Nodes -> VisitRec]]
BY WorkflowAssumption DEF TypeOK, NodeRec, ProcRec, VisitRec

\* The graph of a run has no circle, and its gates are manual nodes.
LEMMA SpecShape ==
  ASSUME TypeOK
  PROVE  /\ spec.edges \subseteq Nodes \X Nodes /\ Acyclic(spec.edges)
         /\ spec.gates \subseteq spec.manual /\ spec.gates \subseteq Nodes
BY WorkflowAssumption DEF TypeOK, WorkflowSpec, validateWorkflowGraph

\* The fields of what a process is about to do.
LEMMA WorkIs ==
  ASSUME NEW at \in Places, NEW n \in Nodes \cup {NoNode}, NEW t \in Tasks \cup {NoTask},
         NEW s \in NodeStatuses \cup RunStatuses \cup {"none"}, NEW k \in Nat
  PROVE  LET w == Work(at, n, t, s, k)
         IN /\ w \in ProcRec /\ w.at = at /\ w.node = n /\ w.task = t /\ w.status = s
            /\ w.attempt = k
BY DEF Work, ProcRec

\* A process takes up what it is about to do.
LEMMA Becomes ==
  ASSUME TypeOK, NEW p \in Procs, NEW w \in ProcRec, proc' = [proc EXCEPT ![p] = w]
  PROVE  proc'[p] = w /\ Others(p) /\ proc' \in [Procs -> ProcRec]
BY DEF TypeOK, ProcRec, Others

\* A process goes to a place of its own.
LEMMA GoesTo ==
  ASSUME TypeOK, NEW p \in Procs, NEW at \in Places, Goes(p, at)
  PROVE  /\ proc'[p] = Work(at, NoNode, NoTask, "none", 0) /\ proc'[p].at = at
         /\ Others(p) /\ proc' \in [Procs -> ProcRec]
<1> DEFINE w == Work(at, NoNode, NoTask, "none", 0)
<1>1. w \in ProcRec /\ w.at = at
  BY DEF Work, ProcRec
<1>2. proc' = [proc EXCEPT ![p] = w]
  BY DEF Goes
<1> HIDE DEF w
<1>3. proc'[p] = w /\ Others(p) /\ proc' \in [Procs -> ProcRec]
  BY <1>1, <1>2, Becomes
<1>4. QED
  BY <1>1, <1>3 DEF w

------------------------------------------------------------------------------
(* The statuses that are derived                                            *)

\* The status that a task gives its node: pending only while the task waits.
LEMMA FromTask ==
  ASSUME TypeOK, NEW t \in Tasks
  PROVE  /\ deriveWorkflowNodeRunStatusFromTask(t) \in NodeStatuses \ {"skipped"}
         /\ deriveWorkflowNodeRunStatusFromTask(t) = "pending" => task[t] = "waiting"
<1>1. task[t] \in TaskStatuses
  BY DEF TypeOK
<1>2. QED
  BY <1>1 DEF deriveWorkflowNodeRunStatusFromTask, NodeStatuses, Final, Withdrawn, TaskStatuses

\* The status of a node is never derived as skipped: that is a command's.
LEMMA DerivedIs ==
  ASSUME TypeOK, NEW n \in Nodes, NEW t \in Tasks \cup {NoTask}
  PROVE  Derived(n, t) \in NodeStatuses \ {"skipped"}
BY FromTask DEF Derived, NodeStatuses, Final, Withdrawn

\* What the derived statuses are read from.
LEMMA SameDerived ==
  ASSUME UNCHANGED spec, NEW n \in Nodes, NEW t,
         \A m \in Nodes : node'[m].status = node[m].status,
         node'[n].released = node[n].released, task'[t] = task[t] \/ t = NoTask
  PROVE  /\ Derived(n, t)' = Derived(n, t) /\ WaitingOn(n)' = WaitingOn(n)
         /\ AwaitingRelease(n)' = AwaitingRelease(n)
<1>1. WaitingOn(n)' = WaitingOn(n)
  BY DEF WaitingOn, nodeRunSatisfiesOutgoingEdges
<1>2. AwaitingRelease(n)' = AwaitingRelease(n)
  BY <1>1 DEF AwaitingRelease
<1>3. t # NoTask => deriveWorkflowNodeRunStatusFromTask(t)' = deriveWorkflowNodeRunStatusFromTask(t)
  BY DEF deriveWorkflowNodeRunStatusFromTask
<1>4. QED
  BY <1>1, <1>2, <1>3 DEF Derived

\* The status of the run is that of its nodes and nothing else.
LEMMA SameRunStatus ==
  ASSUME UNCHANGED spec, \A m \in Nodes : node'[m].status = node[m].status
  PROVE  deriveWorkflowRunStatus' = deriveWorkflowRunStatus
<1>1. Live' = Live
  BY DEF Live
<1>2. \A statuses : Some(statuses)' = Some(statuses)
  BY <1>1 DEF Some, Live
<1>3. \A n \in Live : node'[n].status = node[n].status
  BY DEF Live
<1>4. QED
  BY <1>1, <1>2, <1>3 DEF deriveWorkflowRunStatus

\* What a visit of a node is planned to write, while the tables say what was listed.
LEMMA VisitIs ==
  ASSUME TypeOK, NEW n \in Nodes
  PROVE  /\ Visit(n) \in VisitRec
         /\ Visit(n) = NoVisit <=> node[n].status \in Final
         /\ node[n].status \notin Final =>
              /\ Visit(n).listed = node[n].status /\ Visit(n).next \in NodeStatuses \ {"skipped"}
              /\ Visit(n).task = NoTask => Derived(n, node[n].task) = Visit(n).next
              /\ Visit(n).task # NoTask => /\ Visit(n).task = node[n].task
                                           /\ Derived(n, node[n].task) =
                                                deriveWorkflowNodeRunStatusFromTask(Visit(n).task)
<1>1. node[n] \in NodeRec
  BY TypesAre
<1>2. Derived(n, NoTask) \in NodeStatuses \ {"skipped"}
  BY DerivedIs
<1>3. "none" \notin NodeStatuses
  BY DEF NodeStatuses, Final, Withdrawn
<1>4. CASE node[n].status \in Final
  BY <1>4 DEF Visit, NoVisit, VisitRec
<1>5. CASE node[n].status \notin Final
  <2> DEFINE t == IF WaitingOn(n) = {} /\ ~AwaitingRelease(n) THEN node[n].task ELSE NoTask
  <2>1. Visit(n) = [listed |-> node[n].status, task |-> t, next |-> Derived(n, NoTask)]
    BY <1>5 DEF Visit
  <2>2. t \in Tasks \cup {NoTask}
    BY <1>1 DEF NodeRec
  <2>3. t = NoTask => Derived(n, node[n].task) = Derived(n, NoTask)
    BY DEF Derived
  <2>4. t # NoTask => t = node[n].task /\ Derived(n, node[n].task) = deriveWorkflowNodeRunStatusFromTask(t)
    BY DEF Derived
  <2> HIDE DEF t
  <2>5. Visit(n) # NoVisit
    BY <1>1, <1>3, <2>1 DEF NoVisit, NodeRec
  <2>6. QED
    BY <1>1, <1>2, <1>5, <2>1, <2>2, <2>3, <2>4, <2>5 DEF NodeRec, VisitRec
<1>6. QED
  BY <1>4, <1>5

------------------------------------------------------------------------------
(* What each step writes                                                    *)

\* A command of an operator or an agent has what it takes to go on, and decides
\* nothing about a node that is over by then.
LEMMA CommandDoes ==
  ASSUME Typed, NEW p \in Procs,
         (\E n \in Nodes : OnNode(p, n)) \/ (\E t \in Tasks : OnTask(p, t))
  PROVE  \E w \in ProcRec :
           /\ Begins(p, w) /\ Fit(w)
           /\ w.at \in {"releasing", "putting", "linking", "writing", "noting", "syncing"}
           /\ w.at = "releasing" => ~Over(w.node)
<1>1. ASSUME NEW n \in Nodes, releaseWorkflowNodeRun(p, n)
      PROVE  \E w \in ProcRec : /\ Begins(p, w) /\ Fit(w) /\ w.at = "releasing" /\ ~Over(w.node)
  <2> DEFINE s == IF n \in spec.gates THEN "done" ELSE "ready"
             w == Work("releasing", n, NoTask, s, 0)
  <2>1. s \in NodeStatuses
    BY DEF NodeStatuses, Final
  <2>2. w \in ProcRec /\ w.at = "releasing" /\ w.node = n /\ w.status = s
    BY <2>1 DEF Work, ProcRec, Places
  <2>3. Begins(p, w) /\ ~Over(n)
    BY <1>1 DEF releaseWorkflowNodeRun, Over, Withdrawn
  <2>4. Fit(w)
    BY <2>1, <2>2 DEF Fit
  <2> HIDE DEF w
  <2>5. QED
    BY <2>2, <2>3, <2>4
<1>2. ASSUME NEW n \in Nodes,
             skipWorkflowNodeRun(p, n) \/ cancelWorkflowNodeRun(p, n) \/ archiveWorkflowNodeRun(p, n)
      PROVE  \E w \in ProcRec : /\ Begins(p, w) /\ Fit(w) /\ w.at = "putting"
  <2>1. PICK s \in Withdrawn : /\ Begins(p, Work("putting", n, NoTask, s, 0))
                               /\ s = "skipped" => n \in spec.optional
    BY <1>2 DEF skipWorkflowNodeRun, cancelWorkflowNodeRun, archiveWorkflowNodeRun, Withdrawn
  <2> DEFINE w == Work("putting", n, NoTask, s, 0)
  <2>2. s \in NodeStatuses
    BY DEF NodeStatuses, Final
  <2>3. w \in ProcRec /\ w.at = "putting" /\ w.node = n /\ w.status = s
    BY <2>2 DEF Work, ProcRec, Places
  <2>4. Fit(w)
    BY <2>1, <2>2, <2>3 DEF Fit
  <2> HIDE DEF w
  <2>5. QED
    BY <2>1, <2>3, <2>4 DEF w
<1>3. ASSUME NEW n \in Nodes, NEW t \in Tasks, attachTaskToWorkflowNodeRun(p, n, t)
      PROVE  \E w \in ProcRec : /\ Begins(p, w) /\ Fit(w) /\ w.at = "linking"
  <2> DEFINE w == Work("linking", n, t, "none", 0)
  <2>1. w \in ProcRec /\ w.at = "linking" /\ w.node = n /\ w.task = t
    BY DEF Work, ProcRec, Places
  <2>2. Begins(p, w) /\ n \notin spec.gates
    BY <1>3 DEF attachTaskToWorkflowNodeRun, assertCanAttachTaskToWorkflowNodeRun
  <2>3. Fit(w)
    BY <2>1, <2>2 DEF Fit
  <2> HIDE DEF w
  <2>4. QED
    BY <2>1, <2>2, <2>3
<1>4. ASSUME NEW t \in Tasks, OnTask(p, t)
      PROVE  \E w \in ProcRec : /\ Begins(p, w) /\ Fit(w) /\ w.at \in {"writing", "noting", "syncing"}
  <2>1. PICK at \in {"writing", "noting", "syncing"}, s \in {"running", "blocked", "failed", "done", "none"} :
          /\ Begins(p, Work(at, NoNode, t, s, 0))
          /\ at # "syncing" => s # "none"
    <3>1. CASE dispatchTask(p, t)
      BY <3>1 DEF dispatchTask
    <3>2. CASE \E status \in {"blocked", "failed", "done"} : Reports(p, t, status)
      BY <3>2 DEF Reports
    <3>3. CASE ReportsProgress(p, t)
      BY <3>3 DEF ReportsProgress
    <3>4. QED
      BY <1>4, <3>1, <3>2, <3>3 DEF OnTask
  <2> DEFINE w == Work(at, NoNode, t, s, 0)
  <2>2. s \in NodeStatuses \cup RunStatuses \cup {"none"} /\ at \in Places
    BY DEF NodeStatuses, RunStatuses, Final, Places
  <2>3. w \in ProcRec /\ w.at = at /\ w.task = t /\ w.status = s
    BY <2>2 DEF Work, ProcRec
  <2>4. Fit(w)
    BY <2>1, <2>3 DEF Fit, TaskStatuses
  <2> HIDE DEF w
  <2>5. QED
    BY <2>1, <2>3, <2>4 DEF w
<1>5. QED
  BY <1>1, <1>2, <1>3, <1>4 DEF OnNode

\* A command that begins changes nothing yet.
LEMMA BeginsDoes ==
  ASSUME Typed, NEW p \in Procs, NEW w \in ProcRec, Begins(p, w)
  PROVE  /\ proc[p].at = "idle" /\ proc'[p] = w /\ Others(p) /\ proc' \in [Procs -> ProcRec]
         /\ UNCHANGED <<tables, plan, drifted, late, taken, early>>
<1>1. proc[p].at = "idle" /\ proc' = [proc EXCEPT ![p] = w]
      /\ UNCHANGED <<tables, plan, drifted, late, taken, early>>
  BY DEF Begins
<1>2. QED
  BY <1>1, Becomes DEF Typed

\* An attach that has read the node's count goes on with the next number.
LEMMA LinksDoes ==
  ASSUME Typed, NEW p \in Procs, dbLinkTaskToWorkflowNodeRun(p)
  PROVE  /\ proc[p].at = "linking" /\ Others(p) /\ proc' \in [Procs -> ProcRec] /\ Fit(proc'[p])
         /\ \/ proc'[p].at = "idle"
            \/ /\ proc'[p].at = "inserting" /\ proc'[p].node \in Nodes
               /\ proc'[p].attempt = node[proc'[p].node].attempts + 1
         /\ UNCHANGED <<tables, plan, drifted, late, taken, early>>
<1>1. proc[p].at = "linking" /\ UNCHANGED <<tables, plan, drifted, late, taken, early>>
  BY DEF dbLinkTaskToWorkflowNodeRun
<1>2. CASE Goes(p, "idle")
  <2>1. proc'[p].at = "idle" /\ Others(p) /\ proc' \in [Procs -> ProcRec]
    BY <1>2, GoesTo DEF Typed, Places
  <2>2. QED
    BY <1>1, <2>1 DEF Fit
<1>3. CASE ~Goes(p, "idle")
  <2>1. PICK n, t : n = proc[p].node /\ t = proc[p].task
    OBVIOUS
  <2> DEFINE w == Work("inserting", n, t, "none", node[n].attempts + 1)
  <2>2. n \in Nodes \ spec.gates /\ t \in Tasks
    BY <1>1, <2>1 DEF Typed, Fits, Fit
  <2>3. node[n].attempts \in Nat
    BY <2>2, TypesAre DEF Typed, NodeRec
  <2>4. w \in ProcRec /\ w.at = "inserting" /\ w.node = n /\ w.task = t /\ w.attempt = node[n].attempts + 1
    BY <2>2, <2>3 DEF Work, ProcRec, Places
  <2>5. proc' = [proc EXCEPT ![p] = w]
    BY <1>3, <2>1 DEF dbLinkTaskToWorkflowNodeRun
  <2> HIDE DEF w
  <2>6. proc'[p] = w /\ Others(p) /\ proc' \in [Procs -> ProcRec]
    BY <2>4, <2>5, Becomes DEF Typed
  <2>7. Fit(w)
    BY <2>2, <2>4 DEF Fit
  <2>8. QED
    BY <1>1, <2>2, <2>4, <2>6, <2>7
<1>4. QED
  BY <1>2, <1>3

\* An attempt is inserted if its task has no node and its number no task.
LEMMA InsertDoes ==
  ASSUME Typed, NEW p \in Procs, InsertsAttempt(p)
  PROVE  \E n \in Nodes \ spec.gates, t \in Tasks, k \in Nat :
           /\ proc[p].at = "inserting" /\ proc[p].node = n /\ proc[p].task = t /\ proc[p].attempt = k
           /\ Others(p) /\ proc' \in [Procs -> ProcRec]
           /\ UNCHANGED <<spec, node, run, task, plan, drifted, late, early>>
           /\ \/ /\ proc'[p].at = "idle" /\ UNCHANGED <<owner, attempt, taken>>
              \/ /\ proc'[p].at = "binding" /\ proc'[p].node = n /\ proc'[p].task = t
                 /\ proc'[p].attempt = k
                 /\ owner[t] = NoNode /\ \A u \in Tasks : ~(owner[u] = n /\ attempt[u] = k)
                 /\ owner' \in [Tasks -> Nodes \cup {NoNode}] /\ owner'[t] = n
                 /\ \A u \in Tasks \ {t} : owner'[u] = owner[u]
                 /\ attempt' \in [Tasks -> Nat] /\ attempt'[t] = k
                 /\ \A u \in Tasks \ {t} : attempt'[u] = attempt[u]
                 /\ taken' = (taken \/ ~assertCanAttachTaskToWorkflowNodeRun(n))
<1>1. PICK n, t, k : n = proc[p].node /\ t = proc[p].task /\ k = proc[p].attempt
  OBVIOUS
<1>2. proc[p].at = "inserting" /\ UNCHANGED <<spec, node, run, task, plan, drifted, late, early>>
  BY DEF InsertsAttempt
<1>3. proc[p] \in ProcRec
  BY TypesAre DEF Typed
<1>4. n \in Nodes \ spec.gates /\ t \in Tasks /\ k \in Nat
  BY <1>1, <1>2, <1>3 DEF Typed, Fits, Fit, ProcRec
<1>5. CASE Goes(p, "idle") /\ UNCHANGED <<owner, attempt, taken>>
  <2>1. proc'[p].at = "idle" /\ Others(p) /\ proc' \in [Procs -> ProcRec]
    BY <1>5, GoesTo DEF Typed, Places
  <2>2. QED
    BY <1>1, <1>2, <1>4, <1>5, <2>1
<1>6. CASE ~(Goes(p, "idle") /\ UNCHANGED <<owner, attempt, taken>>)
  <2>1. /\ owner[t] = NoNode /\ \A u \in Tasks : ~(owner[u] = n /\ attempt[u] = k)
        /\ owner' = [owner EXCEPT ![t] = n] /\ attempt' = [attempt EXCEPT ![t] = k]
        /\ proc' = [proc EXCEPT ![p].at = "binding"]
        /\ taken' = (taken \/ ~assertCanAttachTaskToWorkflowNodeRun(n))
    BY <1>1, <1>6 DEF InsertsAttempt
  <2>2. PICK w \in ProcRec : w.at = "binding" /\ w.node = n /\ w.task = t /\ w.attempt = k
                             /\ proc' = [proc EXCEPT ![p] = w]
    <3> DEFINE w == [proc[p] EXCEPT !.at = "binding"]
    <3>1. w \in ProcRec /\ w.at = "binding" /\ w.node = n /\ w.task = t /\ w.attempt = k
      BY <1>1, <1>3 DEF ProcRec, Places
    <3>2. proc' = [proc EXCEPT ![p] = w]
      BY <2>1
    <3> HIDE DEF w
    <3>3. QED
      BY <3>1, <3>2
  <2>3. proc'[p] = w /\ Others(p) /\ proc' \in [Procs -> ProcRec]
    BY <2>2, Becomes DEF Typed
  <2>4. owner \in [Tasks -> Nodes \cup {NoNode}] /\ attempt \in [Tasks -> Nat]
    BY DEF Typed, TypeOK
  <2>5. /\ owner' \in [Tasks -> Nodes \cup {NoNode}] /\ owner'[t] = n
        /\ \A u \in Tasks \ {t} : owner'[u] = owner[u]
    BY <1>4, <2>1, <2>4
  <2>6. /\ attempt' \in [Tasks -> Nat] /\ attempt'[t] = k
        /\ \A u \in Tasks \ {t} : attempt'[u] = attempt[u]
    BY <1>4, <2>1, <2>4
  <2>7. QED
    BY <1>1, <1>2, <1>4, <2>1, <2>2, <2>3, <2>5, <2>6
<1>7. QED
  BY <1>5, <1>6

\* The task of an inserted attempt becomes its node's.
LEMMA BindDoes ==
  ASSUME Typed, NEW p \in Procs, BindsTask(p)
  PROVE  \E n \in Nodes \ spec.gates, t \in Tasks, k \in Nat :
           /\ proc[p].at = "binding" /\ proc[p].node = n /\ proc[p].task = t /\ proc[p].attempt = k
           /\ Others(p) /\ proc' \in [Procs -> ProcRec]
           /\ proc'[p].at = "syncing" /\ proc'[p].task = t
           /\ node' \in [Nodes -> NodeRec]
           /\ node'[n].task = t /\ node'[n].attempts = k /\ node'[n].status = node[n].status
           /\ node'[n].released = node[n].released
           /\ \A m \in Nodes \ {n} : node'[m] = node[m]
           /\ UNCHANGED <<spec, run, owner, attempt, task, plan, drifted, late, taken, early>>
<1>1. PICK n, t, k : n = proc[p].node /\ t = proc[p].task /\ k = proc[p].attempt
  OBVIOUS
<1>2. /\ proc[p].at = "binding"
      /\ UNCHANGED <<spec, run, owner, attempt, task, plan, drifted, late, taken, early>>
      /\ node' = [node EXCEPT ![n].task = t, ![n].attempts = k]
      /\ proc' = [proc EXCEPT ![p] = Work("syncing", NoNode, t, "none", 0)]
  BY <1>1 DEF BindsTask
<1>3. proc[p] \in ProcRec /\ node \in [Nodes -> NodeRec]
  BY TypesAre DEF Typed
<1>4. n \in Nodes \ spec.gates /\ t \in Tasks /\ k \in Nat
  BY <1>1, <1>2, <1>3 DEF Typed, Fits, Fit, ProcRec
<1>5. PICK w \in ProcRec : w.at = "syncing" /\ w.task = t /\ proc' = [proc EXCEPT ![p] = w]
  <2> DEFINE w == Work("syncing", NoNode, t, "none", 0)
  <2>1. w \in ProcRec /\ w.at = "syncing" /\ w.task = t
    BY <1>4 DEF Work, ProcRec, Places
  <2>2. proc' = [proc EXCEPT ![p] = w]
    BY <1>2
  <2> HIDE DEF w
  <2>3. QED
    BY <2>1, <2>2
<1>6. /\ Others(p) /\ proc' \in [Procs -> ProcRec]
      /\ proc'[p].at = "syncing" /\ proc'[p].task = t
  <2>1. proc'[p] = w /\ Others(p) /\ proc' \in [Procs -> ProcRec]
    BY <1>5, Becomes DEF Typed
  <2>2. QED
    BY <1>5, <2>1
<1>7. /\ node' \in [Nodes -> NodeRec]
      /\ node'[n].task = t /\ node'[n].attempts = k /\ node'[n].status = node[n].status
      /\ node'[n].released = node[n].released
      /\ \A m \in Nodes \ {n} : node'[m] = node[m]
  <2>1. node[n] \in NodeRec
    BY <1>3, <1>4
  <2> DEFINE r == [node[n] EXCEPT !.task = t, !.attempts = k]
  <2>2. /\ r \in NodeRec /\ r.task = t /\ r.attempts = k /\ r.status = node[n].status
        /\ r.released = node[n].released
    BY <1>4, <2>1 DEF NodeRec
  <2>3. node' = [node EXCEPT ![n] = r]
    BY <1>2, <1>3, <1>4, <2>1 DEF NodeRec
  <2> HIDE DEF r
  <2>4. QED
    BY <1>3, <1>4, <2>2, <2>3
<1>8. /\ proc[p].at = "binding" /\ proc[p].node = n /\ proc[p].task = t /\ proc[p].attempt = k
      /\ UNCHANGED <<spec, run, owner, attempt, task, plan, drifted, late, taken, early>>
  BY <1>1, <1>2
<1>9. QED
  BY <1>4, <1>6, <1>7, <1>8, Zenon

\* A copy that begins knows a status for the node, which is not withdrawn and no gate.
LEMMA SyncDoes ==
  ASSUME Typed, NEW p \in Procs, syncWorkflowNodeRunForTask(p)
  PROVE  \E t \in Tasks :
           /\ proc[p].at = "syncing" /\ proc[p].task = t
           /\ Others(p) /\ proc' \in [Procs -> ProcRec] /\ Fit(proc'[p])
           /\ UNCHANGED <<tables, plan, drifted, late, taken, early>>
           /\ \/ /\ proc'[p].at = "idle"
                 /\ \A n \in Nodes : node[n].task = t => node[n].status \in Final
              \/ proc'[p].at = "copying" /\ ~Over(proc'[p].node)
<1>1. PICK t, n : t = proc[p].task /\ n = owner[t]
  OBVIOUS
<1>2. proc[p].at = "syncing" /\ UNCHANGED <<tables, plan, drifted, late, taken, early>>
  BY DEF syncWorkflowNodeRunForTask
<1>3. t \in Tasks
  BY <1>1, <1>2 DEF Typed, Fits, Fit
<1>4. CASE (n = NoNode \/ node[n].status \in Withdrawn) /\ Goes(p, "idle")
  <2>1. proc'[p].at = "idle" /\ Others(p) /\ proc' \in [Procs -> ProcRec]
    BY <1>4, GoesTo DEF Typed, Places
  <2>2. Fit(proc'[p])
    BY <2>1 DEF Fit
  <2>3. \A m \in Nodes : node[m].task = t => node[m].status \in Final
    BY <1>1, <1>3, <1>4, WorkflowAssumption DEF Typed, Owned, Final
  <2>4. QED
    BY <1>1, <1>2, <1>3, <2>1, <2>2, <2>3
<1>5. CASE /\ n # NoNode /\ node[n].status \notin Withdrawn
           /\ proc' = [proc EXCEPT ![p] = Work("copying", n, t, Derived(n, t), 0)]
  <2>1. n \in Nodes \ spec.gates
    BY <1>1, <1>3, <1>5, TypesAre DEF Typed, Owned
  <2>2. Derived(n, t) \in NodeStatuses \ {"skipped"}
    BY <1>3, <2>1, DerivedIs DEF Typed
  <2> DEFINE w == Work("copying", n, t, Derived(n, t), 0)
  <2>3. w \in ProcRec /\ w.at = "copying" /\ w.node = n /\ w.task = t /\ w.status = Derived(n, t)
    BY <1>3, <2>1, <2>2 DEF Work, ProcRec, Places
  <2>4. proc' = [proc EXCEPT ![p] = w]
    BY <1>5
  <2>5. Fit(w)
    BY <1>1, <1>3, <2>1, <2>2, <2>3 DEF Fit
  <2> HIDE DEF w
  <2>6. proc'[p] = w /\ Others(p) /\ proc' \in [Procs -> ProcRec]
    BY <2>3, <2>4, Becomes DEF Typed
  <2>7. ~Over(n)
    BY <1>5, <2>1 DEF Over
  <2>8. QED
    BY <1>1, <1>2, <1>3, <2>3, <2>5, <2>6, <2>7
<1>6. QED
  BY <1>1, <1>4, <1>5 DEF syncWorkflowNodeRunForTask

\* A list is what the tables say, and is gone through from the start.
LEMMA ListsDoes ==
  ASSUME Typed, NEW p \in Procs, Lists(p)
  PROVE  /\ proc[p].at \in {"listing", "changing"} /\ proc'[p].at = "visiting"
         /\ Others(p) /\ proc' \in [Procs -> ProcRec]
         /\ plan' \in [Procs -> [Nodes -> VisitRec]]
         /\ \A n \in Nodes : plan'[p][n] = Visit(n)
         /\ \A q \in Procs \ {p} : plan'[q] = plan[q]
         /\ drifted' = FALSE /\ early' \subseteq early
         /\ \A e \in early : e[1] # p => e \in early'
         /\ UNCHANGED <<tables, late, taken>>
<1>1. /\ proc[p].at \in {"listing", "changing"} /\ Goes(p, "visiting")
      /\ plan' = [plan EXCEPT ![p] = [n \in Nodes |-> Visit(n)]]
      /\ drifted' = FALSE /\ early' = early \ ({p} \X Nodes) /\ UNCHANGED <<tables, late, taken>>
  BY DEF Lists
<1>2. proc'[p].at = "visiting" /\ Others(p) /\ proc' \in [Procs -> ProcRec]
  BY <1>1, GoesTo DEF Typed, Places
<1>3. \A n \in Nodes : Visit(n) \in VisitRec
  BY VisitIs DEF Typed
<1>4. plan \in [Procs -> [Nodes -> VisitRec]]
  BY TypesAre DEF Typed
<1>5. /\ plan' \in [Procs -> [Nodes -> VisitRec]]
      /\ \A n \in Nodes : plan'[p][n] = Visit(n)
      /\ \A q \in Procs \ {p} : plan'[q] = plan[q]
  <2> DEFINE listed == [n \in Nodes |-> Visit(n)]
  <2>1. listed \in [Nodes -> VisitRec] /\ \A n \in Nodes : listed[n] = Visit(n)
    BY <1>3
  <2>2. plan' = [plan EXCEPT ![p] = listed]
    BY <1>1
  <2> HIDE DEF listed
  <2>3. QED
    BY <1>4, <2>1, <2>2
<1>6. QED
  BY <1>1, <1>2, <1>5

\* A visit leaves the node out of the rest of the pass, and leads to a write or not.
LEMMA VisitDoes ==
  ASSUME Typed, NEW p \in Procs, NEW n \in Nodes, Visits(p, n)
  PROVE  LET v    == plan[p][n]
             next == IF v.task = NoTask THEN v.next ELSE deriveWorkflowNodeRunStatusFromTask(v.task)
         IN /\ proc[p].at \in {"visiting", "changing"} /\ v # NoVisit /\ v \in VisitRec
            /\ next \in NodeStatuses \ {"skipped"}
            /\ plan' \in [Procs -> [Nodes -> VisitRec]] /\ plan'[p][n] = NoVisit
            /\ \A m \in Nodes \ {n} : plan'[p][m] = plan[p][m]
            /\ \A q \in Procs \ {p} : plan'[q] = plan[q]
            /\ Others(p) /\ proc' \in [Procs -> ProcRec]
            /\ \/ next = v.listed /\ proc'[p] = proc[p]
               \/ proc'[p].at = "passing" /\ proc'[p].node = n /\ proc'[p].status = next
            /\ UNCHANGED <<tables, drifted, late, taken, early>>
<1> DEFINE v    == plan[p][n]
           next == IF v.task = NoTask THEN v.next ELSE deriveWorkflowNodeRunStatusFromTask(v.task)
<1>1. /\ proc[p].at \in {"visiting", "changing"} /\ v # NoVisit
      /\ plan' = [plan EXCEPT ![p][n] = NoVisit]
      /\ \/ next = v.listed /\ UNCHANGED proc
         \/ proc' = [proc EXCEPT ![p] = Work("passing", n, NoTask, next, 0)]
      /\ UNCHANGED <<tables, drifted, late, taken, early>>
  BY DEF Visits
<1>2. plan \in [Procs -> [Nodes -> VisitRec]] /\ proc \in [Procs -> ProcRec] /\ v \in VisitRec
  BY TypesAre DEF Typed
<1>3. next \in NodeStatuses \ {"skipped"}
  <2>1. v.next \in NodeStatuses \ {"skipped"}
    BY <1>1 DEF Typed, PlansFit
  <2>2. v.task # NoTask => v.task \in Tasks
    BY <1>2 DEF VisitRec
  <2>3. QED
    BY <2>1, <2>2, FromTask DEF Typed
<1>4. /\ plan' \in [Procs -> [Nodes -> VisitRec]] /\ plan'[p][n] = NoVisit
      /\ \A m \in Nodes \ {n} : plan'[p][m] = plan[p][m]
      /\ \A q \in Procs \ {p} : plan'[q] = plan[q]
  <2>1. NoVisit \in VisitRec
    BY DEF NoVisit, VisitRec
  <2> HIDE DEF v, next
  <2>2. QED
    BY <1>1, <1>2, <2>1
<1>5. CASE next = v.listed /\ UNCHANGED proc
  BY <1>1, <1>2, <1>3, <1>4, <1>5 DEF Others
<1>6. CASE proc' = [proc EXCEPT ![p] = Work("passing", n, NoTask, next, 0)]
  <2> HIDE DEF next
  <2> DEFINE w == Work("passing", n, NoTask, next, 0)
  <2>1. w \in ProcRec /\ w.at = "passing" /\ w.node = n /\ w.status = next
    BY <1>3 DEF Work, ProcRec, Places
  <2>2. proc' = [proc EXCEPT ![p] = w]
    BY <1>6
  <2> HIDE DEF w
  <2>3. proc'[p] = w /\ Others(p) /\ proc' \in [Procs -> ProcRec]
    BY <2>1, <2>2, Becomes DEF Typed
  <2>4. QED
    BY <1>1, <1>2, <1>3, <1>4, <2>1, <2>3 DEF next
<1>7. QED
  BY <1>1, <1>5, <1>6

\* After a pass that changed nothing the run's status is derived.
LEMMA RefreshDoes ==
  ASSUME Typed, NEW p \in Procs, refreshWorkflowRunStatus(p)
  PROVE  /\ proc[p].at = "visiting" /\ PassIsOver(p)
         /\ proc'[p].at = "closing" /\ proc'[p].status = deriveWorkflowRunStatus
         /\ Others(p) /\ proc' \in [Procs -> ProcRec] /\ Fit(proc'[p])
         /\ early' \subseteq early /\ \A e \in early : e[1] # p => e \in early'
         /\ UNCHANGED <<tables, plan, drifted, late, taken>>
<1>1. /\ proc[p].at = "visiting" /\ PassIsOver(p)
      /\ proc' = [proc EXCEPT ![p] = Work("closing", NoNode, NoTask, deriveWorkflowRunStatus, 0)]
      /\ early' = early \ ({p} \X Nodes) /\ UNCHANGED <<tables, plan, drifted, late, taken>>
  BY DEF refreshWorkflowRunStatus
<1>2. deriveWorkflowRunStatus \in RunStatuses
  BY DEF deriveWorkflowRunStatus, RunStatuses
<1> DEFINE w == Work("closing", NoNode, NoTask, deriveWorkflowRunStatus, 0)
<1>3. w \in ProcRec /\ w.at = "closing" /\ w.status = deriveWorkflowRunStatus
  BY <1>2 DEF Work, ProcRec, Places
<1>4. proc' = [proc EXCEPT ![p] = w]
  BY <1>1
<1>5. Fit(w)
  BY <1>2, <1>3 DEF Fit
<1> HIDE DEF w
<1>6. proc'[p] = w /\ Others(p) /\ proc' \in [Procs -> ProcRec]
  BY <1>3, <1>4, Becomes DEF Typed
<1>7. QED
  BY <1>1, <1>3, <1>5, <1>6

\* The status of a task is written.
LEMMA WriteTaskDoes ==
  ASSUME Typed, NEW p \in Procs, WritesTask(p)
  PROVE  \E t \in Tasks :
           /\ proc[p].at \in {"writing", "noting"} /\ proc[p].task = t
           /\ Others(p) /\ proc' \in [Procs -> ProcRec] /\ Fit(proc'[p])
           /\ task' \in [Tasks -> TaskStatuses] /\ task'[t] = proc[p].status
           /\ \A u \in Tasks \ {t} : task'[u] = task[u]
           /\ taken' = (taken \/ (Earlier(t) /\ task'[t] \notin Ended))
           /\ \/ proc'[p].at = "idle" /\ drifted' = TRUE
              \/ proc'[p].at = "syncing" /\ proc'[p].task = t /\ UNCHANGED drifted
           /\ UNCHANGED <<spec, node, run, owner, attempt, plan, late, early>>
<1>1. PICK t, s : t = proc[p].task /\ s = proc[p].status
  OBVIOUS
<1>2. /\ proc[p].at \in {"writing", "noting"} /\ task' = [task EXCEPT ![t] = s]
      /\ taken' = (taken \/ (Earlier(t) /\ s \notin Ended))
      /\ \/ Goes(p, "idle") /\ drifted' = TRUE
         \/ proc' = [proc EXCEPT ![p] = Work("syncing", NoNode, t, "none", 0)] /\ UNCHANGED drifted
      /\ UNCHANGED <<spec, node, run, owner, attempt, plan, late, early>>
  BY <1>1 DEF WritesTask
<1>3. t \in Tasks /\ s \in TaskStatuses
  BY <1>1, <1>2 DEF Typed, Fits, Fit
<1>4. task' \in [Tasks -> TaskStatuses] /\ task'[t] = s /\ \A u \in Tasks \ {t} : task'[u] = task[u]
  BY <1>2, <1>3 DEF Typed, TypeOK
<1>5. CASE Goes(p, "idle") /\ drifted' = TRUE
  <2>1. proc'[p].at = "idle" /\ Others(p) /\ proc' \in [Procs -> ProcRec]
    BY <1>5, GoesTo DEF Typed, Places
  <2>2. Fit(proc'[p])
    BY <2>1 DEF Fit
  <2>3. QED
    BY <1>1, <1>2, <1>3, <1>4, <1>5, <2>1, <2>2
<1>6. CASE proc' = [proc EXCEPT ![p] = Work("syncing", NoNode, t, "none", 0)] /\ UNCHANGED drifted
  <2> DEFINE w == Work("syncing", NoNode, t, "none", 0)
  <2>1. w \in ProcRec /\ w.at = "syncing" /\ w.task = t
    BY <1>3 DEF Work, ProcRec, Places
  <2>2. proc' = [proc EXCEPT ![p] = w]
    BY <1>6
  <2>3. Fit(w)
    BY <1>3, <2>1 DEF Fit
  <2> HIDE DEF w
  <2>4. proc'[p] = w /\ Others(p) /\ proc' \in [Procs -> ProcRec]
    BY <2>1, <2>2, Becomes DEF Typed
  <2>5. QED
    BY <1>1, <1>2, <1>3, <1>4, <1>6, <2>1, <2>3, <2>4
<1>7. QED
  BY <1>2, <1>5, <1>6

\* The status of a node is written, whatever it has become; its process lists the
\* nodes again, or is in a pass that has changed something.
LEMMA UpdateNodeDoes ==
  ASSUME Typed, NEW p \in Procs, NEW n \in Nodes, dbUpdateWorkflowNodeRun(p, n)
  PROVE  /\ proc[p].at \in {"releasing", "putting", "copying", "passing"} /\ proc[p].node = n
         /\ proc'[p].at \in {"listing", "changing"} /\ Others(p) /\ proc' \in [Procs -> ProcRec]
         /\ proc'[p].at = "changing" => proc[p].at = "passing"
         /\ node' \in [Nodes -> NodeRec]
         /\ node'[n].status = proc[p].status /\ node'[n].attempts = node[n].attempts
         /\ node'[n].released = (node[n].released \/ proc[p].at = "releasing")
         /\ node'[n].task = IF proc[p].at = "copying" THEN proc[p].task ELSE node[n].task
         /\ \A m \in Nodes \ {n} : node'[m] = node[m]
         /\ taken' = (taken \/ (proc[p].at = "copying" /\ Earlier(proc[p].task)))
         /\ early \subseteq early' /\ early' \subseteq early \cup (Procs \X Nodes)
         /\ ~Over(n) /\ Over(n)' => \A q \in Procs : Holding(q) => <<q, n>> \in early'
         /\ UNCHANGED <<spec, run, owner, attempt, task, plan, drifted, late>>
<1>1. PICK w : w = proc[p]
  OBVIOUS
<1>2. /\ w.at \in {"releasing", "putting", "copying", "passing"} /\ w.node = n
      /\ node' = [node EXCEPT ![n].status = w.status,
                              ![n].released = (@ \/ w.at = "releasing"),
                              ![n].task = IF w.at = "copying" THEN w.task ELSE @]
      /\ Goes(p, IF w.at = "passing" THEN "changing" ELSE "listing")
      /\ taken' = (taken \/ (w.at = "copying" /\ Earlier(w.task)))
      /\ UNCHANGED <<spec, run, owner, attempt, task, plan, drifted, late>>
  BY <1>1 DEF dbUpdateWorkflowNodeRun
<1>3. early' = IF ~Over(n) /\ Over(n)'
               THEN early \cup {<<q, n>> : q \in {r \in Procs : Holding(r)}} ELSE early
  BY DEF dbUpdateWorkflowNodeRun
<1>4. w.status \in NodeStatuses /\ (w.at = "copying" => w.task \in Tasks)
  BY <1>1, <1>2 DEF Typed, Fits, Fit
<1>5. node \in [Nodes -> NodeRec]
  BY TypesAre DEF Typed
<1>6. /\ node' \in [Nodes -> NodeRec]
      /\ node'[n].status = w.status /\ node'[n].attempts = node[n].attempts
      /\ node'[n].released = (node[n].released \/ w.at = "releasing")
      /\ node'[n].task = IF w.at = "copying" THEN w.task ELSE node[n].task
      /\ \A m \in Nodes \ {n} : node'[m] = node[m]
  <2>1. PICK s, b, t : /\ s = w.status /\ b = (node[n].released \/ w.at = "releasing")
                       /\ t = IF w.at = "copying" THEN w.task ELSE node[n].task
    OBVIOUS
  <2>2. node[n] \in NodeRec
    BY <1>5
  <2>3. s \in NodeStatuses /\ b \in BOOLEAN /\ t \in Tasks \cup {NoTask}
    BY <1>4, <2>1, <2>2 DEF NodeRec
  <2> DEFINE r == [node[n] EXCEPT !.status = s, !.released = b, !.task = t]
  <2>4. /\ r \in NodeRec /\ r.status = s /\ r.attempts = node[n].attempts /\ r.released = b
        /\ r.task = t
    BY <2>2, <2>3 DEF NodeRec
  <2>5. node' = [node EXCEPT ![n] = r]
    BY <1>2, <1>5, <2>1, <2>2 DEF NodeRec
  <2> HIDE DEF r
  <2>6. QED
    BY <1>5, <2>1, <2>4, <2>5
<1>7. PICK at \in {"changing", "listing"} :
        /\ at = (IF w.at = "passing" THEN "changing" ELSE "listing") /\ Goes(p, at)
  BY <1>2
<1>8. proc'[p].at = at /\ Others(p) /\ proc' \in [Procs -> ProcRec]
  BY <1>7, GoesTo DEF Typed, Places
<1>9. /\ early \subseteq early' /\ early' \subseteq early \cup (Procs \X Nodes)
      /\ ~Over(n) /\ Over(n)' => \A q \in Procs : Holding(q) => <<q, n>> \in early'
  <2>1. CASE ~(~Over(n) /\ Over(n)')
    BY <1>3, <2>1
  <2>2. CASE ~Over(n) /\ Over(n)'
    <3>1. early' = early \cup {<<q, n>> : q \in {r \in Procs : Holding(r)}}
      BY <1>3, <2>2
    <3>2. QED
      BY <3>1
  <2>3. QED
    BY <2>1, <2>2
<1>10. QED
  BY <1>1, <1>2, <1>6, <1>7, <1>8, <1>9

\* The status of the run is written, whatever the nodes have become.
LEMMA UpdateRunDoes ==
  ASSUME Typed, NEW p \in Procs, dbUpdateWorkflowRun(p)
  PROVE  /\ proc[p].at = "closing" /\ run' = proc[p].status /\ run' \in RunStatuses
         /\ late' = (run' # deriveWorkflowRunStatus)
         /\ proc'[p].at = "idle" /\ Others(p) /\ proc' \in [Procs -> ProcRec] /\ Fit(proc'[p])
         /\ UNCHANGED <<spec, node, owner, attempt, task, plan, drifted, taken, early>>
<1>1. /\ proc[p].at = "closing" /\ run' = proc[p].status /\ Goes(p, "idle")
      /\ late' = (proc[p].status # deriveWorkflowRunStatus)
      /\ UNCHANGED <<spec, node, owner, attempt, task, plan, drifted, taken, early>>
  BY DEF dbUpdateWorkflowRun
<1>2. proc'[p].at = "idle" /\ Others(p) /\ proc' \in [Procs -> ProcRec]
  BY <1>1, GoesTo DEF Typed, Places
<1>3. run' \in RunStatuses
  BY <1>1 DEF Typed, Fits, Fit
<1>4. Fit(proc'[p])
  BY <1>2 DEF Fit
<1>5. QED
  BY <1>1, <1>2, <1>3, <1>4

\* A process that ends leaves what it has written.
LEMMA CrashDoes ==
  ASSUME Typed, NEW p \in Procs, Crash(p)
  PROVE  /\ proc'[p].at = "idle" /\ Others(p) /\ proc' \in [Procs -> ProcRec] /\ Fit(proc'[p])
         /\ plan' \in [Procs -> [Nodes -> VisitRec]]
         /\ \A n \in Nodes : plan'[p][n] = NoVisit
         /\ \A q \in Procs \ {p} : plan'[q] = plan[q]
         /\ drifted' = TRUE /\ early' \subseteq early
         /\ \A e \in early : e[1] # p => e \in early'
         /\ UNCHANGED <<tables, late, taken>>
<1>1. /\ Goes(p, "idle") /\ plan' = [plan EXCEPT ![p] = [n \in Nodes |-> NoVisit]]
      /\ drifted' = TRUE /\ early' = early \ ({p} \X Nodes) /\ UNCHANGED <<tables, late, taken>>
  BY DEF Crash
<1>2. proc'[p].at = "idle" /\ Others(p) /\ proc' \in [Procs -> ProcRec]
  BY <1>1, GoesTo DEF Typed, Places
<1>3. NoVisit \in VisitRec
  BY DEF NoVisit, VisitRec
<1>4. plan \in [Procs -> [Nodes -> VisitRec]]
  BY TypesAre DEF Typed
<1>5. /\ plan' \in [Procs -> [Nodes -> VisitRec]]
      /\ \A n \in Nodes : plan'[p][n] = NoVisit
      /\ \A q \in Procs \ {p} : plan'[q] = plan[q]
  BY <1>1, <1>3, <1>4
<1>6. Fit(proc'[p])
  BY <1>2 DEF Fit
<1>7. QED
  BY <1>1, <1>2, <1>5, <1>6

\* A dependency of a task is added or satisfied.
LEMMA AwaitsDoes ==
  ASSUME Typed, NEW t \in Tasks, Awaits(t)
  PROVE  /\ task' \in [Tasks -> TaskStatuses] /\ drifted' = TRUE
         /\ \A u \in Tasks : task'[u] \notin Ended => task[u] \notin Ended
         /\ UNCHANGED <<spec, node, run, owner, attempt, proc, plan, late, taken, early>>
BY DEF Awaits, Typed, TypeOK, TaskStatuses, Ended

------------------------------------------------------------------------------
(* Types                                                                    *)

\* What a process is about to do stays fit, if attempts keep their nodes.
LEMMA FitStays ==
  ASSUME NEW p \in Procs, UNCHANGED spec, Fit(proc'[p]),
         \A t \in Tasks : owner[t] \in Nodes => owner'[t] = owner[t]
  PROVE  Fit(proc[p])'
BY DEF Fit

\* The types, from those of what a step has written.
LEMMA TypedFrom ==
  ASSUME Typed, NEW p \in Procs, UNCHANGED spec, Others(p), proc' \in [Procs -> ProcRec],
         Fit(proc[p])', \A t \in Tasks : owner[t] \in Nodes => owner'[t] = owner[t],
         node' \in [Nodes -> NodeRec], run' \in RunStatuses,
         owner' \in [Tasks -> Nodes \cup {NoNode}], attempt' \in [Tasks -> Nat],
         task' \in [Tasks -> TaskStatuses], plan' \in [Procs -> [Nodes -> VisitRec]],
         drifted' \in BOOLEAN, late' \in BOOLEAN, taken' \in BOOLEAN,
         early' \subseteq Procs \X Nodes,
         PlansFit', Owned', OptionalSkips'
  PROVE  Typed'
<1>1. TypeOK'
  BY DEF Typed, TypeOK, NodeRec, ProcRec, VisitRec
<1>2. Fits'
  <2>1. ASSUME NEW q \in Procs \ {p} PROVE Fit(proc[q])'
    <3>1. Fit(proc'[q])
      BY DEF Typed, Fits, Others
    <3>2. QED
      BY <3>1, FitStays
  <2>2. QED
    BY <2>1 DEF Fits
<1>3. QED
  BY <1>1, <1>2 DEF Typed

\* Every step keeps the types.
LEMMA TypedStep ==
  ASSUME Typed, [Next]_vars
  PROVE  Typed'
<1>0. /\ node \in [Nodes -> NodeRec] /\ run \in RunStatuses
      /\ owner \in [Tasks -> Nodes \cup {NoNode}] /\ attempt \in [Tasks -> Nat]
      /\ task \in [Tasks -> TaskStatuses] /\ plan \in [Procs -> [Nodes -> VisitRec]]
      /\ proc \in [Procs -> ProcRec]
      /\ drifted \in BOOLEAN /\ late \in BOOLEAN /\ taken \in BOOLEAN
      /\ early \subseteq Procs \X Nodes /\ PlansFit /\ Owned /\ OptionalSkips /\ Fits
  BY TypesAre DEF Typed, TypeOK
<1>1. ASSUME NEW p \in Procs, UNCHANGED <<tables, plan, drifted, late, taken>>, early' \subseteq early,
             Others(p), proc' \in [Procs -> ProcRec], Fit(proc'[p])
      PROVE  Typed'
  <2>1. Fit(proc[p])'
    BY <1>1, FitStays DEF tables
  <2>2. PlansFit' /\ Owned' /\ OptionalSkips'
    BY <1>0, <1>1 DEF tables, PlansFit, Owned, OptionalSkips
  <2>3. QED
    BY <1>0, <1>1, <2>1, <2>2, TypedFrom DEF tables
<1>2. ASSUME NEW p \in Procs,
             (\E n \in Nodes : OnNode(p, n)) \/ (\E t \in Tasks : OnTask(p, t))
      PROVE  Typed'
  <2>1. PICK w \in ProcRec : Begins(p, w) /\ Fit(w)
    BY <1>2, CommandDoes
  <2>2. QED
    BY <1>1, <2>1, BeginsDoes
<1>3. ASSUME NEW p \in Procs, dbLinkTaskToWorkflowNodeRun(p) \/ syncWorkflowNodeRunForTask(p)
      PROVE  Typed'
  <2>1. CASE dbLinkTaskToWorkflowNodeRun(p)
    BY <1>1, <2>1, LinksDoes
  <2>2. CASE syncWorkflowNodeRunForTask(p)
    BY <1>1, <2>2, SyncDoes
  <2>3. QED
    BY <1>3, <2>1, <2>2
<1>4. ASSUME NEW p \in Procs, InsertsAttempt(p)
      PROVE  Typed'
  <2>1. PICK n \in Nodes \ spec.gates, t \in Tasks, k \in Nat :
           /\ Others(p) /\ proc' \in [Procs -> ProcRec]
           /\ UNCHANGED <<spec, node, run, task, plan, drifted, late, early>>
           /\ \/ /\ proc'[p].at = "idle" /\ UNCHANGED <<owner, attempt, taken>>
              \/ /\ proc'[p].at = "binding" /\ proc'[p].node = n /\ proc'[p].task = t
                 /\ owner[t] = NoNode
                 /\ owner' \in [Tasks -> Nodes \cup {NoNode}] /\ owner'[t] = n
                 /\ \A u \in Tasks \ {t} : owner'[u] = owner[u]
                 /\ attempt' \in [Tasks -> Nat]
                 /\ taken' = (taken \/ ~assertCanAttachTaskToWorkflowNodeRun(n))
    BY <1>4, InsertDoes
  <2>2. Fit(proc[p])'
    BY <2>1 DEF Fit
  <2>3. /\ \A u \in Tasks : owner[u] \in Nodes => owner'[u] = owner[u]
        /\ owner' \in [Tasks -> Nodes \cup {NoNode}] /\ attempt' \in [Tasks -> Nat]
        /\ taken' \in BOOLEAN
    BY <1>0, <2>1, WorkflowAssumption
  <2>4. PlansFit' /\ OptionalSkips'
    BY <1>0, <2>1 DEF PlansFit, OptionalSkips
  <2>5. Owned'
    <3>1. \A m \in Nodes : node[m].task # NoTask => node[m].task \in Tasks
      BY <1>0 DEF NodeRec
    <3>2. QED
      BY <1>0, <2>1, <2>3, <3>1 DEF Owned
  <2>6. QED
    BY <1>0, <2>1, <2>2, <2>3, <2>4, <2>5, TypedFrom
<1>5. ASSUME NEW p \in Procs, BindsTask(p)
      PROVE  Typed'
  <2>1. PICK n \in Nodes \ spec.gates, t \in Tasks :
           /\ proc[p].at = "binding" /\ proc[p].node = n /\ proc[p].task = t
           /\ Others(p) /\ proc' \in [Procs -> ProcRec]
           /\ proc'[p].at = "syncing" /\ proc'[p].task = t
           /\ node' \in [Nodes -> NodeRec] /\ node'[n].task = t
           /\ node'[n].status = node[n].status
           /\ \A m \in Nodes \ {n} : node'[m] = node[m]
           /\ UNCHANGED <<spec, run, owner, attempt, task, plan, drifted, late, taken, early>>
    BY <1>5, BindDoes
  <2>2. Fit(proc[p])'
    BY <2>1 DEF Fit
  <2>3. PlansFit' /\ OptionalSkips'
    BY <1>0, <2>1 DEF PlansFit, OptionalSkips
  <2>4. owner[t] = n
    BY <1>0, <2>1 DEF Fits, Fit
  <2>5. Owned'
    BY <1>0, <2>1, <2>4 DEF Owned
  <2>6. QED
    BY <1>0, <2>1, <2>2, <2>3, <2>5, TypedFrom
<1>6. ASSUME NEW p \in Procs, Lists(p)
      PROVE  Typed'
  <2>1. Fit(proc[p])'
    BY <1>6, ListsDoes DEF Fit
  <2>2. ASSUME NEW q \in Procs, NEW n \in Nodes, plan'[q][n] # NoVisit
        PROVE  plan'[q][n].next \in NodeStatuses \ {"skipped"}
    <3>1. CASE q = p
      <4>1. plan'[q][n] = Visit(n)
        BY <1>6, <3>1, ListsDoes
      <4>2. QED
        BY <2>2, <4>1, VisitIs DEF Typed
    <3>2. CASE q # p
      <4>1. plan'[q] = plan[q]
        BY <1>6, <3>2, ListsDoes
      <4>2. QED
        BY <1>0, <2>2, <4>1 DEF PlansFit
    <3>3. QED
      BY <3>1, <3>2
  <2>3. PlansFit'
    BY <2>2 DEF PlansFit
  <2>4. UNCHANGED <<tables, late, taken>> /\ Others(p) /\ proc' \in [Procs -> ProcRec]
        /\ plan' \in [Procs -> [Nodes -> VisitRec]] /\ drifted' \in BOOLEAN /\ early' \subseteq early
    BY <1>6, ListsDoes
  <2>5. Owned' /\ OptionalSkips'
    BY <1>0, <2>4 DEF tables, Owned, OptionalSkips
  <2>6. QED
    BY <1>0, <2>1, <2>3, <2>4, <2>5, TypedFrom DEF tables
<1>7. ASSUME NEW p \in Procs, NEW n \in Nodes, Visits(p, n)
      PROVE  Typed'
  <2>1. /\ plan' \in [Procs -> [Nodes -> VisitRec]] /\ plan'[p][n] = NoVisit
        /\ \A m \in Nodes \ {n} : plan'[p][m] = plan[p][m]
        /\ \A q \in Procs \ {p} : plan'[q] = plan[q]
        /\ Others(p) /\ proc' \in [Procs -> ProcRec]
        /\ UNCHANGED <<tables, drifted, late, taken, early>>
    BY <1>7, VisitDoes
  <2>2. Fit(proc'[p])
    <3>1. CASE proc'[p] = proc[p]
      BY <1>0, <3>1 DEF Fits
    <3>2. CASE proc'[p] # proc[p]
      <4>1. PICK s \in NodeStatuses \ {"skipped"} :
              proc'[p].at = "passing" /\ proc'[p].node = n /\ proc'[p].status = s
        BY <1>7, <3>2, VisitDoes
      <4>2. QED
        BY <4>1 DEF Fit
    <3>3. QED
      BY <3>1, <3>2
  <2>3. Fit(proc[p])'
    BY <2>1, <2>2, FitStays DEF tables
  <2>4. PlansFit' /\ Owned' /\ OptionalSkips'
    BY <1>0, <2>1 DEF tables, PlansFit, Owned, OptionalSkips
  <2>5. QED
    BY <1>0, <2>1, <2>3, <2>4, TypedFrom DEF tables
<1>8. ASSUME NEW p \in Procs, refreshWorkflowRunStatus(p)
      PROVE  Typed'
  BY <1>1, <1>8, RefreshDoes
<1>9. ASSUME NEW p \in Procs, WritesTask(p)
      PROVE  Typed'
  <2>1. PICK t \in Tasks :
           /\ Others(p) /\ proc' \in [Procs -> ProcRec] /\ Fit(proc'[p])
           /\ task' \in [Tasks -> TaskStatuses]
           /\ taken' = (taken \/ (Earlier(t) /\ task'[t] \notin Ended))
           /\ drifted' = TRUE \/ UNCHANGED drifted
           /\ UNCHANGED <<spec, node, run, owner, attempt, plan, late, early>>
    BY <1>9, WriteTaskDoes
  <2>2. Fit(proc[p])'
    BY <2>1, FitStays
  <2>3. PlansFit' /\ Owned' /\ OptionalSkips'
    BY <1>0, <2>1 DEF PlansFit, Owned, OptionalSkips
  <2>4. drifted' \in BOOLEAN /\ taken' \in BOOLEAN
    BY <1>0, <2>1
  <2>5. QED
    BY <1>0, <2>1, <2>2, <2>3, <2>4, TypedFrom
<1>10. ASSUME NEW p \in Procs, NEW n \in Nodes, dbUpdateWorkflowNodeRun(p, n)
       PROVE  Typed'
  <2>1. /\ proc[p].at \in {"releasing", "putting", "copying", "passing"} /\ proc[p].node = n
        /\ proc'[p].at \in {"listing", "changing"} /\ Others(p) /\ proc' \in [Procs -> ProcRec]
        /\ node' \in [Nodes -> NodeRec] /\ node'[n].status = proc[p].status
        /\ node'[n].task = IF proc[p].at = "copying" THEN proc[p].task ELSE node[n].task
        /\ \A m \in Nodes \ {n} : node'[m] = node[m]
        /\ early' \subseteq early \cup (Procs \X Nodes)
        /\ UNCHANGED <<spec, run, owner, attempt, task, plan, drifted, late>>
    BY <1>10, UpdateNodeDoes
  <2>2. taken' \in BOOLEAN
    <3>1. taken' = (taken \/ (proc[p].at = "copying" /\ Earlier(proc[p].task)))
      BY <1>10, UpdateNodeDoes
    <3>2. QED
      BY <3>1
  <2>3. Fit(proc[p])'
    BY <2>1 DEF Fit
  <2>4. Fit(proc[p])
    BY <1>0 DEF Fits
  <2>5. OptionalSkips'
    BY <1>0, <2>1, <2>4 DEF OptionalSkips, Fit
  <2>6. Owned'
    BY <1>0, <2>1, <2>4 DEF Owned, Fit
  <2>7. PlansFit'
    BY <1>0, <2>1 DEF PlansFit
  <2>8. QED
    BY <1>0, <2>1, <2>2, <2>3, <2>5, <2>6, <2>7, TypedFrom
<1>11. ASSUME NEW p \in Procs, dbUpdateWorkflowRun(p)
       PROVE  Typed'
  <2>1. /\ run' \in RunStatuses /\ late' = (run' # deriveWorkflowRunStatus)
        /\ Others(p) /\ proc' \in [Procs -> ProcRec] /\ Fit(proc'[p])
        /\ UNCHANGED <<spec, node, owner, attempt, task, plan, drifted, taken, early>>
    BY <1>11, UpdateRunDoes
  <2>2. Fit(proc[p])'
    BY <2>1, FitStays
  <2>3. PlansFit' /\ Owned' /\ OptionalSkips'
    BY <1>0, <2>1 DEF PlansFit, Owned, OptionalSkips
  <2>4. late' \in BOOLEAN
    BY <2>1
  <2>5. QED
    BY <1>0, <2>1, <2>2, <2>3, <2>4, TypedFrom
<1>12. ASSUME NEW p \in Procs, Crash(p)
       PROVE  Typed'
  <2>1. /\ Others(p) /\ proc' \in [Procs -> ProcRec] /\ Fit(proc'[p])
        /\ plan' \in [Procs -> [Nodes -> VisitRec]]
        /\ \A n \in Nodes : plan'[p][n] = NoVisit
        /\ \A q \in Procs \ {p} : plan'[q] = plan[q]
        /\ drifted' = TRUE /\ early' \subseteq early /\ UNCHANGED <<tables, late, taken>>
    BY <1>12, CrashDoes
  <2>2. Fit(proc[p])'
    BY <2>1, FitStays DEF tables
  <2>3. PlansFit' /\ Owned' /\ OptionalSkips'
    BY <1>0, <2>1 DEF tables, PlansFit, Owned, OptionalSkips
  <2>4. QED
    BY <1>0, <2>1, <2>2, <2>3, TypedFrom DEF tables
<1>13. ASSUME NEW t \in Tasks, Awaits(t)
       PROVE  Typed'
  <2>1. /\ task' \in [Tasks -> TaskStatuses] /\ drifted' = TRUE
        /\ UNCHANGED <<spec, node, run, owner, attempt, proc, plan, late, taken, early>>
    BY <1>13, AwaitsDoes
  <2>2. TypeOK'
    BY <2>1 DEF Typed, TypeOK
  <2>3. QED
    BY <1>0, <2>1, <2>2 DEF Typed, Fits, Fit, PlansFit, Owned, OptionalSkips
<1>14. CASE UNCHANGED vars
  BY <1>14 DEF vars, tables, Typed, TypeOK, Fits, Fit, PlansFit, Owned, OptionalSkips
<1>15. QED
  BY <1>2, <1>3, <1>4, <1>5, <1>6, <1>7, <1>8, <1>9, <1>10, <1>11, <1>12, <1>13, <1>14
  DEF Next, Links, Reconciles, Writes

\* A run starts with its types.
LEMMA TypedInit == Init => Typed
<1> SUFFICES ASSUME Init PROVE Typed
  OBVIOUS
<1>1. deriveWorkflowRunStatus \in RunStatuses
  BY DEF deriveWorkflowRunStatus, RunStatuses
<1>2. \A n \in Nodes :
        /\ node[n].status \in {"pending", "awaiting_release", "ready"}
        /\ node[n].task = NoTask /\ node[n].released = FALSE /\ node[n].attempts = 0
  BY DEF Init
<1>3. node \in [Nodes -> [status : NodeStatuses, task : Tasks \cup {NoTask},
                          released : BOOLEAN, attempts : Nat]]
  BY DEF Init, NodeStatuses
<1>4. task \in [Tasks -> TaskStatuses]
  BY DEF Init, TaskStatuses
<1> DEFINE idle == Work("idle", NoNode, NoTask, "none", 0)
<1>5. idle \in ProcRec /\ idle.at = "idle" /\ NoVisit \in VisitRec
  BY DEF Work, ProcRec, Places, NoVisit, VisitRec
<1>6. proc = [p \in Procs |-> idle]
  BY DEF Init
<1> HIDE DEF idle
<1>7. proc \in [Procs -> ProcRec] /\ \A p \in Procs : proc[p].at = "idle"
  BY <1>5, <1>6
<1>8. plan \in [Procs -> [Nodes -> VisitRec]] /\ \A p \in Procs, n \in Nodes : plan[p][n] = NoVisit
  BY <1>5 DEF Init
<1>9. TypeOK
  BY <1>1, <1>3, <1>4, <1>7, <1>8 DEF Init, TypeOK, ProcRec, VisitRec
<1>10. NoNode \notin spec.gates
  BY <1>9, SpecShape, WorkflowAssumption
<1>11. Fits /\ PlansFit /\ Owned /\ OptionalSkips
  BY <1>2, <1>7, <1>8, <1>10 DEF Init, Fits, Fit, PlansFit, Owned, OptionalSkips
<1>12. QED
  BY <1>9, <1>11 DEF Typed

\* The types hold in every reachable state.
LEMMA AlwaysTyped == Spec => []Typed
BY TypedInit, TypedStep, PTL DEF Spec

\* The tables and the processes hold what they are declared to hold.
THEOREM TypeCorrect == Spec => []TypeOK
<1>1. Typed => TypeOK
  BY DEF Typed
<1>2. QED
  BY <1>1, AlwaysTyped, PTL

------------------------------------------------------------------------------
(* Settled                                                                  *)

\* Where a process goes on to list the nodes.
WillList == {"releasing", "putting", "copying", "listing", "changing", "passing"}

\* A node that is not behind, or whose task is about to be copied.
UpToDate(n) ==
  \/ node[n].status \in Final
  \/ node[n].status = Derived(n, node[n].task)
  \/ \E p \in Procs : proc[p].at = "syncing" /\ proc[p].task = node[n].task

\* What p has listed, and not visited yet, is what the tables say.
GoesByTables(p) == \A n \in Nodes : UpToDate(n) \/ plan[p][n] = Visit(n)

Followed ==
  \/ drifted
  \/ \E p \in Procs : proc[p].at \in WillList
  \/ \E p \in Procs : proc[p].at = "visiting" /\ GoesByTables(p)
  \/ \A n \in Nodes : UpToDate(n)

Counted ==
  \/ drifted \/ late
  \/ \E p \in Procs : proc[p].at \in WillList \cup {"visiting"}
  \/ \E p \in Procs : proc[p].at = "closing" /\ proc[p].status = deriveWorkflowRunStatus
  \/ run = deriveWorkflowRunStatus

\* A node stays up to date, and its visit the same, while neither statuses nor releases
\* change, and no task but those whose status is about to be copied.
LEMMA SameNode ==
  ASSUME Typed, NEW n \in Nodes, UNCHANGED spec,
         \A m \in Nodes : node'[m].status = node[m].status /\ node'[m].released = node[m].released,
         \/ \E q \in Procs : proc'[q].at = "syncing" /\ proc'[q].task = node'[n].task
         \/ node[n].status \in Final
         \/ /\ node'[n].task = node[n].task
            /\ node[n].task \in Tasks => task'[node[n].task] = task[node[n].task]
            /\ \A q \in Procs : proc[q].at = "syncing" /\ proc[q].task = node[n].task =>
                 proc'[q] = proc[q]
  PROVE  UpToDate(n)' \/ (~UpToDate(n) /\ Visit(n)' = Visit(n))
<1>1. CASE \E q \in Procs : proc'[q].at = "syncing" /\ proc'[q].task = node'[n].task
  BY <1>1 DEF UpToDate
<1>2. CASE node[n].status \in Final
  BY <1>2 DEF UpToDate
<1>3. CASE /\ node'[n].task = node[n].task
           /\ node[n].task \in Tasks => task'[node[n].task] = task[node[n].task]
           /\ \A q \in Procs : proc[q].at = "syncing" /\ proc[q].task = node[n].task =>
                proc'[q] = proc[q]
  <2>1. PICK t \in Tasks \cup {NoTask} : t = node[n].task
    BY TypesAre DEF Typed, NodeRec
  <2>2. /\ Derived(n, t)' = Derived(n, t) /\ Derived(n, NoTask)' = Derived(n, NoTask)
        /\ WaitingOn(n)' = WaitingOn(n) /\ AwaitingRelease(n)' = AwaitingRelease(n)
    BY <1>3, <2>1, SameDerived
  <2>3. Visit(n)' = Visit(n)
    BY <1>3, <2>2 DEF Visit
  <2>4. t' = t /\ node'[n].task = t
    BY <1>3, <2>1
  <2>5. UpToDate(n) => UpToDate(n)'
    BY <1>3, <2>1, <2>2, <2>4 DEF UpToDate
  <2>6. QED
    BY <2>3, <2>5
<1>4. QED
  BY <1>1, <1>2, <1>3

\* Such a step keeps what Followed says, if the processes that see to it stay.
LEMMA SameFollowed ==
  ASSUME Typed, Followed, UNCHANGED spec, drifted => drifted',
         \A q \in Procs : proc[q].at \in WillList => proc'[q].at \in WillList,
         \A q \in Procs : proc[q].at = "visiting" => proc'[q].at = "visiting" /\ plan'[q] = plan[q],
         \A n \in Nodes : node'[n].status = node[n].status /\ node'[n].released = node[n].released,
         \A n \in Nodes :
           \/ \E q \in Procs : proc'[q].at = "syncing" /\ proc'[q].task = node'[n].task
           \/ node[n].status \in Final
           \/ /\ node'[n].task = node[n].task
              /\ node[n].task \in Tasks => task'[node[n].task] = task[node[n].task]
              /\ \A q \in Procs : proc[q].at = "syncing" /\ proc[q].task = node[n].task =>
                   proc'[q] = proc[q]
  PROVE  Followed'
<1>1. \A n \in Nodes : UpToDate(n)' \/ (~UpToDate(n) /\ Visit(n)' = Visit(n))
  BY SameNode
<1>2. CASE drifted \/ \E p \in Procs : proc[p].at \in WillList
  BY <1>2 DEF Followed
<1>3. CASE \E p \in Procs : proc[p].at = "visiting" /\ GoesByTables(p)
  <2>1. PICK p \in Procs : proc[p].at = "visiting" /\ GoesByTables(p)
    BY <1>3
  <2>2. proc'[p].at = "visiting" /\ GoesByTables(p)'
    BY <1>1, <2>1 DEF GoesByTables
  <2>3. QED
    BY <2>2 DEF Followed
<1>4. CASE \A n \in Nodes : UpToDate(n)
  BY <1>1, <1>4 DEF Followed
<1>5. QED
  BY <1>2, <1>3, <1>4 DEF Followed

\* Some process that sees to the nodes is there after every step.
LEMMA FollowedStep ==
  ASSUME Typed, Followed, [Next]_vars
  PROVE  Followed'
<1>1. ASSUME NEW p \in Procs,
             (\E n \in Nodes : OnNode(p, n)) \/ (\E t \in Tasks : OnTask(p, t))
      PROVE  Followed'
  <2>1. PICK w \in ProcRec : Begins(p, w)
    BY <1>1, CommandDoes
  <2>2. proc[p].at = "idle" /\ Others(p) /\ UNCHANGED <<tables, plan, drifted>>
    BY <2>1, BeginsDoes
  <2>3. QED
    BY <2>2, SameFollowed DEF Others, tables, WillList
<1>2. ASSUME NEW p \in Procs, dbLinkTaskToWorkflowNodeRun(p)
      PROVE  Followed'
  <2>1. proc[p].at = "linking" /\ Others(p) /\ UNCHANGED <<tables, plan, drifted>>
    BY <1>2, LinksDoes
  <2>2. QED
    BY <2>1, SameFollowed DEF Others, tables, WillList
<1>3. ASSUME NEW p \in Procs, InsertsAttempt(p)
      PROVE  Followed'
  <2>1. proc[p].at = "inserting" /\ Others(p) /\ UNCHANGED <<spec, node, task, plan, drifted>>
    BY <1>3, InsertDoes
  <2>2. QED
    BY <2>1, SameFollowed DEF Others, WillList
<1>4. ASSUME NEW p \in Procs, BindsTask(p)
      PROVE  Followed'
  <2>1. PICK n \in Nodes, t \in Tasks :
          /\ proc[p].at = "binding" /\ Others(p) /\ proc'[p].at = "syncing" /\ proc'[p].task = t
          /\ node'[n].task = t /\ node'[n].status = node[n].status
          /\ node'[n].released = node[n].released
          /\ \A m \in Nodes \ {n} : node'[m] = node[m]
          /\ UNCHANGED <<spec, task, plan, drifted>>
    BY <1>4, BindDoes
  <2>2. \A q \in Procs : proc[q].at # "binding" => proc'[q] = proc[q]
    BY <2>1 DEF Others
  <2>3. \A m \in Nodes : node'[m].status = node[m].status /\ node'[m].released = node[m].released
    BY <2>1
  <2>4. QED
    BY <2>1, <2>2, <2>3, SameFollowed DEF WillList
<1>5. ASSUME NEW p \in Procs, syncWorkflowNodeRunForTask(p)
      PROVE  Followed'
  <2>1. PICK t \in Tasks :
           /\ proc[p].at = "syncing" /\ proc[p].task = t /\ Others(p)
           /\ UNCHANGED <<tables, plan, drifted>>
           /\ \/ /\ proc'[p].at = "idle"
                 /\ \A n \in Nodes : node[n].task = t => node[n].status \in Final
              \/ proc'[p].at = "copying"
    BY <1>5, SyncDoes
  <2>2. CASE proc'[p].at = "copying"
    BY <2>2 DEF Followed, WillList
  <2>3. CASE \A n \in Nodes : node[n].task = t => node[n].status \in Final
    <3>1. \A q \in Procs : q # p => proc'[q] = proc[q]
      BY <2>1 DEF Others
    <3>2. \A n \in Nodes :
            \/ node[n].status \in Final
            \/ \A q \in Procs : proc[q].at = "syncing" /\ proc[q].task = node[n].task => proc'[q] = proc[q]
      BY <2>1, <2>3, <3>1
    <3>3. QED
      BY <2>1, <3>1, <3>2, SameFollowed DEF tables, WillList
  <2>4. QED
    BY <2>1, <2>2, <2>3
<1>6. ASSUME NEW p \in Procs, Lists(p)
      PROVE  Followed'
  <2>1. proc'[p].at = "visiting" /\ UNCHANGED tables /\ \A n \in Nodes : plan'[p][n] = Visit(n)
    BY <1>6, ListsDoes
  <2>2. \A n \in Nodes : Visit(n)' = Visit(n)
    BY <2>1 DEF tables, Visit, Derived, WaitingOn, AwaitingRelease, nodeRunSatisfiesOutgoingEdges,
      deriveWorkflowNodeRunStatusFromTask
  <2>3. GoesByTables(p)'
    BY <2>1, <2>2 DEF GoesByTables
  <2>4. QED
    BY <2>1, <2>3 DEF Followed
<1>7. ASSUME NEW p \in Procs, NEW n \in Nodes, Visits(p, n)
      PROVE  Followed'
  <2> DEFINE v    == plan[p][n]
             next == IF v.task = NoTask THEN v.next ELSE deriveWorkflowNodeRunStatusFromTask(v.task)
  <2>1. /\ proc[p].at \in {"visiting", "changing"} /\ v # NoVisit
        /\ \A m \in Nodes \ {n} : plan'[p][m] = plan[p][m]
        /\ \A q \in Procs \ {p} : plan'[q] = plan[q]
        /\ Others(p)
        /\ \/ next = v.listed /\ proc'[p] = proc[p]
           \/ proc'[p].at = "passing"
        /\ UNCHANGED <<tables, drifted>>
    BY <1>7, VisitDoes
  <2>2. CASE proc'[p].at = "passing"
    BY <2>2 DEF Followed, WillList
  <2>3. CASE next = v.listed /\ proc'[p] = proc[p]
    <3>1. \A q \in Procs : proc'[q] = proc[q]
      BY <2>1, <2>3 DEF Others
    <3>2. \A m \in Nodes : UpToDate(m)' \/ (~UpToDate(m) /\ Visit(m)' = Visit(m))
      BY <2>1, <3>1, SameNode DEF tables
    <3>3. CASE drifted \/ \E q \in Procs : proc[q].at \in WillList
      BY <2>1, <3>1, <3>3 DEF Followed
    <3>4. ASSUME NEW q \in Procs, proc[q].at = "visiting", GoesByTables(q)
          PROVE  Followed'
      <4>1. CASE q # p
        <5>1. GoesByTables(q)'
          BY <2>1, <3>2, <3>4, <4>1 DEF GoesByTables
        <5>2. QED
          BY <3>1, <3>4, <5>1 DEF Followed
      <4>2. CASE q = p
        <5>1. UpToDate(n)
          <6>1. CASE v = Visit(n)
            <7>1. node[n].status \notin Final
              BY <2>1, <6>1, VisitIs DEF Typed
            <7>2. Derived(n, node[n].task) = node[n].status
              BY <2>3, <6>1, <7>1, VisitIs DEF Typed
            <7>3. QED
              BY <7>2 DEF UpToDate
          <6>2. QED
            BY <3>4, <4>2, <6>1 DEF GoesByTables
        <5>2. GoesByTables(p)'
          BY <2>1, <3>2, <3>4, <4>2, <5>1 DEF GoesByTables
        <5>3. QED
          BY <3>1, <3>4, <4>2, <5>2 DEF Followed
      <4>3. QED
        BY <4>1, <4>2
    <3>5. CASE \A m \in Nodes : UpToDate(m)
      BY <3>2, <3>5 DEF Followed
    <3>6. QED
      BY <3>3, <3>4, <3>5 DEF Followed
  <2>4. QED
    BY <2>1, <2>2, <2>3
<1>8. ASSUME NEW p \in Procs, refreshWorkflowRunStatus(p)
      PROVE  Followed'
  <2>1. /\ proc[p].at = "visiting" /\ PassIsOver(p) /\ proc'[p].at = "closing" /\ Others(p)
        /\ UNCHANGED <<tables, plan, drifted>>
    BY <1>8, RefreshDoes
  <2>2. \A q \in Procs : q # p => proc'[q] = proc[q]
    BY <2>1 DEF Others
  <2>3. \A m \in Nodes : UpToDate(m)' \/ (~UpToDate(m) /\ Visit(m)' = Visit(m))
    BY <2>1, <2>2, SameNode DEF tables
  <2>4. CASE drifted \/ \E q \in Procs : proc[q].at \in WillList
    BY <2>1, <2>2, <2>4 DEF Followed, WillList
  <2>5. ASSUME NEW q \in Procs, proc[q].at = "visiting", GoesByTables(q)
        PROVE  Followed'
    <3>1. CASE q # p
      <4>1. GoesByTables(q)'
        BY <2>1, <2>3, <2>5, <3>1 DEF GoesByTables
      <4>2. QED
        BY <2>2, <2>5, <3>1, <4>1 DEF Followed
    <3>2. CASE q = p
      <4>1. \A m \in Nodes : UpToDate(m)
        BY <2>1, <2>5, <3>2, VisitIs DEF Typed, GoesByTables, PassIsOver, UpToDate
      <4>2. QED
        BY <2>3, <4>1 DEF Followed
    <3>3. QED
      BY <3>1, <3>2
  <2>6. CASE \A m \in Nodes : UpToDate(m)
    BY <2>3, <2>6 DEF Followed
  <2>7. QED
    BY <2>4, <2>5, <2>6 DEF Followed
<1>9. ASSUME NEW p \in Procs, WritesTask(p)
      PROVE  Followed'
  <2>1. PICK t \in Tasks :
           /\ proc[p].at \in {"writing", "noting"} /\ Others(p)
           /\ \A u \in Tasks \ {t} : task'[u] = task[u]
           /\ \/ proc'[p].at = "idle" /\ drifted' = TRUE
              \/ proc'[p].at = "syncing" /\ proc'[p].task = t /\ UNCHANGED drifted
           /\ UNCHANGED <<spec, node, plan>>
    BY <1>9, WriteTaskDoes
  <2>2. CASE drifted'
    BY <2>2 DEF Followed
  <2>3. CASE proc'[p].at = "syncing" /\ proc'[p].task = t /\ UNCHANGED drifted
    <3>1. \A q \in Procs : proc[q].at \notin {"writing", "noting"} => proc'[q] = proc[q]
      BY <2>1 DEF Others
    <3>2. QED
      BY <2>1, <2>3, <3>1, SameFollowed DEF WillList
  <2>4. QED
    BY <2>1, <2>2, <2>3
<1>10. ASSUME NEW p \in Procs, NEW n \in Nodes, dbUpdateWorkflowNodeRun(p, n)
       PROVE  Followed'
  BY <1>10, UpdateNodeDoes DEF Followed, WillList
<1>11. ASSUME NEW p \in Procs, dbUpdateWorkflowRun(p)
       PROVE  Followed'
  <2>1. /\ proc[p].at = "closing" /\ Others(p) /\ UNCHANGED <<spec, node, task, plan, drifted>>
    BY <1>11, UpdateRunDoes
  <2>2. QED
    BY <2>1, SameFollowed DEF Others, WillList
<1>12. ASSUME NEW p \in Procs, Crash(p)
       PROVE  Followed'
  BY <1>12, CrashDoes DEF Followed
<1>13. ASSUME NEW t \in Tasks, Awaits(t)
       PROVE  Followed'
  BY <1>13, AwaitsDoes DEF Followed
<1>14. CASE UNCHANGED vars
  BY <1>14, SameFollowed DEF vars, tables
<1>15. QED
  BY <1>1, <1>2, <1>3, <1>4, <1>5, <1>6, <1>7, <1>8, <1>9, <1>10, <1>11, <1>12, <1>13, <1>14
  DEF Next, Links, Reconciles, Writes

\* A step that leaves the statuses of nodes and run alone, and does not take away who
\* will derive the run's.
LEMMA SameCounted ==
  ASSUME Counted, UNCHANGED <<spec, run, late>>, drifted => drifted',
         \A m \in Nodes : node'[m].status = node[m].status,
         \A q \in Procs : proc[q].at \in WillList \cup {"visiting"} =>
                            proc'[q].at \in WillList \cup {"visiting"},
         \A q \in Procs : proc[q].at = "closing" => proc'[q] = proc[q]
  PROVE  Counted'
<1>1. deriveWorkflowRunStatus' = deriveWorkflowRunStatus
  BY SameRunStatus
<1>2. QED
  BY <1>1 DEF Counted

\* A status of the run that is behind keeps a process that will derive it, unless it
\* was written last by one that had read before.
LEMMA CountedStep ==
  ASSUME Typed, Counted, [Next]_vars
  PROVE  Counted'
<1>1. ASSUME NEW p \in Procs,
             (\E n \in Nodes : OnNode(p, n)) \/ (\E t \in Tasks : OnTask(p, t))
      PROVE  Counted'
  <2>1. PICK w \in ProcRec : Begins(p, w)
    BY <1>1, CommandDoes
  <2>2. proc[p].at = "idle" /\ Others(p) /\ UNCHANGED <<tables, late, drifted>>
    BY <2>1, BeginsDoes
  <2>3. QED
    BY <2>2, SameCounted DEF Others, tables, WillList
<1>2. ASSUME NEW p \in Procs, dbLinkTaskToWorkflowNodeRun(p)
      PROVE  Counted'
  <2>1. proc[p].at = "linking" /\ Others(p) /\ UNCHANGED <<tables, late, drifted>>
    BY <1>2, LinksDoes
  <2>2. QED
    BY <2>1, SameCounted DEF Others, tables, WillList
<1>3. ASSUME NEW p \in Procs, InsertsAttempt(p)
      PROVE  Counted'
  <2>1. proc[p].at = "inserting" /\ Others(p) /\ UNCHANGED <<spec, node, run, late, drifted>>
    BY <1>3, InsertDoes
  <2>2. QED
    BY <2>1, SameCounted DEF Others, WillList
<1>4. ASSUME NEW p \in Procs, BindsTask(p)
      PROVE  Counted'
  <2>1. PICK n \in Nodes :
          /\ proc[p].at = "binding" /\ Others(p) /\ node'[n].status = node[n].status
          /\ \A m \in Nodes \ {n} : node'[m] = node[m]
          /\ UNCHANGED <<spec, run, late, drifted>>
    BY <1>4, BindDoes
  <2>2. \A m \in Nodes : node'[m].status = node[m].status
    BY <2>1
  <2>3. QED
    BY <2>1, <2>2, SameCounted DEF Others, WillList
<1>5. ASSUME NEW p \in Procs, syncWorkflowNodeRunForTask(p)
      PROVE  Counted'
  <2>1. proc[p].at = "syncing" /\ Others(p) /\ UNCHANGED <<tables, late, drifted>>
    BY <1>5, SyncDoes
  <2>2. QED
    BY <2>1, SameCounted DEF Others, tables, WillList
<1>6. ASSUME NEW p \in Procs, Lists(p)
      PROVE  Counted'
  BY <1>6, ListsDoes DEF Counted
<1>7. ASSUME NEW p \in Procs, NEW n \in Nodes, Visits(p, n)
      PROVE  Counted'
  <2>1. /\ proc[p].at \in {"visiting", "changing"}
        /\ proc'[p] = proc[p] \/ proc'[p].at = "passing"
    BY <1>7, VisitDoes
  <2>2. QED
    BY <2>1 DEF Counted, WillList
<1>8. ASSUME NEW p \in Procs, refreshWorkflowRunStatus(p)
      PROVE  Counted'
  <2>1. proc'[p].at = "closing" /\ proc'[p].status = deriveWorkflowRunStatus /\ UNCHANGED tables
    BY <1>8, RefreshDoes
  <2>2. deriveWorkflowRunStatus' = deriveWorkflowRunStatus
    BY <2>1, SameRunStatus DEF tables
  <2>3. QED
    BY <2>1, <2>2 DEF Counted
<1>9. ASSUME NEW p \in Procs, WritesTask(p)
      PROVE  Counted'
  <2>1. /\ proc[p].at \in {"writing", "noting"} /\ Others(p)
        /\ (drifted => drifted') /\ UNCHANGED <<spec, node, run, late>>
    BY <1>9, WriteTaskDoes
  <2>2. QED
    BY <2>1, SameCounted DEF Others, WillList
<1>10. ASSUME NEW p \in Procs, NEW n \in Nodes, dbUpdateWorkflowNodeRun(p, n)
       PROVE  Counted'
  BY <1>10, UpdateNodeDoes DEF Counted, WillList
<1>11. ASSUME NEW p \in Procs, dbUpdateWorkflowRun(p)
       PROVE  Counted'
  <2>1. late' = (run' # deriveWorkflowRunStatus) /\ UNCHANGED <<spec, node>>
    BY <1>11, UpdateRunDoes
  <2>2. deriveWorkflowRunStatus' = deriveWorkflowRunStatus
    BY <2>1, SameRunStatus
  <2>3. QED
    BY <2>1, <2>2 DEF Counted
<1>12. ASSUME NEW p \in Procs, Crash(p)
       PROVE  Counted'
  BY <1>12, CrashDoes DEF Counted
<1>13. ASSUME NEW t \in Tasks, Awaits(t)
       PROVE  Counted'
  BY <1>13, AwaitsDoes DEF Counted
<1>14. CASE UNCHANGED vars
  BY <1>14, SameCounted DEF vars, tables
<1>15. QED
  BY <1>1, <1>2, <1>3, <1>4, <1>5, <1>6, <1>7, <1>8, <1>9, <1>10, <1>11, <1>12, <1>13, <1>14
  DEF Next, Links, Reconciles, Writes

\* A run starts with its nodes and its status up to date.
LEMMA SettledInit == Init => Followed /\ Counted
<1> SUFFICES ASSUME Init PROVE Followed /\ Counted
  OBVIOUS
<1>1. ASSUME NEW n \in Nodes
      PROVE  node[n].status = Derived(n, node[n].task)
  <2>1. \A m \in Nodes : ~nodeRunSatisfiesOutgoingEdges(m)
    BY DEF Init, nodeRunSatisfiesOutgoingEdges
  <2>2. WaitingOn(n) = {m \in Nodes : <<m, n>> \in spec.edges}
    BY <2>1 DEF WaitingOn
  <2>3. /\ node[n].task = NoTask /\ node[n].released = FALSE
        /\ node[n].status = IF \E m \in Nodes : <<m, n>> \in spec.edges THEN "pending"
                            ELSE IF n \in spec.manual THEN "awaiting_release" ELSE "ready"
    BY DEF Init
  <2>4. QED
    BY <2>2, <2>3 DEF Derived, AwaitingRelease
<1>2. QED
  BY <1>1 DEF Init, Followed, Counted, UpToDate

\* Once the commands are through, the nodes have the statuses the tables give them, and
\* so has the run unless its last write was late; whatever the graph, and whoever read
\* before the others' writes and wrote after them.
THEOREM Settles == Spec => []Settled
<1> DEFINE IInv == Followed /\ Counted
<1>1. Init => IInv
  BY SettledInit
<1>2. Typed /\ IInv /\ [Next]_vars => IInv'
  BY FollowedStep, CountedStep
<1>3. IInv => Settled
  <2>1. SUFFICES ASSUME IInv, Quiet
                 PROVE  /\ \A n \in Nodes : node[n].status \in Final \/ node[n].status = Derived(n, node[n].task)
                        /\ late \/ run = deriveWorkflowRunStatus
    BY DEF Settled
  <2>2. ~drifted /\ \A p \in Procs : proc[p].at \notin WillList \cup {"syncing", "visiting", "closing"}
    BY <2>1 DEF Quiet, WillList
  <2>3. QED
    BY <2>1, <2>2 DEF Followed, Counted, UpToDate
<1>4. QED
  BY <1>1, <1>2, <1>3, AlwaysTyped, PTL DEF Spec

------------------------------------------------------------------------------
(* NotStuck                                                                 *)

\* What the status of a run that is not over tells of its nodes.
LEMMA RunNotOver ==
  ASSUME Typed, deriveWorkflowRunStatus \in {"waiting", "ready", "running", "blocked"}
  PROVE  /\ \A n \in Nodes : node[n].status # "failed"
         /\ \A n \in Nodes : node[n].status = "cancelled" => n \in spec.optional
         /\ \E n \in Nodes : node[n].status \notin Final
<1> DEFINE required  == Live \ spec.optional
           completed == IF required # {} THEN required ELSE Live
<1>1. Live # {} /\ ~Some({"failed"}) /\ ~\E n \in required : node[n].status = "cancelled"
  BY DEF deriveWorkflowRunStatus
<1>2. \A n \in Nodes : node[n].status # "failed"
  BY <1>1 DEF Some, Live
<1>3. \A n \in Nodes : node[n].status = "cancelled" => n \in spec.optional
  BY <1>1 DEF Live
<1>4. \E n \in Nodes : node[n].status \notin Final
  <2>1. SUFFICES ASSUME \A n \in Nodes : node[n].status \in Final
                 PROVE  FALSE
    OBVIOUS
  <2>2. \A n \in Live : node[n].status \in {"done", "skipped", "cancelled"}
    BY <1>2, <2>1 DEF Live, Final, Withdrawn
  <2>3. \A n \in Live : \/ node[n].status = "done"
                        \/ n \in spec.optional /\ node[n].status \in {"skipped", "cancelled"}
    BY <1>3, <2>2 DEF Live, Typed, OptionalSkips
  <2>4. \A n \in completed : \/ node[n].status = "done"
                             \/ n \in spec.optional /\ node[n].status \in {"skipped", "cancelled"}
    BY <2>3
  <2>5. ~Some({"running"}) /\ ~Some({"blocked"}) /\ ~Some({"ready"})
        /\ ~Some({"pending", "awaiting_release"})
    BY <2>2 DEF Some
  <2>6. deriveWorkflowRunStatus = "done"
    BY <1>1, <2>4, <2>5 DEF deriveWorkflowRunStatus
  <2>7. QED
    BY <2>6
<1>5. QED
  BY <1>2, <1>3, <1>4

\* A node that nothing waits before is pending only for its task.
LEMMA PendingForTask ==
  ASSUME Typed, NEW n \in Nodes, WaitingOn(n) = {}, Derived(n, node[n].task) = "pending"
  PROVE  task[node[n].task] = "waiting"
<1>1. node[n].task \in Tasks \cup {NoTask}
  BY DEF Typed, TypeOK
<1>2. QED
  BY <1>1, FromTask DEF Typed, Derived

\* A gate that nothing waits before, and that was not released, can be.
LEMMA GateAwaits ==
  ASSUME Typed, NEW n \in spec.gates, WaitingOn(n) = {}, ~node[n].released, NEW t
  PROVE  Derived(n, t) = "awaiting_release"
<1>1. n \in spec.manual
  BY SpecShape DEF Typed
<1>2. QED
  BY <1>1 DEF Derived, AwaitingRelease

\* Of the nodes that are not final, one waits for no other: it is at work, or somebody
\* can start or release it, or its task has a dependency of its own.
THEOREM NeverStuck == Spec => []NotStuck
<1>1. Typed /\ Settled => NotStuck
  <2> SUFFICES ASSUME Typed, Settled, Quiet, ~late, run \in {"waiting", "ready", "running", "blocked"},
                      \A n \in spec.gates : node[n].released => Over(n)
               PROVE  \E n \in Nodes : GoesOn(n)
    BY DEF NotStuck
  <2> DEFINE S == {n \in Nodes : node[n].status \notin Final}
  <2>1. /\ run = deriveWorkflowRunStatus
        /\ \A n \in Nodes : node[n].status \in Final \/ node[n].status = Derived(n, node[n].task)
    BY DEF Settled
  <2>2. /\ \A n \in Nodes : node[n].status # "failed"
        /\ \A n \in Nodes : node[n].status = "cancelled" => n \in spec.optional
        /\ S # {}
    BY <2>1, RunNotOver
  <2>3. Acyclic(spec.edges)
    BY SpecShape DEF Typed
  <2>4. PICK n \in S : \A m \in S : <<m, n>> \notin spec.edges
    <3>1. S \in (SUBSET Nodes) \ {{}}
      BY <2>2
    <3> HIDE DEF S
    <3>2. QED
      BY <2>3, <3>1 DEF Acyclic
  <2>5. WaitingOn(n) = {}
    <3>1. SUFFICES ASSUME NEW m \in Nodes, <<m, n>> \in spec.edges
                   PROVE  nodeRunSatisfiesOutgoingEdges(m)
      BY DEF WaitingOn
    <3>2. node[m].status \in Final \ {"failed"}
      BY <2>2, <2>4, <3>1
    <3>3. node[m].status \in {"skipped", "cancelled"} => m \in spec.optional
      BY <2>2 DEF Typed, OptionalSkips
    <3>4. QED
      BY <3>2, <3>3 DEF Final, Withdrawn, nodeRunSatisfiesOutgoingEdges
  <2>6. node[n].status = "pending" => task[node[n].task] = "waiting"
    BY <2>1, <2>5, PendingForTask
  <2>7. n \in spec.gates => node[n].status = "awaiting_release"
    <3>1. SUFFICES ASSUME n \in spec.gates
                   PROVE  node[n].status = "awaiting_release"
      OBVIOUS
    <3>2. ~node[n].released
      BY <3>1 DEF Over, Final
    <3>3. QED
      BY <2>1, <2>5, <3>1, <3>2, GateAwaits
  <2>8. QED
    BY <2>5, <2>6, <2>7 DEF GoesOn
<1>2. QED
  BY <1>1, Settles, AlwaysTyped, PTL

------------------------------------------------------------------------------
(* OneAttempt                                                               *)

Count(n) == node[n].attempts

IsLink(t, n, k) == owner[t] = n /\ attempt[t] = k

Numbers == \A t \in Tasks : owner[t] \in Nodes => attempt[t] \in 1 .. Count(owner[t]) + 1

Unique ==
  \A t, u \in Tasks : owner[t] \in Nodes /\ owner[t] = owner[u] /\ attempt[t] = attempt[u] => t = u

NoGap == \A n \in Nodes : \A k \in 1 .. Count(n) : \E t \in Tasks : IsLink(t, n, k)

\* An attempt that is inserted or bound, in view of the node's count.
Ahead(w) ==
  /\ w.at = "inserting" => w.attempt \in 1 .. Count(w.node) + 1
  /\ w.at = "binding" => attempt[w.task] = w.attempt /\ w.attempt = Count(w.node) + 1

OneBinds ==
  \A p, q \in Procs :
    proc[p].at = "binding" /\ proc[q].at = "binding" /\ proc[p].task = proc[q].task => p = q

Numbered == Numbers /\ Unique /\ NoGap /\ (\A p \in Procs : Ahead(proc[p])) /\ OneBinds

\* Nothing of the attempts is written, and nobody begins to bind.
LEMMA SameNumbers ==
  ASSUME Typed, Numbered, NEW p \in Procs, UNCHANGED <<owner, attempt>>, Others(p),
         \A n \in Nodes : node'[n].attempts = node[n].attempts,
         proc'[p].at \notin {"inserting", "binding"}
  PROVE  Numbered'
<1>1. \A n \in Nodes : Count(n)' = Count(n)
  BY DEF Count
<1>2. Numbers' /\ Unique' /\ NoGap'
  BY <1>1 DEF Numbered, Numbers, Unique, NoGap, IsLink
<1>3. ASSUME NEW q \in Procs PROVE Ahead(proc[q])'
  <2>1. CASE q = p
    BY <2>1 DEF Ahead
  <2>2. CASE q # p
    <3>1. proc'[q] = proc[q] /\ Ahead(proc[q]) /\ Fit(proc[q])
      BY <2>2 DEF Others, Numbered, Typed, Fits
    <3>2. proc[q].at \in {"inserting", "binding"} => Count(proc[q].node)' = Count(proc[q].node)
      BY <1>1, <3>1 DEF Fit
    <3>3. QED
      BY <3>1, <3>2 DEF Ahead, Count
  <2>3. QED
    BY <2>1, <2>2
<1>4. OneBinds'
  BY DEF Numbered, OneBinds, Others
<1>5. QED
  BY <1>2, <1>3, <1>4 DEF Numbered

\* An attempt that the table accepts has the next number of its node.
LEMMA IsNext ==
  ASSUME Typed, Numbered, NEW p \in Procs, proc[p].at = "inserting",
         NEW n \in Nodes, NEW k \in Nat, proc[p].node = n, proc[p].attempt = k,
         \A u \in Tasks : ~(owner[u] = n /\ attempt[u] = k)
  PROVE  k = Count(n) + 1
<1>1. k \in 1 .. Count(n) + 1
  BY DEF Numbered, Ahead
<1>2. k \notin 1 .. Count(n)
  BY DEF Numbered, NoGap, IsLink
<1>3. Count(n) \in Nat
  BY TypesAre DEF Typed, NodeRec, Count
<1>4. QED
  BY <1>1, <1>2, <1>3

\* Every step keeps the numbers.
LEMMA NumberedStep ==
  ASSUME Typed, Numbered, [Next]_vars
  PROVE  Numbered'
<1>0. /\ \A n \in Nodes : Count(n) \in Nat
      /\ \A t \in Tasks : attempt[t] \in Nat /\ owner[t] \in Nodes \cup {NoNode}
  BY TypesAre DEF Typed, NodeRec, Count
<1>1. ASSUME NEW p \in Procs,
             (\E n \in Nodes : OnNode(p, n)) \/ (\E t \in Tasks : OnTask(p, t))
      PROVE  Numbered'
  <2>1. PICK w \in ProcRec : Begins(p, w) /\ w.at \notin {"inserting", "binding"}
    BY <1>1, CommandDoes
  <2>2. QED
    BY <2>1, BeginsDoes, SameNumbers DEF tables
<1>2. ASSUME NEW p \in Procs, dbLinkTaskToWorkflowNodeRun(p)
      PROVE  Numbered'
  <2>1. /\ Others(p) /\ UNCHANGED <<owner, attempt, node>>
        /\ \/ proc'[p].at = "idle"
           \/ /\ proc'[p].at = "inserting" /\ proc'[p].node \in Nodes
              /\ proc'[p].attempt = node[proc'[p].node].attempts + 1
    BY <1>2, LinksDoes DEF tables
  <2>2. CASE proc'[p].at = "idle"
    BY <2>1, <2>2, SameNumbers
  <2>3. CASE proc'[p].at = "inserting"
    <3>1. PICK n, k : /\ n \in Nodes /\ n = proc'[p].node
                      /\ k = proc'[p].attempt /\ k = Count(n) + 1
                      /\ proc'[p].at = "inserting"
      BY <2>1, <2>3 DEF Count
    <3>2. \A m : Count(m)' = Count(m)
      BY <2>1 DEF Count
    <3>3. Numbers' /\ Unique' /\ NoGap'
      BY <2>1, <3>2 DEF Numbered, Numbers, Unique, NoGap, IsLink
    <3>4. ASSUME NEW q \in Procs PROVE Ahead(proc[q])'
      <4>1. CASE q = p
        <5>1. k = node[n].attempts + 1 /\ node[n].attempts \in Nat
          BY <1>0, <3>1 DEF Count
        <5>2. k \in 1 .. node'[n].attempts + 1
          BY <2>1, <5>1
        <5>3. QED
          BY <3>1, <4>1, <5>2 DEF Ahead, Count
      <4>2. CASE q # p
        BY <2>1, <3>2, <4>2 DEF Others, Numbered, Ahead
      <4>3. QED
        BY <4>1, <4>2
    <3>5. OneBinds'
      BY <2>1, <2>3 DEF Numbered, OneBinds, Others
    <3>6. QED
      BY <3>3, <3>4, <3>5 DEF Numbered
  <2>4. QED
    BY <2>1, <2>2, <2>3
<1>3. ASSUME NEW p \in Procs, InsertsAttempt(p)
      PROVE  Numbered'
  <2>1. PICK n \in Nodes \ spec.gates, t \in Tasks, k \in Nat :
           /\ proc[p].at = "inserting" /\ proc[p].node = n /\ proc[p].attempt = k
           /\ Others(p) /\ UNCHANGED node
           /\ \/ /\ proc'[p].at = "idle" /\ UNCHANGED <<owner, attempt>>
              \/ /\ proc'[p].at = "binding" /\ proc'[p].node = n /\ proc'[p].task = t
                 /\ proc'[p].attempt = k
                 /\ owner[t] = NoNode /\ \A u \in Tasks : ~(owner[u] = n /\ attempt[u] = k)
                 /\ owner'[t] = n /\ \A u \in Tasks \ {t} : owner'[u] = owner[u]
                 /\ attempt'[t] = k /\ \A u \in Tasks \ {t} : attempt'[u] = attempt[u]
    BY <1>3, InsertDoes
  <2>2. CASE proc'[p].at = "idle" /\ UNCHANGED <<owner, attempt>>
    BY <2>1, <2>2, SameNumbers
  <2>3. CASE proc'[p].at = "binding"
    <3>1. k = Count(n) + 1
      BY <2>1, <2>3, IsNext
    <3>2. \A m : Count(m)' = Count(m)
      BY <2>1 DEF Count
    <3>3. \A u \in Tasks : owner[u] \in Nodes => u # t /\ owner'[u] = owner[u] /\ attempt'[u] = attempt[u]
      BY <2>1, <2>3, WorkflowAssumption
    <3>4. \A u \in Tasks : u # t => owner'[u] = owner[u] /\ attempt'[u] = attempt[u]
      BY <2>1, <2>3
    <3>5. owner'[t] = n /\ attempt'[t] = k
      BY <2>1, <2>3
    <3>6. Numbers'
      <4>1. ASSUME NEW u \in Tasks, owner'[u] \in Nodes
            PROVE  attempt'[u] \in 1 .. Count(owner'[u]) + 1
        <5>1. CASE u = t
          BY <1>0, <3>1, <3>5, <5>1
        <5>2. CASE u # t
          BY <3>4, <4>1, <5>2 DEF Numbered, Numbers
        <5>3. QED
          BY <5>1, <5>2
      <4>2. QED
        BY <3>2, <4>1 DEF Numbers
    <3>7. Unique'
      <4>1. ASSUME NEW u \in Tasks, NEW v \in Tasks, owner'[u] \in Nodes, owner'[u] = owner'[v],
                   attempt'[u] = attempt'[v], u # v
            PROVE  FALSE
        <5>1. CASE u = t
          BY <2>1, <2>3, <3>4, <3>5, <4>1, <5>1
        <5>2. CASE v = t
          BY <2>1, <2>3, <3>4, <3>5, <4>1, <5>2
        <5>3. CASE u # t /\ v # t
          BY <3>4, <4>1, <5>3 DEF Numbered, Unique
        <5>4. QED
          BY <5>1, <5>2, <5>3
      <4>2. QED
        BY <4>1 DEF Unique
    <3>8. NoGap'
      <4>1. ASSUME NEW m \in Nodes, NEW j \in 1 .. Count(m)
            PROVE  \E u \in Tasks : owner'[u] = m /\ attempt'[u] = j
        BY <3>3 DEF Numbered, NoGap, IsLink
      <4>2. QED
        BY <3>2, <4>1 DEF NoGap, IsLink
    <3>9. ASSUME NEW q \in Procs PROVE Ahead(proc[q])'
      <4>1. CASE q = p
        BY <2>1, <2>3, <3>1, <3>2, <3>5, <4>1 DEF Ahead
      <4>2. CASE q # p
        <5>1. proc'[q] = proc[q] /\ Ahead(proc[q]) /\ Fit(proc[q])
          BY <2>1, <4>2 DEF Others, Numbered, Typed, Fits
        <5>2. proc[q].at = "binding" => attempt'[proc[q].task] = attempt[proc[q].task]
          BY <3>3, <5>1 DEF Fit
        <5>3. QED
          BY <3>2, <5>1, <5>2 DEF Ahead
      <4>3. QED
        BY <4>1, <4>2
    <3>10. OneBinds'
      <4>1. ASSUME NEW q \in Procs, q # p, proc'[q].at = "binding", proc'[q].task = t
            PROVE  FALSE
        <5>1. proc[q].at = "binding" /\ proc[q].task = t /\ Fit(proc[q])
          BY <2>1, <4>1 DEF Others, Typed, Fits
        <5>2. owner[t] \in Nodes
          BY <5>1 DEF Fit
        <5>3. QED
          BY <3>3, <5>2
      <4>2. QED
        BY <2>1, <2>3, <4>1 DEF Numbered, OneBinds, Others
    <3>11. QED
      BY <3>6, <3>7, <3>8, <3>9, <3>10 DEF Numbered
  <2>4. QED
    BY <2>1, <2>2, <2>3
<1>4. ASSUME NEW p \in Procs, BindsTask(p)
      PROVE  Numbered'
  <2>1. PICK n \in Nodes \ spec.gates, t \in Tasks, k \in Nat :
           /\ proc[p].at = "binding" /\ proc[p].node = n /\ proc[p].task = t /\ proc[p].attempt = k
           /\ Others(p) /\ proc'[p].at = "syncing"
           /\ node'[n].attempts = k /\ \A m \in Nodes \ {n} : node'[m] = node[m]
           /\ UNCHANGED <<owner, attempt>>
    BY <1>4, BindDoes
  <2>2. owner[t] = n /\ attempt[t] = k /\ k = Count(n) + 1
    BY <2>1 DEF Typed, Fits, Fit, Numbered, Ahead
  <2>3. Count(n)' = Count(n) + 1 /\ \A m \in Nodes \ {n} : Count(m)' = Count(m)
    BY <2>1, <2>2 DEF Count
  <2>4. Unique'
    BY <2>1 DEF Numbered, Unique
  <2>5. Numbers'
    <3>1. ASSUME NEW u \in Tasks, owner[u] \in Nodes
          PROVE  attempt[u] \in 1 .. node'[owner[u]].attempts + 1
      <4>1. attempt[u] \in 1 .. Count(owner[u]) + 1
        BY <3>1 DEF Numbered, Numbers
      <4>2. Count(owner[u]) \in Nat /\ Count(n) \in Nat
        BY <1>0, <3>1
      <4>3. CASE owner[u] = n
        BY <2>3, <4>1, <4>2, <4>3 DEF Count
      <4>4. CASE owner[u] # n
        BY <2>3, <3>1, <4>1, <4>4 DEF Count
      <4>5. QED
        BY <4>3, <4>4
    <3>2. QED
      BY <2>1, <3>1 DEF Numbers, Count
  <2>6. NoGap'
    <3>1. ASSUME NEW m \in Nodes, NEW j \in 1 .. Count(m)'
          PROVE  \E u \in Tasks : IsLink(u, m, j)
      <4>1. CASE m = n /\ j = k
        BY <2>2, <4>1 DEF IsLink
      <4>2. CASE ~(m = n /\ j = k)
        <5>1. j \in 1 .. Count(m)
          BY <1>0, <2>2, <2>3, <4>2
        <5>2. QED
          BY <5>1 DEF Numbered, NoGap
      <4>3. QED
        BY <4>1, <4>2
    <3>2. \A u \in Tasks : \A m, j : IsLink(u, m, j)' <=> IsLink(u, m, j)
      BY <2>1 DEF IsLink
    <3>3. QED
      BY <3>1, <3>2 DEF NoGap
  <2>7. ASSUME NEW q \in Procs PROVE Ahead(proc[q])'
    <3>1. CASE q = p
      BY <2>1, <3>1 DEF Ahead
    <3>2. CASE q # p
      <4>1. proc'[q] = proc[q] /\ Ahead(proc[q]) /\ Fit(proc[q])
        BY <2>1, <3>2 DEF Others, Numbered, Typed, Fits
      <4>2. PICK m, j : m = proc[q].node /\ j = proc[q].attempt
        OBVIOUS
      <4>3. proc[q].at = "inserting" => j \in 1 .. Count(m)' + 1
        <5>1. proc[q].at = "inserting" => m \in Nodes /\ j \in 1 .. Count(m) + 1
          BY <4>1, <4>2 DEF Fit, Ahead
        <5>2. QED
          BY <1>0, <2>3, <5>1
      <4>4. proc[q].at = "binding" => m # n
        <5>1. SUFFICES ASSUME proc[q].at = "binding", m = n
                       PROVE  FALSE
          OBVIOUS
        <5>2. proc[q].task \in Tasks /\ owner[proc[q].task] = n /\ attempt[proc[q].task] = k
          BY <2>2, <4>1, <4>2, <5>1 DEF Fit, Ahead
        <5>3. proc[q].task = t
          BY <2>2, <5>2 DEF Numbered, Unique
        <5>4. QED
          BY <2>1, <3>2, <5>1, <5>3 DEF Numbered, OneBinds
      <4>5. proc[q].at = "binding" => attempt[proc[q].task] = j /\ j = Count(m)' + 1
        <5>1. proc[q].at = "binding" => m \in Nodes \ {n} /\ attempt[proc[q].task] = j /\ j = Count(m) + 1
          BY <4>1, <4>2, <4>4 DEF Fit, Ahead
        <5>2. QED
          BY <2>3, <5>1
      <4>6. QED
        BY <2>1, <4>1, <4>2, <4>3, <4>5 DEF Ahead, Count
    <3>3. QED
      BY <3>1, <3>2
  <2>8. OneBinds'
    BY <2>1 DEF Numbered, OneBinds, Others
  <2>9. QED
    BY <2>4, <2>5, <2>6, <2>7, <2>8 DEF Numbered
<1>5. ASSUME NEW p \in Procs, syncWorkflowNodeRunForTask(p)
      PROVE  Numbered'
  BY <1>5, SyncDoes, SameNumbers DEF tables
<1>6. ASSUME NEW p \in Procs, Lists(p)
      PROVE  Numbered'
  BY <1>6, ListsDoes, SameNumbers DEF tables
<1>7. ASSUME NEW p \in Procs, NEW n \in Nodes, Visits(p, n)
      PROVE  Numbered'
  <2>1. /\ proc[p].at \in {"visiting", "changing"} /\ Others(p) /\ UNCHANGED tables
        /\ proc'[p] = proc[p] \/ proc'[p].at = "passing"
    BY <1>7, VisitDoes
  <2>2. QED
    BY <2>1, SameNumbers DEF tables
<1>8. ASSUME NEW p \in Procs, refreshWorkflowRunStatus(p)
      PROVE  Numbered'
  BY <1>8, RefreshDoes, SameNumbers DEF tables
<1>9. ASSUME NEW p \in Procs, WritesTask(p)
      PROVE  Numbered'
  BY <1>9, WriteTaskDoes, SameNumbers
<1>10. ASSUME NEW p \in Procs, NEW n \in Nodes, dbUpdateWorkflowNodeRun(p, n)
       PROVE  Numbered'
  <2>1. /\ proc'[p].at \in {"listing", "changing"} /\ Others(p) /\ UNCHANGED <<owner, attempt>>
        /\ node'[n].attempts = node[n].attempts /\ \A m \in Nodes \ {n} : node'[m] = node[m]
    BY <1>10, UpdateNodeDoes
  <2>2. QED
    BY <2>1, SameNumbers
<1>11. ASSUME NEW p \in Procs, dbUpdateWorkflowRun(p)
       PROVE  Numbered'
  BY <1>11, UpdateRunDoes, SameNumbers
<1>12. ASSUME NEW p \in Procs, Crash(p)
       PROVE  Numbered'
  BY <1>12, CrashDoes, SameNumbers DEF tables
<1>13. CASE UNCHANGED <<node, owner, attempt, proc>>
  BY <1>13 DEF Numbered, Numbers, Unique, NoGap, IsLink, Count, Ahead, OneBinds
<1>14. ASSUME NEW t \in Tasks, Awaits(t)
       PROVE  Numbered'
  BY <1>13, <1>14, AwaitsDoes
<1>15. CASE UNCHANGED vars
  BY <1>13, <1>15 DEF vars, tables
<1>16. QED
  BY <1>1, <1>2, <1>3, <1>4, <1>5, <1>6, <1>7, <1>8, <1>9, <1>10, <1>11, <1>12, <1>14, <1>15
  DEF Next, Links, Reconciles, Writes

EarlierOver == \A t, u \in Tasks :
  owner[t] \in Nodes /\ owner[t] = owner[u] /\ attempt[t] < attempt[u] => task[t] \in Ended

\* The last attempt is its node's task, unless the next one is inserted.
Latest ==
  \A n \in Nodes, t \in Tasks :
    /\ IsLink(t, n, Count(n)) /\ \A u \in Tasks : ~IsLink(u, n, Count(n) + 1)
    => node[n].task = t

Superseded == taken \/ (EarlierOver /\ Latest)

\* Attempts and their nodes' tasks are the same, and no task comes back.
LEMMA SameAttempts ==
  ASSUME Superseded, UNCHANGED <<owner, attempt, taken>>,
         \A n \in Nodes : node'[n].attempts = node[n].attempts /\ node'[n].task = node[n].task,
         \A t \in Tasks : task'[t] \notin Ended => task[t] \notin Ended
  PROVE  Superseded'
<1>1. \A n \in Nodes : Count(n)' = Count(n)
  BY DEF Count
<1>2. \A t, n, k : IsLink(t, n, k)' <=> IsLink(t, n, k)
  BY DEF IsLink
<1>3. CASE EarlierOver /\ Latest
  <2>1. EarlierOver'
    BY <1>3 DEF EarlierOver
  <2>2. ASSUME NEW n \in Nodes, NEW t \in Tasks, IsLink(t, n, Count(n))',
               \A u \in Tasks : ~IsLink(u, n, Count(n) + 1)'
        PROVE  node'[n].task = t
    BY <1>1, <1>3, <2>2 DEF Latest, IsLink
  <2>3. QED
    BY <2>1, <2>2 DEF Superseded, Latest
<1>4. QED
  BY <1>3 DEF Superseded

\* If a check still holds when its attempt is inserted, the earlier ones are over.
LEMMA EarlierAreOver ==
  ASSUME Typed, Numbered, EarlierOver, Latest, NEW n \in Nodes,
         assertCanAttachTaskToWorkflowNodeRun(n),
         \A u \in Tasks : ~IsLink(u, n, Count(n) + 1)
  PROVE  \A t \in Tasks : owner[t] = n => task[t] \in Ended
<1> SUFFICES ASSUME NEW t \in Tasks, owner[t] = n
             PROVE  task[t] \in Ended
  OBVIOUS
<1>1. Count(n) \in Nat /\ attempt[t] \in Nat /\ \A u \in Tasks : attempt[u] \in Nat
  BY TypesAre DEF Typed, NodeRec, Count
<1>2. attempt[t] \in 1 .. Count(n)
  <2>1. attempt[t] \in 1 .. Count(n) + 1
    BY DEF Numbered, Numbers
  <2>2. attempt[t] # Count(n) + 1
    BY DEF IsLink
  <2>3. QED
    BY <1>1, <2>1, <2>2
<1>3. PICK v \in Tasks : IsLink(v, n, Count(n))
  <2>1. Count(n) \in 1 .. Count(n)
    BY <1>1, <1>2
  <2>2. QED
    BY <2>1 DEF Numbered, NoGap
<1>4. node[n].task = v
  BY <1>3 DEF Latest
<1>5. task[v] \in Ended
  BY <1>4, WorkflowAssumption DEF assertCanAttachTaskToWorkflowNodeRun, NoActiveTask
<1>6. CASE attempt[t] = Count(n)
  <2>1. t = v
    BY <1>3, <1>6 DEF IsLink, Numbered, Unique
  <2>2. QED
    BY <1>5, <2>1
<1>7. CASE attempt[t] # Count(n)
  <2>1. attempt[t] < attempt[v] /\ owner[v] = n
    BY <1>1, <1>2, <1>3, <1>7 DEF IsLink
  <2>2. QED
    BY <2>1 DEF EarlierOver
<1>8. QED
  BY <1>6, <1>7

\* Every step keeps the earlier attempts over, unless one of them goes on.
LEMMA SupersededStep ==
  ASSUME Typed, Numbered, Superseded, [Next]_vars
  PROVE  Superseded'
<1>0. /\ \A n \in Nodes : Count(n) \in Nat
      /\ \A t \in Tasks : attempt[t] \in Nat /\ owner[t] \in Nodes \cup {NoNode}
  BY TypesAre DEF Typed, NodeRec, Count
<1>1. CASE UNCHANGED <<tables, taken>>
  BY <1>1, SameAttempts DEF tables
<1>2. ASSUME NEW p \in Procs,
             (\E n \in Nodes : OnNode(p, n)) \/ (\E t \in Tasks : OnTask(p, t))
      PROVE  Superseded'
  <2>1. PICK w \in ProcRec : Begins(p, w)
    BY <1>2, CommandDoes
  <2>2. QED
    BY <1>1, <2>1, BeginsDoes
<1>3. ASSUME NEW p \in Procs, InsertsAttempt(p)
      PROVE  Superseded'
  <2>1. PICK n \in Nodes \ spec.gates, t \in Tasks, k \in Nat :
           /\ proc[p].at = "inserting" /\ proc[p].node = n /\ proc[p].attempt = k
           /\ UNCHANGED <<node, task>>
           /\ \/ UNCHANGED <<owner, attempt, taken>>
              \/ /\ owner[t] = NoNode /\ \A u \in Tasks : ~(owner[u] = n /\ attempt[u] = k)
                 /\ owner'[t] = n /\ \A u \in Tasks \ {t} : owner'[u] = owner[u]
                 /\ attempt'[t] = k /\ \A u \in Tasks \ {t} : attempt'[u] = attempt[u]
                 /\ taken' = (taken \/ ~assertCanAttachTaskToWorkflowNodeRun(n))
    BY <1>3, InsertDoes
  <2>2. CASE UNCHANGED <<owner, attempt, taken>>
    BY <2>1, <2>2, SameAttempts
  <2>3. CASE /\ owner[t] = NoNode /\ \A u \in Tasks : ~(owner[u] = n /\ attempt[u] = k)
             /\ owner'[t] = n /\ \A u \in Tasks \ {t} : owner'[u] = owner[u]
             /\ attempt'[t] = k /\ \A u \in Tasks \ {t} : attempt'[u] = attempt[u]
             /\ taken' = (taken \/ ~assertCanAttachTaskToWorkflowNodeRun(n))
    <3>1. k = Count(n) + 1
      BY <2>1, <2>3, IsNext
    <3>2. SUFFICES ASSUME ~taken'
                   PROVE  EarlierOver' /\ Latest'
      BY DEF Superseded
    <3>3. EarlierOver /\ Latest /\ assertCanAttachTaskToWorkflowNodeRun(n)
      BY <2>3, <3>2 DEF Superseded
    <3>4. \A u \in Tasks : ~IsLink(u, n, Count(n) + 1)
      BY <2>3, <3>1 DEF IsLink
    <3>5. \A u \in Tasks : owner[u] = n => task[u] \in Ended
      BY <3>3, <3>4, EarlierAreOver
    <3>6. EarlierOver'
      <4>1. ASSUME NEW u \in Tasks, NEW v \in Tasks,
                   owner'[u] \in Nodes, owner'[u] = owner'[v], attempt'[u] < attempt'[v]
            PROVE  task[u] \in Ended
        <5>1. CASE u = t
          <6>1. v # t /\ owner[v] = n /\ attempt[v] > k
            BY <1>0, <2>1, <2>3, <4>1, <5>1
          <6>2. attempt[v] \in 1 .. Count(n) + 1
            BY <6>1 DEF Numbered, Numbers
          <6>3. QED
            BY <1>0, <3>1, <6>1, <6>2
        <5>2. CASE u # t /\ v = t
          BY <2>3, <3>5, <4>1, <5>2
        <5>3. CASE u # t /\ v # t
          BY <2>3, <3>3, <4>1, <5>3 DEF EarlierOver
        <5>4. QED
          BY <5>1, <5>2, <5>3
      <4>2. QED
        BY <2>1, <4>1 DEF EarlierOver
    <3>7. Latest'
      <4>1. ASSUME NEW m \in Nodes, NEW u \in Tasks, IsLink(u, m, Count(m))',
                   \A v \in Tasks : ~IsLink(v, m, Count(m) + 1)'
            PROVE  node[m].task = u
        <5>1. Count(m)' = Count(m) /\ m # n
          BY <2>1, <2>3, <3>1, <4>1 DEF Count, IsLink
        <5>2. u # t /\ owner[u] = m /\ attempt[u] = Count(m)
          BY <2>3, <4>1, <5>1 DEF IsLink
        <5>3. \A v \in Tasks : ~IsLink(v, m, Count(m) + 1)
          BY <2>3, <4>1, <5>1, WorkflowAssumption DEF IsLink
        <5>4. QED
          BY <3>3, <5>2, <5>3 DEF Latest, IsLink
      <4>2. QED
        BY <2>1, <4>1 DEF Latest
    <3>8. QED
      BY <3>6, <3>7
  <2>4. QED
    BY <2>1, <2>2, <2>3
<1>4. ASSUME NEW p \in Procs, BindsTask(p)
      PROVE  Superseded'
  <2>1. PICK n \in Nodes \ spec.gates, t \in Tasks, k \in Nat :
           /\ proc[p].at = "binding" /\ proc[p].node = n /\ proc[p].task = t /\ proc[p].attempt = k
           /\ node'[n].attempts = k /\ node'[n].task = t
           /\ \A m \in Nodes \ {n} : node'[m] = node[m]
           /\ UNCHANGED <<owner, attempt, task, taken>>
    BY <1>4, BindDoes
  <2>2. owner[t] = n /\ attempt[t] = k
    BY <2>1 DEF Typed, Fits, Fit, Numbered, Ahead
  <2>3. SUFFICES ASSUME EarlierOver, Latest
                 PROVE  EarlierOver' /\ Latest'
    BY <2>1 DEF Superseded
  <2>4. EarlierOver'
    BY <2>1, <2>3 DEF EarlierOver
  <2>5. ASSUME NEW m \in Nodes, NEW u \in Tasks, owner[u] = m, attempt[u] = node'[m].attempts,
               \A v \in Tasks : ~(owner[v] = m /\ attempt[v] = node'[m].attempts + 1)
        PROVE  node'[m].task = u
    <3>1. CASE m = n
      BY <2>1, <2>2, <2>5, <3>1 DEF Numbered, Unique
    <3>2. CASE m # n
      BY <2>1, <2>3, <2>5, <3>2 DEF Latest, IsLink, Count
    <3>3. QED
      BY <3>1, <3>2
  <2>6. QED
    BY <2>1, <2>4, <2>5 DEF Latest, IsLink, Count
<1>5. ASSUME NEW p \in Procs, WritesTask(p)
      PROVE  Superseded'
  <2>1. PICK t \in Tasks :
           /\ \A u \in Tasks \ {t} : task'[u] = task[u]
           /\ taken' = (taken \/ (Earlier(t) /\ task'[t] \notin Ended))
           /\ UNCHANGED <<node, owner, attempt>>
    BY <1>5, WriteTaskDoes
  <2>2. SUFFICES ASSUME ~taken', EarlierOver, Latest
                 PROVE  EarlierOver' /\ Latest'
    BY <2>1 DEF Superseded
  <2>3. Latest'
    BY <2>1, <2>2 DEF Latest, IsLink, Count
  <2>4. ASSUME NEW u \in Tasks, NEW v \in Tasks,
               owner[u] \in Nodes, owner[u] = owner[v], attempt[u] < attempt[v]
        PROVE  task'[u] \in Ended
    <3>1. CASE u = t
      BY <2>1, <2>2, <2>4, <3>1, WorkflowAssumption DEF Earlier
    <3>2. CASE u # t
      BY <2>1, <2>2, <2>4, <3>2 DEF EarlierOver
    <3>3. QED
      BY <3>1, <3>2
  <2>5. QED
    BY <2>1, <2>3, <2>4 DEF EarlierOver
<1>6. ASSUME NEW p \in Procs, NEW n \in Nodes, dbUpdateWorkflowNodeRun(p, n)
      PROVE  Superseded'
  <2>1. PICK t : t = proc[p].task
    OBVIOUS
  <2>2. /\ proc[p].at \in {"releasing", "putting", "copying", "passing"} /\ proc[p].node = n
        /\ node'[n].attempts = node[n].attempts
        /\ node'[n].task = IF proc[p].at = "copying" THEN t ELSE node[n].task
        /\ \A m \in Nodes \ {n} : node'[m] = node[m]
        /\ taken' = (taken \/ (proc[p].at = "copying" /\ Earlier(t)))
        /\ UNCHANGED <<owner, attempt, task>>
    BY <1>6, <2>1, UpdateNodeDoes
  <2>3. CASE proc[p].at # "copying"
    BY <2>2, <2>3, SameAttempts DEF Typed, TypeOK
  <2>4. CASE proc[p].at = "copying"
    <3>1. SUFFICES ASSUME ~Earlier(t), EarlierOver, Latest
                   PROVE  EarlierOver' /\ Latest'
      BY <2>2, <2>4 DEF Superseded
    <3>2. t \in Tasks /\ owner[t] = n
      BY <2>1, <2>2, <2>4 DEF Typed, Fits, Fit
    <3>3. EarlierOver'
      BY <2>2, <3>1 DEF EarlierOver
    <3>4. \A m \in Nodes : Count(m)' = Count(m)
      BY <2>2 DEF Count
    <3>5. ASSUME NEW m \in Nodes, NEW u \in Tasks, IsLink(u, m, Count(m)),
                 \A v \in Tasks : ~IsLink(v, m, Count(m) + 1)
          PROVE  node'[m].task = u
      <4>1. CASE m # n
        BY <2>2, <3>1, <3>5, <4>1 DEF Latest
      <4>2. CASE m = n
        <5>1. attempt[t] \in 1 .. Count(n) + 1 /\ attempt[t] # Count(n) + 1
          BY <3>2, <3>5, <4>2 DEF Numbered, Numbers, IsLink
        <5>2. ~(attempt[t] < Count(n))
          BY <3>1, <3>2, <3>5, <4>2, WorkflowAssumption DEF Earlier, IsLink
        <5>3. attempt[t] = Count(n)
          BY <1>0, <5>1, <5>2
        <5>4. u = t
          BY <3>2, <3>5, <4>2, <5>3 DEF IsLink, Numbered, Unique
        <5>5. QED
          BY <2>2, <2>4, <4>2, <5>4
      <4>3. QED
        BY <4>1, <4>2
    <3>6. Latest'
      <4>1. \A m \in Nodes, u \in Tasks :
              /\ IsLink(u, m, Count(m))' <=> IsLink(u, m, Count(m))
              /\ IsLink(u, m, Count(m) + 1)' <=> IsLink(u, m, Count(m) + 1)
        BY <2>2, <3>4 DEF IsLink
      <4>2. QED
        BY <3>5, <4>1 DEF Latest
    <3>7. QED
      BY <3>3, <3>6
  <2>5. QED
    BY <2>3, <2>4
<1>7. ASSUME NEW p \in Procs,
             \/ dbLinkTaskToWorkflowNodeRun(p) \/ syncWorkflowNodeRunForTask(p) \/ Lists(p)
             \/ \E n \in Nodes : Visits(p, n)
             \/ refreshWorkflowRunStatus(p) \/ Crash(p)
      PROVE  Superseded'
  <2>1. UNCHANGED <<tables, taken>>
    BY <1>7, LinksDoes, SyncDoes, ListsDoes, VisitDoes, RefreshDoes, CrashDoes
  <2>2. QED
    BY <1>1, <2>1
<1>8. ASSUME NEW p \in Procs, dbUpdateWorkflowRun(p)
      PROVE  Superseded'
  BY <1>8, UpdateRunDoes, SameAttempts
<1>9. ASSUME NEW t \in Tasks, Awaits(t)
      PROVE  Superseded'
  BY <1>9, AwaitsDoes, SameAttempts
<1>10. CASE UNCHANGED vars
  BY <1>1, <1>10 DEF vars
<1>11. QED
  BY <1>2, <1>3, <1>4, <1>5, <1>6, <1>7, <1>8, <1>9, <1>10 DEF Next, Links, Reconciles, Writes

\* No node is carried out by two tasks at a time, unless an earlier one went on, or the
\* check of a later one was overtaken before its attempt was inserted.
THEOREM OneAtATime == Spec => []OneAttempt
<1> DEFINE IInv == Numbered /\ Superseded
<1>1. Init => IInv
  <2> SUFFICES ASSUME Init PROVE Numbered /\ Superseded
    OBVIOUS
  <2>1. /\ \A t \in Tasks : owner[t] \notin Nodes
        /\ \A n \in Nodes : Count(n) = 0
        /\ \A p \in Procs : proc[p].at = "idle"
    BY WorkflowAssumption DEF Init, Count, Work
  <2>2. QED
    BY <2>1 DEF Numbered, Numbers, Unique, NoGap, Ahead, OneBinds, Superseded, EarlierOver, Latest, IsLink
<1>2. Typed /\ IInv /\ [Next]_vars => IInv'
  BY NumberedStep, SupersededStep
<1>3. Typed /\ IInv => OneAttempt
  <2>1. SUFFICES ASSUME Typed, Numbered, Superseded, ~taken, NEW t \in Tasks, NEW u \in Tasks,
                        owner[t] = owner[u], owner[t] # NoNode, {task[t], task[u]} \cap Ended = {}
                 PROVE  t = u
    BY DEF OneAttempt
  <2>2. owner[t] \in Nodes /\ attempt[t] \in Nat /\ attempt[u] \in Nat
    BY <2>1, TypesAre DEF Typed
  <2>3. ~(attempt[t] < attempt[u]) /\ ~(attempt[u] < attempt[t])
    BY <2>1, <2>2 DEF Superseded, EarlierOver
  <2>4. QED
    BY <2>1, <2>2, <2>3 DEF Numbered, Unique
<1>4. QED
  BY <1>1, <1>2, <1>3, AlwaysTyped, PTL DEF Spec

------------------------------------------------------------------------------
(* OverStays                                                                *)

\* What p may write over once node n is over.
Holds(p, n) ==
  \/ proc[p].at \in {"releasing", "copying", "passing"} /\ proc[p].node = n
  \/ proc[p].at \in {"visiting", "changing", "passing"} /\ plan[p][n] # NoVisit

Known == \A p \in Procs, n \in Nodes : Holds(p, n) /\ Over(n) => <<p, n>> \in early

\* A process that is in no pass and decides nothing about a node that is over.
LEMMA KnownFrom ==
  ASSUME Known, NEW p \in Procs, Others(p), UNCHANGED spec,
         \A n \in Nodes : node'[n].status = node[n].status,
         \A q \in Procs \ {p} : plan'[q] = plan[q],
         \A e \in early : e[1] # p => e \in early',
         \A n \in Nodes : Holds(p, n)' /\ Over(n) => <<p, n>> \in early'
  PROVE  Known'
<1>1. \A n \in Nodes : Over(n)' <=> Over(n)
  BY DEF Over
<1>2. ASSUME NEW q \in Procs, q # p, NEW n \in Nodes, Holds(q, n)', Over(n)
      PROVE  <<q, n>> \in early'
  <2>1. Holds(q, n)
    BY <1>2 DEF Holds, Others
  <2>2. <<q, n>> \in early /\ <<q, n>>[1] # p
    BY <1>2, <2>1 DEF Known
  <2>3. QED
    BY <2>2
<1>3. QED
  BY <1>1, <1>2 DEF Known

\* A process that goes where it holds nothing.
LEMMA KnownLetsGo ==
  ASSUME Known, NEW p \in Procs, Others(p), UNCHANGED spec,
         \A n \in Nodes : node'[n].status = node[n].status,
         \A q \in Procs \ {p} : plan'[q] = plan[q],
         \A e \in early : e[1] # p => e \in early',
         proc'[p].at \notin {"releasing", "copying", "visiting", "changing", "passing"}
  PROVE  Known'
<1>1. \A n \in Nodes : ~Holds(p, n)'
  BY DEF Holds
<1>2. QED
  BY <1>1, KnownFrom

\* Every step knows who may write over a node that is over.
LEMMA KnownStep ==
  ASSUME Typed, Known, [Next]_vars
  PROVE  Known'
<1>1. ASSUME NEW p \in Procs,
             (\E n \in Nodes : OnNode(p, n)) \/ (\E t \in Tasks : OnTask(p, t))
      PROVE  Known'
  <2>1. PICK w \in ProcRec :
          /\ Begins(p, w)
          /\ w.at \in {"releasing", "putting", "linking", "writing", "noting", "syncing"}
          /\ w.at = "releasing" => ~Over(w.node)
    BY <1>1, CommandDoes
  <2>2. proc'[p] = w /\ Others(p) /\ UNCHANGED <<spec, node, plan, early>>
    BY <2>1, BeginsDoes DEF tables
  <2>3. \A n \in Nodes : Holds(p, n)' => ~Over(n)
    BY <2>1, <2>2 DEF Holds
  <2>4. QED
    BY <2>2, <2>3, KnownFrom
<1>2. ASSUME NEW p \in Procs, dbLinkTaskToWorkflowNodeRun(p)
      PROVE  Known'
  <2>1. /\ Others(p) /\ proc'[p].at \in {"idle", "inserting"}
        /\ UNCHANGED <<spec, node, plan, early>>
    BY <1>2, LinksDoes DEF tables
  <2>2. QED
    BY <2>1, KnownLetsGo
<1>3. ASSUME NEW p \in Procs, InsertsAttempt(p)
      PROVE  Known'
  <2>1. /\ Others(p) /\ proc'[p].at \in {"idle", "binding"}
        /\ UNCHANGED <<spec, node, plan, early>>
    BY <1>3, InsertDoes
  <2>2. QED
    BY <2>1, KnownLetsGo
<1>4. ASSUME NEW p \in Procs, BindsTask(p)
      PROVE  Known'
  <2>1. /\ Others(p) /\ proc'[p].at = "syncing" /\ UNCHANGED <<spec, plan, early>>
        /\ \A n \in Nodes : node'[n].status = node[n].status
    BY <1>4, BindDoes
  <2>2. QED
    BY <2>1, KnownLetsGo
<1>5. ASSUME NEW p \in Procs, syncWorkflowNodeRunForTask(p)
      PROVE  Known'
  <2>1. /\ Others(p) /\ UNCHANGED <<spec, node, plan, early>>
        /\ \/ proc'[p].at = "idle"
           \/ proc'[p].at = "copying" /\ ~Over(proc'[p].node)
    BY <1>5, SyncDoes DEF tables
  <2>2. \A n \in Nodes : Holds(p, n)' => ~Over(n)
    BY <2>1 DEF Holds
  <2>3. QED
    BY <2>1, <2>2, KnownFrom
<1>6. ASSUME NEW p \in Procs, Lists(p)
      PROVE  Known'
  <2>1. /\ Others(p) /\ proc'[p].at = "visiting" /\ UNCHANGED <<spec, node>>
        /\ \A n \in Nodes : plan'[p][n] = Visit(n)
        /\ \A q \in Procs \ {p} : plan'[q] = plan[q]
        /\ \A e \in early : e[1] # p => e \in early'
    BY <1>6, ListsDoes DEF tables
  <2>2. \A n \in Nodes : Over(n) => Visit(n) = NoVisit
    BY DEF Over, Visit, Final
  <2>3. \A n \in Nodes : Holds(p, n)' => ~Over(n)
    BY <2>1, <2>2 DEF Holds
  <2>4. QED
    BY <2>1, <2>3, KnownFrom
<1>7. ASSUME NEW p \in Procs, NEW n \in Nodes, Visits(p, n)
      PROVE  Known'
  <2>1. /\ proc[p].at \in {"visiting", "changing"} /\ plan[p][n] # NoVisit /\ plan'[p][n] = NoVisit
        /\ \A m \in Nodes \ {n} : plan'[p][m] = plan[p][m]
        /\ \A q \in Procs \ {p} : plan'[q] = plan[q]
        /\ Others(p) /\ UNCHANGED <<spec, node, early>>
        /\ proc'[p] = proc[p] \/ (proc'[p].at = "passing" /\ proc'[p].node = n)
    BY <1>7, VisitDoes DEF tables
  <2>2. \A m \in Nodes : Holds(p, m)' => Holds(p, m)
    BY <2>1 DEF Holds
  <2>3. \A m \in Nodes : Holds(p, m)' /\ Over(m) => <<p, m>> \in early'
    BY <2>1, <2>2 DEF Known
  <2>4. QED
    BY <2>1, <2>3, KnownFrom
<1>8. ASSUME NEW p \in Procs, refreshWorkflowRunStatus(p)
      PROVE  Known'
  <2>1. /\ Others(p) /\ proc'[p].at = "closing" /\ UNCHANGED <<spec, node, plan>>
        /\ \A e \in early : e[1] # p => e \in early'
    BY <1>8, RefreshDoes DEF tables
  <2>2. QED
    BY <2>1, KnownLetsGo
<1>9. ASSUME NEW p \in Procs, WritesTask(p)
      PROVE  Known'
  <2>1. /\ Others(p) /\ proc'[p].at \in {"idle", "syncing"} /\ UNCHANGED <<spec, node, plan, early>>
    BY <1>9, WriteTaskDoes
  <2>2. QED
    BY <2>1, KnownLetsGo
<1>10. ASSUME NEW p \in Procs, NEW n \in Nodes, dbUpdateWorkflowNodeRun(p, n)
       PROVE  Known'
  <2>1. /\ proc[p].at \in {"releasing", "putting", "copying", "passing"}
        /\ proc'[p].at \in {"listing", "changing"} /\ Others(p)
        /\ proc'[p].at = "changing" => proc[p].at = "passing"
        /\ \A m \in Nodes \ {n} : node'[m] = node[m]
        /\ early \subseteq early'
        /\ ~Over(n) /\ Over(n)' => \A q \in Procs : Holding(q) => <<q, n>> \in early'
        /\ UNCHANGED <<spec, plan>>
    BY <1>10, UpdateNodeDoes
  <2>2. \A m \in Nodes \ {n} : Over(m)' <=> Over(m)
    BY <2>1 DEF Over
  <2>3. ASSUME NEW q \in Procs, NEW m \in Nodes, Holds(q, m)', Over(m)'
        PROVE  <<q, m>> \in early'
    <3>1. Holds(q, m)
      BY <2>1, <2>3 DEF Holds, Others
    <3>2. CASE Over(m)
      BY <2>1, <3>1, <3>2 DEF Known
    <3>3. CASE ~Over(m)
      <4>1. m = n
        BY <2>2, <2>3, <3>3
      <4>2. Holding(q)
        BY <3>1 DEF Holds, Holding
      <4>3. QED
        BY <2>1, <2>3, <3>3, <4>1, <4>2
    <3>4. QED
      BY <3>2, <3>3
  <2>4. QED
    BY <2>3 DEF Known
<1>11. ASSUME NEW p \in Procs, dbUpdateWorkflowRun(p)
       PROVE  Known'
  <2>1. Others(p) /\ proc'[p].at = "idle" /\ UNCHANGED <<spec, node, plan, early>>
    BY <1>11, UpdateRunDoes
  <2>2. QED
    BY <2>1, KnownLetsGo
<1>12. ASSUME NEW p \in Procs, Crash(p)
       PROVE  Known'
  <2>1. /\ Others(p) /\ proc'[p].at = "idle" /\ UNCHANGED <<spec, node>>
        /\ \A q \in Procs \ {p} : plan'[q] = plan[q]
        /\ \A e \in early : e[1] # p => e \in early'
    BY <1>12, CrashDoes DEF tables
  <2>2. QED
    BY <2>1, KnownLetsGo
<1>13. CASE UNCHANGED <<spec, node, proc, plan, early>>
  BY <1>13 DEF Known, Holds, Over
<1>14. ASSUME NEW t \in Tasks, Awaits(t)
       PROVE  Known'
  BY <1>13, <1>14, AwaitsDoes
<1>15. CASE UNCHANGED vars
  BY <1>13, <1>15 DEF vars, tables
<1>16. QED
  BY <1>1, <1>2, <1>3, <1>4, <1>5, <1>6, <1>7, <1>8, <1>9, <1>10, <1>11, <1>12, <1>14, <1>15
  DEF Next, Links, Reconciles, Writes

\* The status of a node is written by dbUpdateWorkflowNodeRun alone.
LEMMA StatusWritten ==
  ASSUME Typed, Next, NEW n \in Nodes, Over(n), ~Over(n)'
  PROVE  \E p \in Procs : dbUpdateWorkflowNodeRun(p, n)
<1>1. SUFFICES ASSUME UNCHANGED spec, node'[n].status = node[n].status
               PROVE  FALSE
  <2>1. ASSUME NEW p \in Procs,
               (\E m \in Nodes : OnNode(p, m)) \/ (\E t \in Tasks : OnTask(p, t))
        PROVE  UNCHANGED <<spec, node>>
    BY <2>1, CommandDoes DEF Begins, tables
  <2>2. ASSUME NEW p \in Procs, BindsTask(p)
        PROVE  UNCHANGED spec /\ node'[n].status = node[n].status
    BY <2>2, BindDoes
  <2>3. ASSUME NEW p \in Procs,
               \/ dbLinkTaskToWorkflowNodeRun(p) \/ InsertsAttempt(p) \/ syncWorkflowNodeRunForTask(p)
               \/ Lists(p) \/ (\E m \in Nodes : Visits(p, m)) \/ refreshWorkflowRunStatus(p)
               \/ WritesTask(p) \/ dbUpdateWorkflowRun(p) \/ Crash(p)
        PROVE  UNCHANGED <<spec, node>>
    BY <2>3 DEF dbLinkTaskToWorkflowNodeRun, InsertsAttempt, syncWorkflowNodeRunForTask, Lists, Visits,
                refreshWorkflowRunStatus, WritesTask, dbUpdateWorkflowRun, Crash, tables
  <2>4. ASSUME NEW p \in Procs, NEW m \in Nodes, dbUpdateWorkflowNodeRun(p, m), m # n
        PROVE  UNCHANGED spec /\ node'[n] = node[n]
    BY <2>4, UpdateNodeDoes
  <2>5. ASSUME NEW t \in Tasks, Awaits(t)
        PROVE  UNCHANGED <<spec, node>>
    BY <2>5 DEF Awaits
  <2>6. QED
    BY <1>1, <2>1, <2>2, <2>3, <2>4, <2>5 DEF Next, Links, Reconciles, Writes
<1>2. QED
  BY <1>1 DEF Over

\* A node that is over is brought back by nobody but a process that had read it before.
THEOREM StaysOver == Spec => OverStays
<1> DEFINE Stays == \A n \in Nodes : Over(n) /\ ~Over(n)' =>
                      \E p \in Procs : <<p, n>> \in early /\ proc'[p] # proc[p]
<1>1. Init => Known
  BY DEF Init, Known, Holds, Work
<1>2. Typed /\ Known /\ [Next]_vars => Known'
  BY KnownStep
<1>3. Typed /\ Known /\ [Next]_vars => [Stays]_vars
  <2> SUFFICES ASSUME Typed, Known, Next, NEW n \in Nodes, Over(n), ~Over(n)'
               PROVE  \E p \in Procs : <<p, n>> \in early /\ proc'[p] # proc[p]
    OBVIOUS
  <2>1. PICK p \in Procs : dbUpdateWorkflowNodeRun(p, n)
    BY StatusWritten
  <2>2. /\ proc[p].at \in {"releasing", "putting", "copying", "passing"} /\ proc[p].node = n
        /\ proc'[p].at \in {"listing", "changing"} /\ node'[n].status = proc[p].status
    BY <2>1, UpdateNodeDoes
  <2>3. proc[p].at # "putting"
    BY <2>2 DEF Over, Typed, Fits, Fit
  <2>4. <<p, n>> \in early
    BY <2>2, <2>3 DEF Known, Holds
  <2>5. QED
    BY <2>2, <2>4
<1>4. QED
  BY <1>1, <1>2, <1>3, AlwaysTyped, PTL DEF Spec, OverStays

==============================================================================
