------------------------------ MODULE MCWorkflows ------------------------------
(* Workflows for two graphs of two nodes, two tasks and two processes.       *)
EXTENDS Workflows, TLC

CONSTANTS a, b, t1, t2, p1, p2

Shape(edges, gates, manual, optional) ==
  [edges |-> edges, gates |-> gates, manual |-> manual, optional |-> optional]

\* a task that is released by hand and may be skipped, then an approval; and a task
\* after a task
Shapes == {Shape({<<a, b>>}, {b}, {a, b}, {a}), Shape({<<a, b>>}, {}, {}, {})}

Symmetric == Permutations({t1, t2}) \cup Permutations({p1, p2})

Busy == {p \in Procs : proc[p].at # "idle"}

Attached == {t \in Tasks : owner[t] # NoNode}

Copying == {p \in Busy : proc[p].at \in {"inserting", "binding", "syncing", "copying"}}

\* What has happened to the run that a command finds in the ordinary course: tables
\* that drifted, a late status, an attempt that was taken; two tasks attached, and
\* nobody at it; and every task without a node that is not as it was created.
Mishaps == (IF drifted THEN 1 ELSE 0) + (IF late THEN 1 ELSE 0) + (IF taken THEN 1 ELSE 0)
             + (IF Cardinality(Attached) > 1 /\ Copying = {} THEN 1 ELSE 0)
             + Cardinality({t \in Tasks : owner[t] = NoNode /\ task[t] # "open"})

\* The bound of the run: both processes are at work at a time while none of this is
\* the case, one while one is, and none after two; each of the races of two processes
\* can happen, and what one process makes of its outcome.
AtMostTwo == Cardinality(Busy) + Mishaps <= 2

===============================================================================
